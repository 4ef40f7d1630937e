--------------------------- MODULE UserConfigProofs ---------------------------
(***************************************************************************)
(* Theorems about UserConfig and Limits, for any number of threads,        *)
(* directories and requests and for any machine. Whatever is written to    *)
(* the file was read from it, so what the file must never hold must not be *)
(* in the hands of a thread either: the two invariants below are about     *)
(* every configuration in circulation (Circulating), and about what        *)
(* start.sh has read while nobody has written since.                       *)
(***************************************************************************)
EXTENDS UserConfig, TLAPS

Circulating == {file.cfg} \cup {task[w] : w \in Writers}

\* The directory start.sh mounts for a configuration.
Choice(cfg) == IF cfg.dir = NoDir THEN DefaultDir ELSE cfg.dir

\* What start.sh has read is what the file still says.
LaunchOK ==
  launch.undisturbed =>
    launch.dir = Choice(Read) /\ \A w \in Writers : pc[w] # "write"

\* A directory is chosen only by name, and one that has been mounted since is
\* the only one a configuration may name without asking for a restart.
Confirmed(cfg) ==
  cfg.configured =>
    /\ cfg.dir # NoDir
    /\ mount.undisturbed => cfg.pending \/ cfg.dir = mount.dir
ConfirmInv == LaunchOK /\ \A cfg \in Circulating : Confirmed(cfg)

\* As long as no directory has been chosen since, a mark is one the container
\* answers, and only the startup that could not write has let requests copy it.
UnlockInv ==
  mount.undisturbed /\ ~chosen =>
    /\ \A cfg \in Circulating : cfg.pending => Mounted(cfg)
    /\ server # "up" \/ ~mount.stuck => \A w \in Writers : ~task[w].pending
    /\ server = "up" /\ ~mount.stuck => ~Read.pending

(***************************************************************************)
(* Types.                                                                  *)
(***************************************************************************)
LEMMA ConfigTypes ==
  /\ Default \in Configs
  /\ Empty \in [state : {"whole", "empty", "torn"}, cfg : Configs]
  /\ Torn \in [state : {"whole", "empty", "torn"}, cfg : Configs]
  /\ \A cfg \in Configs : Whole(cfg) \in [state : {"whole", "empty", "torn"}, cfg : Configs]
<1>1. Default \in Configs
  BY DEF Default, Configs, Paths, Modes, None
<1> QED
  BY <1>1 DEF Empty, Torn, Whole

LEMMA PrepareType ==
  ASSUME TypeOK, NEW w \in Writers, NEW cfg \in Configs, Prepare(w, cfg)
  PROVE  pc' \in [Writers -> {"idle", "open", "write"}] /\ task' \in [Writers -> Configs]
BY DEF TypeOK, Prepare

LEMMA Edits ==
  ASSUME TypeOK
  PROVE  /\ Read \in Configs
         /\ \A dir \in Paths :
              [Read EXCEPT !.dir = dir, !.configured = TRUE, !.pending = TRUE] \in Configs
         /\ \A l \in [mode : Modes, threads : Overrides \cup {None}, nice : Overrides \cup {None}] :
              [Read EXCEPT !.limits = l] \in Configs
         /\ \A u \in BOOLEAN : [Read EXCEPT !.update = u] \in Configs
         /\ [Read EXCEPT !.pending = FALSE] \in Configs
<1>1. Read \in Configs
  BY DEF TypeOK, Read
<1> QED
  BY <1>1 DEF Configs

LEMMA TypeInductive == TypeOK /\ [Next]_vars => TypeOK'
<1> SUFFICES ASSUME TypeOK, [Next]_vars PROVE TypeOK'
  OBVIOUS
<1>1. CASE UNCHANGED vars
  BY <1>1 DEF vars, TypeOK
<1>2. CASE LaunchRead
  <2>1. launch' \in Mounts
    BY <1>2, Edits DEF LaunchRead, Mounts, AllIdle, Configs, Paths
  <2> QED
    BY <1>2, <2>1 DEF LaunchRead, TypeOK
<1>3. CASE LaunchUp \/ Stop \/ Restart
  <2>1. mount' \in Mounts /\ launch' \in Mounts
    <3>1. NoMount \in Mounts
      BY DEF NoMount, Mounts, Paths
    <3> QED
      BY <1>3, <3>1 DEF LaunchUp, Stop, Restart, TypeOK, Mounts
  <2>2. pc' \in [Writers -> {"idle", "open", "write"}] /\ task' \in [Writers -> Configs]
    BY <1>3, ConfigTypes DEF LaunchUp, Stop, Restart, TypeOK
  <2>3. UNCHANGED <<file, requests>> /\ cpu' \in Cpus /\ chosen' \in BOOLEAN
    BY <1>3 DEF LaunchUp, Stop, Restart, TypeOK
  <2>4. server' \in {"down", "boot", "up"} /\ hostPath' \in Paths \cup {NotRead}
    BY <1>3 DEF LaunchUp, Stop, Restart, TypeOK
  <2> QED
    BY <2>1, <2>2, <2>3, <2>4 DEF TypeOK
<1>4. CASE BootKeep \/ HostDataDir
  <2>1. Read.dir \in Paths
    BY Edits DEF Configs
  <2> QED
    BY <1>4, <2>1 DEF BootKeep, HostDataDir, TypeOK
<1>5. CASE BootClear
  BY <1>5, Edits, PrepareType DEF BootClear, TypeOK, Writers
<1>6. ASSUME NEW t \in Threads, Request(t) PROVE TypeOK'
  <2>1. requests' \in 0..MaxRequests /\ UNCHANGED <<file, cpu, server, mount, launch, hostPath>>
    <3>1. Ask(t)
      BY <1>6 DEF Request, PostSettings, PostResourceLimits, PostUpdateCheck
    <3> QED
      BY <3>1, RequestsAssumption DEF Ask, TypeOK
  <2>2. chosen' \in BOOLEAN
    BY <1>6 DEF Request, PostSettings, PostResourceLimits, PostUpdateCheck, TypeOK
  <2>3. PICK cfg \in Configs : Prepare(t, cfg)
    <3>1. CASE \E dir \in Paths : PostSettings(t, dir)
      BY <3>1, Edits DEF PostSettings
    <3>2. CASE \E limits \in Asked : PostResourceLimits(t, limits)
      <4>1. PICK limits \in Asked : PostResourceLimits(t, limits)
        BY <3>2
      <4>2. limits \in [mode : Modes, threads : Overrides \cup {None}, nice : Overrides \cup {None}]
        BY <4>1 DEF PostResourceLimits, Valid, Asked
      <4> QED
        BY <4>1, <4>2, Edits DEF PostResourceLimits
    <3>3. CASE \E enabled \in BOOLEAN : PostUpdateCheck(t, enabled)
      BY <3>3, Edits DEF PostUpdateCheck
    <3> QED
      BY <1>6, <3>1, <3>2, <3>3 DEF Request
  <2> QED
    BY <2>1, <2>2, <2>3, PrepareType DEF TypeOK, Writers
<1>7. ASSUME NEW w \in Writers, OpenFile(w) PROVE TypeOK'
  BY <1>7, ConfigTypes DEF OpenFile, TypeOK, Mounts
<1>9. ASSUME NEW w \in Writers, WriteFails(w) PROVE TypeOK'
  <2>1. file' \in {file, Torn}
    BY <1>9 DEF WriteFails
  <2>2. file' \in [state : {"whole", "empty", "torn"}, cfg : Configs]
    BY <2>1, ConfigTypes DEF TypeOK
  <2>3. pc' \in [Writers -> {"idle", "open", "write"}] /\ task' \in [Writers -> Configs]
    BY <1>9, ConfigTypes DEF WriteFails, TypeOK
  <2>4. mount' \in Mounts
    BY <1>9 DEF WriteFails, TypeOK, Mounts
  <2> QED
    BY <1>9, <2>2, <2>3, <2>4 DEF WriteFails, TypeOK
<1>8. ASSUME NEW w \in Writers, WriteFile(w) PROVE TypeOK'
  <2>1. file' \in {Whole(task[w]), Torn}
    BY <1>8 DEF WriteFile
  <2>2. file' \in [state : {"whole", "empty", "torn"}, cfg : Configs]
    BY <2>1, ConfigTypes DEF TypeOK
  <2>3. pc' \in [Writers -> {"idle", "open", "write"}] /\ task' \in [Writers -> Configs]
    BY <1>8, ConfigTypes DEF WriteFile, TypeOK
  <2> QED
    BY <1>8, <2>2, <2>3 DEF WriteFile, TypeOK
<1> QED
  BY <1>1, <1>2, <1>3, <1>4, <1>5, <1>6, <1>7, <1>8, <1>9 DEF Next

\* A thread holds what it read, changed by its request.
LEMMA Drafts ==
  ASSUME TypeOK, NEW t \in Threads, Request(t)
  PROVE  /\ UNCHANGED <<file, cpu, server, mount, launch, hostPath>>
         /\ server = "up"
         /\ \E cfg \in Configs :
              /\ Prepare(t, cfg)
              /\ \/ chosen' /\ cfg.pending /\ cfg.dir # NoDir
                 \/ /\ chosen' = chosen /\ cfg.pending = Read.pending
                    /\ cfg.dir = Read.dir /\ cfg.configured = Read.configured
<1>1. Ask(t)
  BY DEF Request, PostSettings, PostResourceLimits, PostUpdateCheck
<1>2. CASE \E dir \in Paths : PostSettings(t, dir)
  <2>1. PICK dir \in Paths : PostSettings(t, dir)
    BY <1>2
  <2> DEFINE cfg == [Read EXCEPT !.dir = dir, !.configured = TRUE, !.pending = TRUE]
  <2>2. cfg \in Configs /\ cfg.pending /\ cfg.dir = dir
    BY Edits DEF Configs
  <2> HIDE DEF cfg
  <2>3. Prepare(t, cfg) /\ chosen' /\ dir # NoDir
    BY <2>1 DEF PostSettings, cfg
  <2> QED
    BY <1>1, <2>2, <2>3 DEF Ask
<1>3. CASE \E limits \in Asked : PostResourceLimits(t, limits)
  <2>1. PICK limits \in Asked : PostResourceLimits(t, limits)
    BY <1>3
  <2> DEFINE cfg == [Read EXCEPT !.limits = limits]
  <2>2. limits \in [mode : Modes, threads : Overrides \cup {None}, nice : Overrides \cup {None}]
    BY <2>1 DEF PostResourceLimits, Valid, Asked
  <2>3. cfg \in Configs /\ cfg.pending = Read.pending /\ cfg.dir = Read.dir
        /\ cfg.configured = Read.configured
    BY <2>2, Edits DEF Configs
  <2> HIDE DEF cfg
  <2>4. Prepare(t, cfg) /\ chosen' = chosen
    BY <2>1 DEF PostResourceLimits, cfg
  <2> QED
    BY <1>1, <2>3, <2>4 DEF Ask
<1>4. CASE \E enabled \in BOOLEAN : PostUpdateCheck(t, enabled)
  <2>1. PICK enabled \in BOOLEAN : PostUpdateCheck(t, enabled)
    BY <1>4
  <2> DEFINE cfg == [Read EXCEPT !.update = enabled]
  <2>2. cfg \in Configs /\ cfg.pending = Read.pending /\ cfg.dir = Read.dir
        /\ cfg.configured = Read.configured
    BY Edits DEF Configs
  <2> HIDE DEF cfg
  <2>3. Prepare(t, cfg) /\ chosen' = chosen
    BY <2>1 DEF PostUpdateCheck, cfg
  <2> QED
    BY <1>1, <2>2, <2>3 DEF Ask
<1> QED
  BY <1>2, <1>3, <1>4 DEF Request

\* The startup takes the mark off a configuration whose directory is mounted.
LEMMA BootDraft ==
  ASSUME TypeOK, BootClear
  PROVE  \E cfg \in Configs :
           /\ Prepare(Startup, cfg)
           /\ ~cfg.pending /\ cfg.dir = Read.dir /\ cfg.configured = Read.configured
           /\ cfg.dir = NoDir \/ mount.dir = cfg.dir
<1> DEFINE cfg == [Read EXCEPT !.pending = FALSE]
<1>1. cfg \in Configs /\ ~cfg.pending /\ cfg.dir = Read.dir /\ cfg.configured = Read.configured
  BY Edits DEF Configs
<1> HIDE DEF cfg
<1>2. Prepare(Startup, cfg) /\ Mounted(Read)
  BY DEF BootClear, cfg
<1> QED
  BY <1>1, <1>2 DEF Mounted

LEMMA Remains ==
  ~Default.configured /\ ~Default.pending /\ Empty.cfg = Default /\ Torn.cfg = Default
  /\ \A cfg : Whole(cfg).cfg = cfg
BY DEF Default, Empty, Torn, Whole

(***************************************************************************)
(* What start.sh has read is what the file still says.                     *)
(***************************************************************************)
LEMMA LaunchInductive == TypeOK /\ LaunchOK /\ [Next]_vars => LaunchOK'
<1> SUFFICES ASSUME TypeOK, LaunchOK, [Next]_vars PROVE LaunchOK'
  OBVIOUS
<1>1. CASE UNCHANGED vars
  BY <1>1 DEF vars, LaunchOK, Choice, Read
<1>2. CASE LaunchRead
  BY <1>2 DEF LaunchRead, LaunchOK, AllIdle, Choice, Read
<1>3. CASE LaunchUp
  BY <1>3 DEF LaunchUp, LaunchOK, NoMount
<1>4. CASE Stop \/ Restart \/ BootKeep \/ HostDataDir
  BY <1>4 DEF Stop, Restart, BootKeep, HostDataDir, LaunchOK, Choice, Read
<1>5. CASE BootClear
  BY <1>5 DEF BootClear, Prepare, LaunchOK, Choice, Read, TypeOK, Writers
<1>6. ASSUME NEW t \in Threads, Request(t) PROVE LaunchOK'
  <2>1. UNCHANGED <<file, launch>> /\ \E cfg \in Configs : Prepare(t, cfg)
    BY <1>6, Drafts
  <2> QED
    BY <2>1 DEF Prepare, LaunchOK, Choice, Read, TypeOK, Writers
<1>7. ASSUME NEW w \in Writers, OpenFile(w) PROVE LaunchOK'
  <2>1. launch'.undisturbed = FALSE
    BY <1>7 DEF OpenFile, TypeOK, Mounts
  <2> QED
    BY <2>1 DEF LaunchOK
<1>8. ASSUME NEW w \in Writers, WriteFile(w) PROVE LaunchOK'
  BY <1>8 DEF WriteFile, LaunchOK
<1>9. ASSUME NEW w \in Writers, WriteFails(w) PROVE LaunchOK'
  BY <1>9 DEF WriteFails, LaunchOK, Choice, Read, TypeOK
<1> QED
  BY <1>1, <1>2, <1>3, <1>4, <1>5, <1>6, <1>7, <1>8, <1>9 DEF Next

(***************************************************************************)
(* No configuration in circulation names another directory than the one    *)
(* mounted, unless it asks for a restart.                                  *)
(***************************************************************************)
LEMMA PreparedConfirmed ==
  ASSUME TypeOK, ConfirmInv, NEW w \in Writers, NEW cfg, Prepare(w, cfg), Confirmed(cfg),
         UNCHANGED <<file, mount>>
  PROVE  \A c \in Circulating' : Confirmed(c)'
<1>1. \A c : Confirmed(c)' = Confirmed(c)
  BY DEF Confirmed
<1>2. Circulating' \subseteq Circulating \cup {cfg}
  BY DEF Circulating, Prepare, TypeOK
<1> QED
  BY <1>1, <1>2 DEF ConfirmInv

LEMMA KeptConfirmed ==
  ASSUME ConfirmInv, UNCHANGED <<mount.dir, mount.undisturbed>>,
         Circulating' \subseteq Circulating \cup {Default}
  PROVE  \A c \in Circulating' : Confirmed(c)'
BY Remains DEF ConfirmInv, Confirmed

LEMMA LaunchConfirms ==
  ASSUME TypeOK, ConfirmInv, LaunchUp
  PROVE  \A c \in Circulating' : Confirmed(c)'
<1>1. Circulating' \subseteq {file.cfg, Default}
  BY DEF Circulating, LaunchUp
<1>2. ASSUME file.cfg.configured
      PROVE  file.cfg.dir # NoDir /\ (mount'.undisturbed => file.cfg.dir = mount'.dir)
  <2>1. file.cfg.dir # NoDir
    BY <1>2 DEF ConfirmInv, Circulating, Confirmed
  <2> QED
    BY <2>1 DEF LaunchUp, ConfirmInv, LaunchOK, Choice, Read
<1> QED
  BY <1>1, <1>2, Remains DEF Confirmed

LEMMA ConfirmInductive == TypeOK /\ ConfirmInv /\ [Next]_vars => ConfirmInv'
<1> SUFFICES ASSUME TypeOK, ConfirmInv, [Next]_vars PROVE \A c \in Circulating' : Confirmed(c)'
  BY LaunchInductive DEF ConfirmInv
<1>1. CASE UNCHANGED vars
  <2>1. Circulating' = Circulating
    BY <1>1 DEF vars, Circulating
  <2> QED
    BY <1>1, <2>1, KeptConfirmed DEF vars
<1>2. CASE LaunchRead \/ Restart \/ BootKeep \/ HostDataDir
  <2>1. Circulating' = Circulating
    BY <1>2 DEF LaunchRead, Restart, BootKeep, HostDataDir, Circulating
  <2>2. UNCHANGED <<mount.dir, mount.undisturbed>>
    BY <1>2 DEF LaunchRead, Restart, BootKeep, HostDataDir, TypeOK, Mounts
  <2> QED
    BY <2>1, <2>2, KeptConfirmed
<1>3. CASE LaunchUp
  BY <1>3, LaunchConfirms
<1>4. CASE Stop
  <2>1. Circulating' \subseteq Circulating \cup {Default}
    BY <1>4 DEF Stop, Circulating
  <2> QED
    BY <1>4, <2>1, KeptConfirmed DEF Stop
<1>5. CASE BootClear
  <2>1. PICK cfg \in Configs :
          /\ Prepare(Startup, cfg)
          /\ ~cfg.pending /\ cfg.dir = Read.dir /\ cfg.configured = Read.configured
          /\ cfg.dir = NoDir \/ mount.dir = cfg.dir
    BY <1>5, BootDraft
  <2>2. Confirmed(Read)
    BY DEF ConfirmInv, Circulating, Read
  <2>3. Confirmed(cfg)
    BY <2>1, <2>2 DEF Confirmed
  <2> QED
    BY <1>5, <2>1, <2>3, PreparedConfirmed DEF BootClear, Writers
<1>6. ASSUME NEW t \in Threads, Request(t) PROVE \A c \in Circulating' : Confirmed(c)'
  <2>1. PICK cfg \in Configs :
          /\ Prepare(t, cfg)
          /\ \/ cfg.pending /\ cfg.dir # NoDir
             \/ /\ cfg.pending = Read.pending
                /\ cfg.dir = Read.dir /\ cfg.configured = Read.configured
    BY <1>6, Drafts
  <2>2. Confirmed(Read)
    BY DEF ConfirmInv, Circulating, Read
  <2>3. Confirmed(cfg)
    BY <2>1, <2>2 DEF Confirmed
  <2> QED
    BY <1>6, <2>1, <2>3, Drafts, PreparedConfirmed DEF Writers
<1>7. ASSUME NEW w \in Writers, OpenFile(w) PROVE \A c \in Circulating' : Confirmed(c)'
  <2>1. Circulating' \subseteq Circulating \cup {Default}
    BY <1>7, Remains DEF OpenFile, Circulating
  <2> QED
    BY <1>7, <2>1, KeptConfirmed DEF OpenFile
<1>8. ASSUME NEW w \in Writers, WriteFile(w) PROVE \A c \in Circulating' : Confirmed(c)'
  <2>1. file' \in {Whole(task[w]), Torn} /\ task' = [task EXCEPT ![w] = Default]
    BY <1>8 DEF WriteFile
  <2>2. Circulating' \subseteq Circulating \cup {Default}
    BY <2>1, Remains DEF Circulating, TypeOK
  <2> QED
    BY <1>8, <2>2, KeptConfirmed DEF WriteFile
<1>9. ASSUME NEW w \in Writers, WriteFails(w) PROVE \A c \in Circulating' : Confirmed(c)'
  <2>1. file' \in {file, Torn} /\ task' = [task EXCEPT ![w] = Default]
    BY <1>9 DEF WriteFails
  <2>2. Circulating' \subseteq Circulating \cup {Default}
    BY <2>1, Remains DEF Circulating, TypeOK
  <2>3. UNCHANGED <<mount.dir, mount.undisturbed>>
    BY <1>9 DEF WriteFails, TypeOK, Mounts
  <2> QED
    BY <2>2, <2>3, KeptConfirmed
<1> QED
  BY <1>1, <1>2, <1>3, <1>4, <1>5, <1>6, <1>7, <1>8, <1>9 DEF Next

(***************************************************************************)
(* The page is unlocked by the container that was waited for.              *)
(***************************************************************************)
\* Nothing but Default has come into circulation, and the mount is the same one.
LEMMA KeptUnlocked ==
  ASSUME UnlockInv, mount.undisturbed, ~chosen, mount'.dir = mount.dir,
         Circulating' \subseteq Circulating \cup {Default}
  PROVE  \A cfg \in Circulating' : cfg.pending => Mounted(cfg)'
BY Remains DEF UnlockInv, Mounted

LEMMA UnlockInductive == TypeOK /\ LaunchOK /\ UnlockInv /\ [Next]_vars => UnlockInv'
<1> SUFFICES ASSUME TypeOK, LaunchOK, UnlockInv, [Next]_vars,
                    mount'.undisturbed, ~chosen'
             PROVE  /\ \A cfg \in Circulating' : cfg.pending => Mounted(cfg)'
                    /\ server' # "up" \/ ~mount'.stuck => \A w \in Writers : ~task'[w].pending
                    /\ server' = "up" /\ ~mount'.stuck => ~Read'.pending
  BY DEF UnlockInv
<1> DEFINE Kept ==
      /\ \A cfg \in Circulating' : cfg.pending => Mounted(cfg)'
      /\ server' # "up" \/ ~mount'.stuck => \A w \in Writers : ~task'[w].pending
      /\ server' = "up" /\ ~mount'.stuck => ~Read'.pending
<1>1. CASE UNCHANGED vars
  BY <1>1 DEF vars, UnlockInv, Mounted, Read, Circulating
<1>2. CASE LaunchRead \/ HostDataDir
  BY <1>2 DEF LaunchRead, HostDataDir, UnlockInv, Mounted, Read, Circulating
<1>3. CASE LaunchUp
  <2>1. mount'.dir = Choice(Read) /\ server' = "boot" /\ UNCHANGED file
        /\ \A w \in Writers : task'[w] = Default
    BY <1>3 DEF LaunchUp, LaunchOK
  <2>2. \A cfg \in Circulating' : cfg = Read \/ cfg = Default
    BY <2>1 DEF Circulating, Read
  <2>3. Mounted(Read)'
    BY <2>1 DEF Mounted, Choice, Read
  <2> QED
    BY <2>1, <2>2, <2>3, Remains DEF Mounted, Read
<1>4. CASE Stop \/ Restart
  <2>1. mount'.dir = mount.dir /\ mount.undisturbed /\ ~chosen /\ server' # "up"
    BY <1>4 DEF Stop, Restart, TypeOK, Mounts
  <2>2. Circulating' \subseteq Circulating \cup {Default}
    BY <1>4 DEF Stop, Restart, Circulating
  <2>3. \A w \in Writers : ~task'[w].pending
    BY <1>4, <2>1, Remains DEF Stop, Restart, UnlockInv
  <2> QED
    BY <2>1, <2>2, <2>3, KeptUnlocked
<1>5. CASE BootKeep
  BY <1>5 DEF BootKeep, UnlockInv, Mounted, Read, Circulating
<1>6. CASE BootClear
  <2>1. PICK cfg \in Configs : Prepare(Startup, cfg) /\ ~cfg.pending
    BY <1>6, BootDraft
  <2>2. UNCHANGED <<file, server, mount, chosen>> /\ server = "boot"
    BY <1>6 DEF BootClear
  <2>3. Circulating' \subseteq Circulating \cup {cfg}
    BY <2>1, <2>2 DEF Prepare, Circulating, TypeOK
  <2>4. \A w \in Writers : ~task'[w].pending
    BY <2>1, <2>2 DEF Prepare, UnlockInv, TypeOK
  <2> QED
    BY <2>1, <2>2, <2>3, <2>4 DEF UnlockInv, Mounted
<1>7. ASSUME NEW t \in Threads, Request(t) PROVE Kept
  <2>1. UNCHANGED <<file, server, mount>> /\ server = "up"
    BY <1>7, Drafts
  <2>2. PICK cfg \in Configs :
          /\ Prepare(t, cfg)
          /\ chosen' = chosen /\ cfg.pending = Read.pending /\ cfg.dir = Read.dir
    BY <1>7, Drafts
  <2>3. Circulating' \subseteq Circulating \cup {cfg}
    BY <2>1, <2>2 DEF Prepare, Circulating, TypeOK
  <2>4. cfg.pending => Mounted(cfg)
    BY <2>1, <2>2 DEF UnlockInv, Circulating, Mounted, Read
  <2>5. \A c \in Circulating' : c.pending => Mounted(c)'
    BY <2>1, <2>2, <2>3, <2>4 DEF UnlockInv, Mounted
  <2>6. ~mount'.stuck => \A w \in Writers : ~task'[w].pending
    BY <2>1, <2>2 DEF Prepare, UnlockInv, TypeOK, Writers
  <2> QED
    BY <2>1, <2>2, <2>5, <2>6 DEF UnlockInv, Read
<1>8. ASSUME NEW w \in Writers, OpenFile(w) PROVE Kept
  <2>1. UNCHANGED <<server, mount, task, chosen>> /\ file' = Empty
    BY <1>8 DEF OpenFile
  <2>2. Circulating' \subseteq Circulating \cup {Default}
    BY <2>1, Remains DEF Circulating
  <2>3. \A cfg \in Circulating' : cfg.pending => Mounted(cfg)'
    BY <2>1, <2>2, KeptUnlocked
  <2> QED
    BY <2>1, <2>3, Remains DEF UnlockInv, Read
<1>9. ASSUME NEW w \in Writers, WriteFile(w) PROVE Kept
  <2>1. file' \in {Whole(task[w]), Torn} /\ task' = [task EXCEPT ![w] = Default]
        /\ UNCHANGED <<mount, chosen>> /\ (server' = server \/ server' = "up")
    BY <1>9 DEF WriteFile
  <2>2. Circulating' \subseteq Circulating \cup {Default}
    BY <2>1, Remains DEF Circulating, TypeOK
  <2>3. \A cfg \in Circulating' : cfg.pending => Mounted(cfg)'
    BY <2>1, <2>2, KeptUnlocked
  <2>4. server' # "up" \/ ~mount'.stuck => \A v \in Writers : ~task[v].pending
    BY <2>1 DEF UnlockInv
  <2> QED
    BY <2>1, <2>3, <2>4, Remains DEF TypeOK, Read
<1>10. ASSUME NEW w \in Writers, WriteFails(w) PROVE Kept
  <2>1. file' \in {file, Torn} /\ task' = [task EXCEPT ![w] = Default] /\ UNCHANGED chosen
    BY <1>10 DEF WriteFails
  <2>2. mount'.dir = mount.dir /\ mount.undisturbed /\ (mount.stuck => mount'.stuck)
    BY <1>10 DEF WriteFails, TypeOK, Mounts
  <2>3. Circulating' \subseteq Circulating \cup {Default}
    BY <2>1, Remains DEF Circulating, TypeOK
  <2>4. \A cfg \in Circulating' : cfg.pending => Mounted(cfg)'
    BY <2>1, <2>2, <2>3, KeptUnlocked
  <2>5. server' = server \/ (server' = "up" /\ mount'.stuck)
    <3>1. CASE w = Startup
      BY <1>10, <3>1 DEF WriteFails, TypeOK, Mounts
    <3>2. CASE w # Startup
      BY <1>10, <3>2 DEF WriteFails
    <3> QED
      BY <3>1, <3>2
  <2>6. server' # "up" \/ ~mount'.stuck => \A v \in Writers : ~task[v].pending
    BY <2>1, <2>2, <2>5 DEF UnlockInv
  <2>7. server' = "up" /\ ~mount'.stuck => ~Read.pending
    BY <2>1, <2>2, <2>5 DEF UnlockInv
  <2> QED
    BY <2>1, <2>4, <2>6, <2>7, Remains DEF TypeOK, Read
<1> QED
  BY <1>1, <1>2, <1>3, <1>4, <1>5, <1>6, <1>7, <1>8, <1>9, <1>10 DEF Next

ConfigInv == TypeOK /\ ConfirmInv /\ UnlockInv

LEMMA ConfigInvInit == Init => ConfigInv
<1> SUFFICES ASSUME Init PROVE ConfigInv
  OBVIOUS
<1>1. PICK dir \in Paths :
        file = Whole([Default EXCEPT !.configured = (dir # NoDir), !.dir = dir])
  BY DEF Init
<1> DEFINE cfg == [Default EXCEPT !.configured = (dir # NoDir), !.dir = dir]
<1>2. cfg \in Configs /\ cfg.configured = (dir # NoDir) /\ cfg.dir = dir /\ ~cfg.pending
  BY ConfigTypes, Remains DEF Configs
<1> HIDE DEF cfg
<1>3. file = Whole(cfg) /\ file.cfg = cfg
  BY <1>1, Remains DEF cfg
<1>4. mount = NoMount /\ launch = NoMount /\ \A w \in Writers : task[w] = Default
  BY DEF Init
<1>5. TypeOK
  <2>1. file \in [state : {"whole", "empty", "torn"}, cfg : Configs]
    BY <1>2, <1>3, ConfigTypes
  <2>2. NoMount \in Mounts
    BY DEF NoMount, Mounts, Paths
  <2>3. task \in [Writers -> Configs] /\ pc \in [Writers -> {"idle", "open", "write"}]
    BY ConfigTypes DEF Init
  <2>4. cpu \in Cpus /\ server = "down" /\ hostPath = NotRead /\ chosen = FALSE
        /\ requests = MaxRequests
    BY DEF Init
  <2>5. requests \in 0..MaxRequests
    BY <2>4, RequestsAssumption
  <2> QED
    BY <1>4, <2>1, <2>2, <2>3, <2>4, <2>5 DEF TypeOK
<1>6. ConfirmInv
  BY <1>2, <1>3, <1>4, Remains DEF ConfirmInv, LaunchOK, Circulating, Confirmed, NoMount
<1>7. UnlockInv
  BY <1>4 DEF UnlockInv, NoMount
<1> QED
  BY <1>5, <1>6, <1>7 DEF ConfigInv

LEMMA ConfigInvHolds == Spec => []ConfigInv
<1>1. ConfigInv /\ [Next]_vars => ConfigInv'
  BY TypeInductive, ConfirmInductive, UnlockInductive DEF ConfigInv, ConfirmInv
<1> QED
  BY <1>1, ConfigInvInit, PTL DEF Spec

\* Every value has its type.
THEOREM TypeCorrect == Spec => []TypeOK
<1>1. ConfigInv => TypeOK
  BY DEF ConfigInv
<1> QED
  BY <1>1, ConfigInvHolds, PTL

\* A configuration that asks for no restart names the directory that is mounted,
\* with any number of threads changing the file and the process dying anywhere
\* (_clear_pending_restart).
THEOREM MountConfirmed == Spec => []MountIsConfirmed
<1>1. ConfigInv => MountIsConfirmed
  BY DEF ConfigInv, ConfirmInv, Circulating, Confirmed, MountIsConfirmed, IsConfigured, Read
<1> QED
  BY <1>1, ConfigInvHolds, PTL

\* A new container is locked again only when another directory is chosen.
THEOREM LaunchUnlocks == Spec => []UnlockedByLaunch
<1>1. ConfigInv => UnlockedByLaunch
  BY DEF ConfigInv, UnlockInv, UnlockedByLaunch
<1> QED
  BY <1>1, ConfigInvHolds, PTL

(***************************************************************************)
(* The limits of a job, and the number of jobs.                            *)
(***************************************************************************)
LEMMA LimitsAgreeFor ==
  ASSUME NEW count \in Nat \ {0}, NEW limits,
         limits.threads \in Nat \cup {None}, limits.nice \in Nat \cup {None}
  PROVE  EffectiveLimits(limits, count) = ResourceLimits(limits, count)
<1>1. PresetThreads(limits.mode, count) \in 1..count
  BY DEF PresetThreads, AtLeast
<1>2. PresetNice(limits.mode) \in 0..19
  BY DEF PresetNice
<1> QED
  BY <1>1, <1>2 DEF EffectiveLimits, ResourceLimits, AtLeast, AtMost, None

\* The page and the job compute the same threads and niceness, although only one
\* of them clamps what the mode gives, for any machine the file is brought to
\* (_effective_limits, _resource_limits).
THEOREM PageShowsTheLimits == Spec => []LimitsAgree
<1>1. TypeOK => LimitsAgree
  <2> SUFFICES ASSUME TypeOK PROVE LimitsAgree
    OBVIOUS
  <2>1. cpu \in Nat \ {0}
    BY CpusAssumption DEF TypeOK
  <2>2. Read.limits \in [mode : Modes, threads : Overrides \cup {None}, nice : Overrides \cup {None}]
    BY Edits DEF Configs
  <2>3. Read.limits.threads \in Nat \cup {None} /\ Read.limits.nice \in Nat \cup {None}
    BY <2>2, CpusAssumption
  <2> QED
    BY <2>1, <2>3, LimitsAgreeFor DEF LimitsAgree
<1> QED
  BY <1>1, TypeCorrect, PTL

LEMMA WholeGigabytes ==
  ASSUME NEW memory \in Nat
  PROVE  /\ memory \div Unit \in Nat
         /\ Unit * (memory \div Unit) <= memory
         /\ memory < Unit * (memory \div Unit + 1)
         /\ memory \div Unit = 0 <=> memory < Unit
BY UnitAssumption

\* There is always a slot, there is a second one only where the processors and
\* the memory of two jobs are there, and never one less than fits
\* (_compute_max_parallel).
THEOREM SlotsAlwaysFit ==
  ASSUME NEW count \in Nat \ {0}, NEW memory \in Nat \cup {None}
  PROVE  SlotsFit(count, memory)
<1> DEFINE gigabytes == IF memory = None THEN 0 ELSE memory \div Unit
           byCpu == AtLeast(1, count \div 4)
           slots == MaxParallel(count, memory)
<1>1. byCpu \in Nat \ {0} /\ (byCpu > 1 => 4 * byCpu <= count) /\ count < 4 * (byCpu + 1)
  BY DEF AtLeast
<1>2. gigabytes \in Nat
  BY WholeGigabytes DEF None
<1>5. ASSUME NEW n \in Nat \ {0}, n = slots, memory \in Int,
             n > 1 => 4 * n <= count /\ (memory >= Unit => 8 * Unit * n <= memory),
             4 * (n + 1) > count \/ (memory >= Unit /\ 8 * Unit * (n + 1) > memory)
      PROVE  SlotsFit(count, memory)
  <2>1. 4 * (n + 1) \in Int /\ 8 * Unit * (n + 1) \in Int
    BY UnitAssumption
  <2>2. MaxParallel(count, memory) = n
    BY <1>5
  <2>3. n > 1 => Fits(n, count, memory)
    BY <1>5 DEF Fits
  <2>4. ~Fits(n + 1, count, memory)
    BY <1>5, <2>1 DEF Fits
  <2> QED
    BY <2>2, <2>3, <2>4 DEF SlotsFit
<1>3. CASE gigabytes = 0
  <2>1. slots = byCpu
    BY <1>1, <1>3 DEF MaxParallel, AtLeast
  <2>2. memory < Unit
    BY <1>3, WholeGigabytes, UnitAssumption DEF None
  <2> QED
    <3> HIDE DEF slots, byCpu
    <3>1. memory \in Int /\ ~(memory >= Unit)
      BY <2>2, UnitAssumption DEF None
    <3>2. slots \in Nat \ {0} /\ (slots > 1 => 4 * slots <= count) /\ 4 * (slots + 1) > count
      BY <1>1, <2>1
    <3> QED
      BY <1>5, <3>1, <3>2
<1>4. CASE gigabytes > 0
  <2>1. memory \in Nat /\ gigabytes = memory \div Unit /\ memory >= Unit
    BY <1>4, WholeGigabytes, UnitAssumption DEF None
  <2>2. slots = AtLeast(1, AtMost(byCpu, gigabytes \div 8))
    BY <1>4 DEF MaxParallel
  <2>3. slots \in Nat \ {0} /\ slots <= byCpu /\ (slots > 1 => 8 * slots <= gigabytes)
        /\ (slots < byCpu => gigabytes < 8 * (slots + 1))
    BY <1>1, <1>2, <2>2 DEF AtLeast, AtMost
  <2>4. \A x, y \in Nat : x <= y => Unit * x <= Unit * y
    BY UnitAssumption
  <2>5. Unit * (8 * slots) = 8 * Unit * slots /\ Unit * (8 * (slots + 1)) = 8 * Unit * (slots + 1)
    BY <2>3, UnitAssumption
  <2>6. slots > 1 => 8 * Unit * slots <= memory
    BY <1>2, <2>1, <2>3, <2>4, <2>5, WholeGigabytes, UnitAssumption
  <2>7. slots < byCpu => memory < 8 * Unit * (slots + 1)
    BY <1>2, <2>1, <2>3, <2>4, <2>5, WholeGigabytes, UnitAssumption
  <2>8. slots = byCpu => count < 4 * (slots + 1)
    BY <1>1
  <2>9. slots > 1 => 4 * slots <= count
    BY <1>1, <2>3
  <2> QED
    BY <1>1, <1>5, <2>1, <2>3, <2>6, <2>7, <2>8, <2>9
<1> QED
  BY <1>2, <1>3, <1>4

===============================================================================
