------------------------- MODULE QuarkDavSupervisor -------------------------
(***************************************************************************)
(* The QuarkDAV service (QuarkDavService.kt): one supervisor thread that   *)
(* keeps one kernel process per enabled remote, the metadata and runtime   *)
(* files it shares with the user interface in another process and with the *)
(* kernels (QuarkDavRepository.kt), and the status files                   *)
(* (QuarkDavStatusStore.kt).                                               *)
(*                                                                         *)
(* A repository call holds the file lock of that repository and is one     *)
(* step; between two calls of a task the other processes may move.  The    *)
(* main thread of the service runs onDestroy while the supervisor works.   *)
(* Time is left out: a timer (backoff, heartbeat) fires at any moment.     *)
(***************************************************************************)
EXTENDS Integers, Sequences, FiniteSets

CONSTANTS Remotes,    \* the ids of the remotes
          AtBoot,     \* those with startAtBoot
          MaxEdits,   \* bound: operations of the user and of the boot receiver
          MaxLogins,  \* bound: cookies the user enters for a remote
          MaxRefresh, \* bound: times the cloud refreshes one of them
          MaxCrashes, \* bound: deaths of the service process
          MaxEvents,  \* bound: operations, refreshes and deaths together
          MaxKernels, \* bound: kernels launched
          MaxQueue,   \* bound: tasks waiting for the supervisor
          None

ASSUME ConstantsAssumption ==
    /\ AtBoot \subseteq Remotes
    /\ {MaxEdits, MaxLogins, MaxRefresh, MaxCrashes, MaxEvents, MaxKernels,
        MaxQueue} \subseteq Nat
    /\ MaxLogins > 0 /\ MaxQueue > 0

VARIABLES meta,     \* the metadata files; None: deleted
          runtime,  \* the cookie in the kernel's own configuration file
          status,   \* the status files; no file reads as STOPPED
          kernels,  \* the kernel processes alive
          up,       \* the system considers the service started
          inbox,    \* messages for the main thread of the service process
          svc,      \* the service object: "none", "up" or "destroying"
          queue,    \* tasks of the supervisor
          news,     \* exits and timers not yet on that queue
          task,     \* the task under way
          start,    \* the startProcess call under way
          stop,     \* the stopProcess call under way, by thread
          running,  \* the map of supervised kernels
          doomed,   \* the keys onDestroy still has to stop
          ghosts,   \* what an interrupted supervisor thread still does
          ui,       \* the operation under way in the user's process
          unsent,   \* remotes saved without a request that reached the service (history)
          used      \* counters that bound the model

files == <<meta, runtime, status>>
system == <<up, inbox>>
calls == <<start, stop>>
service == <<svc, queue, news, task, calls, running, doomed, ghosts>>
user == <<ui, unsent>>
vars == <<files, kernels, system, service, user, used>>

----------------------------------------------------------------------------
(* Data *)

Cookies == [login : 1 .. MaxLogins, fresh : 0 .. MaxRefresh]

\* What a kernel is run with: the fields the fingerprint covers.
Configs == [cookie : Cookies, port : 0 .. 1]

Metadata == [cookie : Cookies, port : 0 .. 1, enabled : BOOLEAN]

Config(m) == [cookie |-> m.cookie, port |-> m.port]

Status(state, cookie) == [state |-> state, of |-> cookie]

Stopped == Status("STOPPED", None)

Failed == Status("ERROR", None)

\* One more of the events whose number is bounded.
Happens(event) == /\ used.edits + used.refreshes + used.crashes < MaxEvents
                  /\ used' = [used EXCEPT ![event] = @ + 1]

\* A RunningProcess; the arguments of startProcess and stopProcess; what the
\* user's process remembers between two repository calls.
Holders == [id : Nat, config : Configs, ready : BOOLEAN, adopted : BOOLEAN]

Starts == [at : {"stale", "config", "write", "launch"}, r : Remotes, m : Metadata]

Stops == [r : Remotes, sync : BOOLEAN]

Operations == [at : {"save", "form", "delete"}, r : Remotes,
               want : {"on", "off", "rename", "delete", "edit"}, snap : Metadata]

\* null is none of the program's objects.
ASSUME NoneAssumption ==
    /\ None \notin Metadata /\ None \notin Cookies
    /\ None \notin Holders /\ None \notin Starts
    /\ None \notin Stops /\ None \notin Operations

Enabled(r) == meta[r] # None /\ meta[r].enabled

Held == {r \in Remotes : running[r] # None}

Alive(r) == r \in Held /\ \E k \in kernels : k.id = running[r].id

\* The remotes a reconcile wants to run.
Wanted(op) == {r \in Remotes : Enabled(r) /\ (op = "boot" => r \in AtBoot)}

\* syncRuntimeCookie: the kernel's cookie replaces the one in the metadata.
SyncRuntimeCookie(r) ==
    IF meta[r] # None /\ runtime[r] # None
    THEN [meta EXCEPT ![r].cookie = runtime[r]]
    ELSE meta

Task(op, r, id) == [op |-> op, r |-> r, id |-> id]

Idle == [op |-> "none", r |-> None, id |-> 0, at |-> "idle", todo |-> {}, seen |-> None]

Intent(op, r) == [msg |-> "start", op |-> op, r |-> r]

Message(msg) == [msg |-> msg, op |-> "none", r |-> None]

\* supervisor.execute
Enqueue(t) == /\ Len(queue) < MaxQueue
              /\ queue' = Append(queue, t)

\* startForegroundService: a service that is not started is created first.
Send(intent) ==
    /\ up' = TRUE
    /\ inbox' = inbox \o (IF up THEN <<>> ELSE <<Message("create")>>) \o <<intent>>

\* stopSelf: the system destroys the service whatever was sent before.
StopSelf == IF up THEN /\ up' = FALSE
                       /\ inbox' = Append(inbox, Message("destroy"))
                  ELSE UNCHANGED system

----------------------------------------------------------------------------
\* After a boot of the device: the receiver has asked for the remotes that are
\* to be started then.
Init ==
    /\ meta \in [Remotes -> {[cookie |-> [login |-> 1, fresh |-> 0],
                              port |-> 0, enabled |-> e] : e \in BOOLEAN}]
    /\ runtime = [r \in Remotes |-> None]
    /\ status = [r \in Remotes |-> Stopped]
    /\ kernels = {}
    /\ up = (Wanted("boot") # {})
    /\ inbox = IF up THEN <<Message("create"), Intent("boot", None)>> ELSE <<>>
    /\ svc = "none" /\ queue = <<>> /\ news = {} /\ task = Idle
    /\ start = None /\ stop = [t \in {"supervisor", "main"} |-> None]
    /\ running = [r \in Remotes |-> None]
    /\ doomed = {} /\ ghosts = {}
    /\ ui = None /\ unsent = {}
    /\ used = [edits |-> 0, refreshes |-> 0, crashes |-> 0, kernels |-> 0]

----------------------------------------------------------------------------
(* The user's process: the remotes list, the form and the boot receiver *)

Begins == ui = None /\ used.edits < MaxEdits /\ Happens("edits")

Operation(at, r, want, snap) == [at |-> at, r |-> r, want |-> want, snap |-> snap]

\* A switch, a deletion or a new name: setEnabled and rename read the
\* metadata first and write the whole of it in a second repository call.
BeginUpdate(r, want) ==
    /\ Begins
    /\ meta[r] # None
    /\ want = "on" => ~meta[r].enabled
    /\ want = "off" => meta[r].enabled
    /\ ui' = Operation("save", r, want, meta[r])
    /\ UNCHANGED <<files, kernels, system, service, unsent>>

OpenForm(r) ==
    /\ Begins
    /\ meta[r] # None
    /\ ui' = Operation("form", r, "edit", meta[r])
    /\ UNCHANGED <<files, kernels, system, service, unsent>>

\* A request to the service, or the report that the system refused to start it.
Request(op, r) ==
    \/ /\ Send(Intent(op, r))
       /\ UNCHANGED <<status, unsent>>
    \/ /\ status' = [status EXCEPT ![r] = Failed]
       /\ unsent' = unsent \union {r}
       /\ UNCHANGED system

\* The form writes every field as it stands there, then switches the remote;
\* the switch reads back what the form has just saved.
SubmitForm(login, port, enabled) ==
    /\ ui # None /\ ui.at = "form"
    /\ login \in {ui.snap.cookie.login, ui.snap.cookie.login + 1} \cap 1 .. MaxLogins
    /\ LET typed == IF login = ui.snap.cookie.login THEN ui.snap.cookie
                                                    ELSE [login |-> login, fresh |-> 0]
       IN  meta' = [meta EXCEPT ![ui.r] =
                        [cookie |-> typed, port |-> port, enabled |-> enabled]]
    /\ IF enabled \/ ui.snap.enabled
       THEN Request(IF enabled THEN "reconcile" ELSE "stopRemote", ui.r)
       ELSE UNCHANGED <<status, unsent, system>>
    /\ ui' = None
    /\ UNCHANGED <<runtime, kernels, service, used>>

\* The switch saves the metadata as it was read, but for enabled, and sends.
Switch(enabled) ==
    /\ meta' = [meta EXCEPT ![ui.r] = [ui.snap EXCEPT !.enabled = enabled]]
    /\ Request(IF enabled THEN "reconcile" ELSE "stopRemote", ui.r)

SaveUpdate ==
    /\ ui # None /\ ui.at = "save"
    /\ \/ /\ ui.want \in {"on", "off"}
          /\ Switch(ui.want = "on")
          /\ ui' = None
       \/ /\ ui.want = "delete"
          /\ Switch(FALSE)
          /\ ui' = [ui EXCEPT !.at = "delete"]
       \/ /\ ui.want = "rename"
          /\ meta' = [meta EXCEPT ![ui.r] = ui.snap]
          /\ unsent' = IF ui.snap = meta[ui.r] THEN unsent ELSE unsent \union {ui.r}
          /\ ui' = None
          /\ UNCHANGED <<status, system>>
    /\ UNCHANGED <<runtime, kernels, service, used>>

Delete ==
    /\ ui # None /\ ui.at = "delete"
    /\ meta' = [meta EXCEPT ![ui.r] = None]
    /\ runtime' = [runtime EXCEPT ![ui.r] = None]
    /\ status' = [status EXCEPT ![ui.r] = Stopped]
    /\ ui' = None
    /\ UNCHANGED <<kernels, system, service, unsent, used>>

\* reconcileIfEnabled when the main activity opens, the boot receiver, and the
\* notification's stop button.
SendForAll(op) ==
    /\ Begins
    /\ op \in {"reconcile", "boot"} => Wanted(op) # {}
    /\ op = "stopAll" => svc = "up"
    /\ Send(Intent(op, None))
    /\ UNCHANGED <<files, kernels, service, user>>

UserNext ==
    \/ \E r \in Remotes : \/ \E want \in {"on", "off", "rename", "delete"} :
                                BeginUpdate(r, want)
                          \/ OpenForm(r)
    \/ \E login \in 1 .. MaxLogins, port \in 0 .. 1, enabled \in BOOLEAN :
           SubmitForm(login, port, enabled)
    \/ SaveUpdate \/ Delete
    \/ \E op \in {"reconcile", "boot", "stopAll"} : SendForAll(op)

----------------------------------------------------------------------------
(* The kernels (external): libquarkdav.so *)

\* Kernels dead, and the threads waiting for them about to say so.
Exits(dead) == {Task("exit", k.r, k.id) : k \in {k \in dead : k.launcher = "service"}}

\* Its process number first, QUARKDAV_READY once it listens (main.go).  A
\* thread of the service that launched it reads them and queues their tasks.
Lines == <<"pid", "ready">>

KernelPrints(k) ==
    /\ k.launcher = "service" /\ k.lines < Len(Lines)
    /\ Enqueue(Task(Lines[k.lines + 1], k.r, k.id))
    /\ kernels' = (kernels \ {k}) \union {[k EXCEPT !.lines = @ + 1]}
    /\ UNCHANGED <<files, system, svc, news, task, calls, running, doomed, ghosts, user, used>>

\* __puus is refreshed: the kernel saves its whole configuration.
KernelRefreshesCookie(k) ==
    /\ k.config.cookie.fresh < MaxRefresh /\ Happens("refreshes")
    /\ LET c == [k.config.cookie EXCEPT !.fresh = @ + 1]
       IN  /\ kernels' = (kernels \ {k}) \union {[k EXCEPT !.config.cookie = c]}
           /\ runtime' = [runtime EXCEPT ![k.r] = c]
    /\ UNCHANGED <<meta, status, system, service, user>>

KernelExits(k) ==
    /\ kernels' = kernels \ {k}
    /\ news' = news \union Exits({k})
    /\ UNCHANGED <<files, system, svc, queue, task, calls, running, doomed, ghosts, user, used>>

KernelNext == \E k \in kernels : \/ KernelPrints(k)
                                 \/ KernelRefreshesCookie(k)
                                 \/ KernelExits(k)

----------------------------------------------------------------------------
(* stopProcess, by the supervisor or by the main thread in onDestroy *)

\* The holder leaves the map before the kernel is killed.  A kernel may
\* outlive both waits (7 s).  Without a holder only the status is written.
CallStop(t, r, sync) ==
    IF running[r] = None
    THEN /\ status' = [status EXCEPT ![r] = Stopped]
         /\ UNCHANGED <<running, kernels, news, stop>>
    ELSE /\ running' = [running EXCEPT ![r] = None]
         /\ stop' = [stop EXCEPT ![t] = [r |-> r, sync |-> sync]]
         /\ \E dead \in SUBSET {k \in kernels : k.id = running[r].id} :
                /\ kernels' = kernels \ dead
                /\ news' = news \union Exits(dead)
         /\ status' = status

StopEnds(t) ==
    /\ stop[t] # None
    /\ meta' = IF stop[t].sync THEN SyncRuntimeCookie(stop[t].r) ELSE meta
    /\ status' = [status EXCEPT ![stop[t].r] = Stopped]
    /\ stop' = [stop EXCEPT ![t] = None]
    /\ UNCHANGED <<runtime, kernels, system, svc, queue, news, task, start, running,
                   doomed, ghosts, user, used>>

----------------------------------------------------------------------------
(* startProcess, by the supervisor *)

\* Mutant: only kernels of a service that has died are looked for.
StaleOfPast(r) == {k \in kernels : k.r = r /\ k.launcher = "past"}

\* terminateStaleKernel looks for every kernel run with this remote's file.
Stale(r) == {k \in kernels : k.r = r}

\* Each is killed and waited for, one second at most.  The launch goes on beside
\* one that is still there then, or whose command line could not be read.
TerminateStale ==
    /\ start # None /\ start.at = "stale"
    /\ \E dead \in SUBSET Stale(start.r) :
          /\ kernels' = (kernels \ Stale(start.r))
                        \union {[k EXCEPT !.stale = TRUE] : k \in Stale(start.r) \ dead}
          /\ news' = news \union Exits(dead)
    /\ meta' = IF status[start.r].of = start.m.cookie THEN SyncRuntimeCookie(start.r) ELSE meta
    /\ start' = [start EXCEPT !.at = "config"]
    /\ UNCHANGED <<runtime, status, system, svc, queue, task, stop, running, doomed,
                   ghosts, user, used>>

\* The frame of a step that only moves the call, and maybe the runtime file.
CallOnly == UNCHANGED <<meta, status, kernels, system, svc, queue, news, task, stop,
                        running, doomed, ghosts, user, used>>

\* get: what is read now is what the kernel will run with ...
ReadConfig ==
    /\ start # None /\ start.at = "config"
    /\ start' = [start EXCEPT !.at = "write",
                     !.m = IF meta[start.r] = None THEN @ ELSE meta[start.r]]
    /\ runtime' = runtime
    /\ CallOnly

\* ... writeRuntimeConfig, whatever was saved or deleted in between.
WriteConfig ==
    /\ start # None /\ start.at = "write"
    /\ start' = [start EXCEPT !.at = "launch"]
    /\ runtime' = [runtime EXCEPT ![start.r] = start.m.cookie]
    /\ CallOnly

NewKernel(r, m, launcher) ==
    [id |-> used.kernels + 1, r |-> r, config |-> Config(m), lines |-> 0,
     launcher |-> launcher, stale |-> FALSE]

CountKernel == /\ used.kernels < MaxKernels
               /\ used' = [used EXCEPT !.kernels = @ + 1]

Launch ==
    /\ start # None /\ start.at = "launch"
    /\ CountKernel
    /\ LET k == NewKernel(start.r, start.m, "service")
       IN  /\ kernels' = kernels \union {k}
           /\ running' = [running EXCEPT ![start.r] =
                              [id |-> k.id, config |-> k.config, ready |-> FALSE,
                               adopted |-> FALSE]]
    /\ status' = [status EXCEPT ![start.r] = Status("STARTING", start.m.cookie)]
    /\ start' = None
    /\ UNCHANGED <<meta, runtime, system, svc, queue, news, task, stop, doomed, ghosts, user>>

\* Mutant: a launch that fails says nothing.
StartFailsSilently ==
    /\ start # None
    /\ start' = None
    /\ UNCHANGED <<files, kernels, system, svc, queue, news, task, stop, running,
                   doomed, ghosts, user, used>>

\* No binary, an unwritable file, no process: reported, and not tried again.
StartFails ==
    /\ start # None
    /\ status' = [status EXCEPT ![start.r] = Failed]
    /\ start' = None
    /\ UNCHANGED <<meta, runtime, kernels, system, svc, queue, news, task, stop, running,
                   doomed, ghosts, user, used>>

----------------------------------------------------------------------------
(* The supervisor's tasks *)

\* The task may go on: the call it made has returned.
Returned == start = None /\ stop["supervisor"] = None

At(at) == task.at = at /\ Returned

Take ==
    /\ task = Idle /\ Returned /\ queue # <<>>
    /\ queue' = Tail(queue)
    /\ task' = [op |-> Head(queue).op, r |-> Head(queue).r, id |-> Head(queue).id,
                todo |-> IF Head(queue).op = "beat" THEN {r \in Held : running[r].ready} ELSE {},
                at |-> IF Head(queue).op = "boot" THEN "reconcile" ELSE Head(queue).op,
                seen |-> None]
    /\ UNCHANGED <<files, kernels, system, svc, news, calls, running, doomed, ghosts,
                   user, used>>

\* The frame of a step that only moves the task, and maybe the metadata.
TaskOnly == UNCHANGED <<runtime, status, kernels, system, svc, queue, news, calls,
                        running, doomed, ghosts, user, used>>

\* STOP_REMOTE reads the metadata of one remote, STOP_ALL of every enabled
\* one; what is saved later is what was read here.
ReadToDisable ==
    /\ At("stopRemote") \/ At("stopAll")
    /\ task' = [task EXCEPT !.at = "disable", !.seen = meta,
                   !.todo = IF task.op = "stopAll" THEN {r \in Remotes : Enabled(r)}
                            ELSE {task.r} \cap {r \in Remotes : meta[r] # None}]
    /\ meta' = meta
    /\ TaskOnly

SaveDisabled ==
    /\ At("disable")
    /\ \/ \E r \in task.todo :
             /\ meta' = [meta EXCEPT ![r] = [task.seen[r] EXCEPT !.enabled = FALSE]]
             /\ task' = [task EXCEPT !.todo = @ \ {r}]
       \/ /\ task.todo = {}
          /\ meta' = meta
          /\ task' = [task EXCEPT !.at = "reconcile"]
    /\ TaskOnly

\* Mutant: the fingerprint leaves the cookie out.
MismatchedPort(op) ==
    {r \in Held : r \notin Wanted(op) \/ running[r].config.port # meta[r].port}

\* The kernels to stop: no longer wanted, or run with another configuration.
Mismatched(op) ==
    {r \in Held : r \notin Wanted(op) \/ running[r].config # Config(meta[r])}

\* reconcileInternal, first half: what is stopped, and whether the kernel's
\* cookie is taken over.
Look ==
    /\ At("reconcile")
    /\ task' = [task EXCEPT !.at = "stop", !.todo = Mismatched(task.op),
                   !.seen = [r \in Mismatched(task.op) |->
                                 r \notin Wanted(task.op)
                                 \/ meta[r].cookie = running[r].config.cookie]]
    /\ meta' = meta
    /\ TaskOnly

StopNext ==
    /\ At("stop")
    /\ \E r \in task.todo : /\ CallStop("supervisor", r, task.seen[r])
                            /\ task' = [task EXCEPT !.todo = @ \ {r}]
    /\ UNCHANGED <<meta, runtime, system, svc, queue, start, doomed, ghosts, user, used>>

\* Second half: the metadata is read again, now with the refreshed cookies.
Reload ==
    /\ At("stop") /\ task.todo = {}
    /\ task' = [task EXCEPT !.at = "start", !.todo = Wanted(task.op),
                   !.seen = [r \in Wanted(task.op) |-> meta[r]]]
    /\ meta' = meta
    /\ TaskOnly

StartNext ==
    /\ At("start")
    /\ \E r \in task.todo :
          /\ task' = [task EXCEPT !.todo = @ \ {r}]
          /\ start' = IF running[r] = None
                      THEN [at |-> "stale", r |-> r, m |-> task.seen[r]] ELSE None
    /\ UNCHANGED <<files, kernels, system, svc, queue, news, stop, running, doomed,
                   ghosts, user, used>>

\* refreshRunningStatuses, the same for every kernel ready and alive.
ShownRunning(r) == Status("RUNNING", running[r].config.cookie)

EndReconcile ==
    /\ At("start") /\ task.todo = {}
    /\ status' = [r \in Remotes |-> IF Alive(r) /\ running[r].ready
                                     THEN ShownRunning(r) ELSE status[r]]
    /\ IF DOMAIN task.seen = {} /\ Held = {} THEN StopSelf ELSE UNCHANGED system
    /\ task' = Idle
    /\ UNCHANGED <<meta, runtime, kernels, svc, queue, news, calls, running, doomed,
                   ghosts, user, used>>

Supervised(t) == running[t.r] # None /\ running[t.r].id = t.id

\* A READY line of a kernel no longer supervised is dropped.
ReadySeen ==
    /\ At("ready")
    /\ \/ /\ ~Supervised(task)
          /\ task' = Idle /\ running' = running
       \/ /\ Supervised(task)
          /\ task' = [task EXCEPT !.at = "announce", !.seen = running[task.r].config.cookie]
          /\ running' = [running EXCEPT ![task.r].ready = TRUE]
    /\ UNCHANGED <<files, kernels, system, svc, queue, news, calls, doomed, ghosts,
                   user, used>>

ReadyAnnounced ==
    /\ At("announce")
    /\ status' = [status EXCEPT ![task.r] = Status("RUNNING", task.seen)]
    /\ task' = Idle
    /\ UNCHANGED <<meta, runtime, kernels, system, svc, queue, news, calls, running,
                   doomed, ghosts, user, used>>

\* Mutant: whose process number it is, is not asked.
PidSeenOfAnyone ==
    /\ At("pid")
    /\ task' = IF status[task.r].state \in {"STARTING", "RUNNING"}
               THEN [task EXCEPT !.at = "pidWrite", !.seen = status[task.r]] ELSE Idle
    /\ meta' = meta
    /\ TaskOnly

\* The line with the process number: the status is read ...
PidSeen ==
    /\ At("pid")
    /\ task' = IF Supervised(task) /\ status[task.r].state \in {"STARTING", "RUNNING"}
               THEN [task EXCEPT !.at = "pidWrite", !.seen = status[task.r]] ELSE Idle
    /\ meta' = meta
    /\ TaskOnly

\* ... and written back, over whatever the user's process or onDestroy wrote
\* in between.
PidWritten ==
    /\ At("pidWrite")
    /\ status' = [status EXCEPT ![task.r] = task.seen]
    /\ task' = Idle
    /\ UNCHANGED <<meta, runtime, kernels, system, svc, queue, news, calls, running,
                   doomed, ghosts, user, used>>

\* onProcessExit of a kernel no longer supervised does nothing.
ExitSeen ==
    /\ At("exit")
    /\ \/ /\ ~Supervised(task)
          /\ task' = Idle /\ running' = running
       \/ /\ Supervised(task)
          /\ running' = [running EXCEPT ![task.r] = None]
          /\ task' = [task EXCEPT !.at = IF meta[task.r] = None
                                        \/ meta[task.r].cookie = running[task.r].config.cookie
                                        THEN "exitSync" ELSE "exitReport"]
    /\ UNCHANGED <<files, kernels, system, svc, queue, news, calls, doomed, ghosts,
                   user, used>>

ExitSyncs ==
    /\ At("exitSync")
    /\ meta' = SyncRuntimeCookie(task.r)
    /\ task' = [task EXCEPT !.at = "exitReport"]
    /\ TaskOnly

\* An exit nobody asked for is an error, tried again after the backoff.
ExitReports ==
    /\ At("exitReport")
    /\ status' = [status EXCEPT ![task.r] = IF Enabled(task.r) THEN Failed ELSE Stopped]
    /\ news' = IF Enabled(task.r) THEN news \union {Task("retry", task.r, task.id)} ELSE news
    /\ task' = [task EXCEPT !.at = "exitEnd"]
    /\ UNCHANGED <<meta, runtime, kernels, system, svc, queue, calls, running, doomed,
                   ghosts, user, used>>

ExitEnds ==
    /\ At("exitEnd")
    /\ IF Wanted("any") = {} /\ Held = {} THEN StopSelf ELSE UNCHANGED system
    /\ task' = Idle
    /\ UNCHANGED <<files, kernels, svc, queue, news, calls, running, doomed, ghosts,
                   user, used>>

Retry ==
    /\ At("retry")
    /\ start' = IF Enabled(task.r) /\ running[task.r] = None
                THEN [at |-> "stale", r |-> task.r, m |-> meta[task.r]] ELSE None
    /\ task' = Idle
    /\ UNCHANGED <<files, kernels, system, svc, queue, news, stop, running, doomed,
                   ghosts, user, used>>

\* heartbeat: the cookie is taken over while the metadata still holds the
\* one this kernel was given; then the metadata is read again and becomes
\* the holder's configuration, and the status is written.
BeatNext ==
    /\ At("beat")
    /\ \/ /\ task.todo = {}
          /\ task' = Idle /\ status' = status
       \/ \E r \in task.todo :
             \/ /\ Alive(r) /\ meta[r] # None
                /\ meta[r].cookie = running[r].config.cookie
                /\ task' = [task EXCEPT !.r = r, !.at = "beatSync"]
                /\ status' = status
             \/ /\ Alive(r)
                /\ meta[r] # None => meta[r].cookie # running[r].config.cookie
                /\ task' = [task EXCEPT !.todo = @ \ {r}]
                /\ status' = [status EXCEPT ![r] = ShownRunning(r)]
             \/ /\ ~Alive(r)
                /\ task' = [task EXCEPT !.todo = @ \ {r}]
                /\ status' = status
    /\ UNCHANGED <<meta, runtime, kernels, system, svc, queue, news, calls, running,
                   doomed, ghosts, user, used>>

BeatSyncs ==
    /\ At("beatSync")
    /\ meta' = SyncRuntimeCookie(task.r)
    /\ task' = [task EXCEPT !.at = "beatRead"]
    /\ TaskOnly

BeatReads ==
    /\ At("beatRead")
    /\ LET r == task.r
           read == IF meta[r] = None \/ running[r] = None THEN running[r]
                   ELSE [running[r] EXCEPT !.config = Config(meta[r]),
                            !.adopted = @ \/ meta[r].port # running[r].config.port
                                          \/ meta[r].cookie.login # running[r].config.cookie.login]
       IN  /\ running' = [running EXCEPT ![r] = read]
           /\ status' = [status EXCEPT ![r] = IF read = None THEN Status("RUNNING", None)
                                              ELSE Status("RUNNING", read.config.cookie)]
           /\ task' = [task EXCEPT !.todo = @ \ {r}, !.at = "beat"]
    /\ UNCHANGED <<meta, runtime, kernels, system, svc, queue, news, calls, doomed,
                   ghosts, user, used>>

TaskNext ==
    \/ Take \/ ReadToDisable \/ SaveDisabled \/ Look \/ StopNext \/ Reload \/ StartNext
    \/ EndReconcile \/ PidSeen \/ PidWritten \/ ReadySeen \/ ReadyAnnounced
    \/ ExitSeen \/ ExitSyncs \/ ExitReports \/ ExitEnds
    \/ Retry \/ BeatNext \/ BeatSyncs \/ BeatReads

CallNext == StopEnds("supervisor") \/ TerminateStale \/ ReadConfig \/ WriteConfig \/ Launch
            \/ StartFails

SupervisorNext == TaskNext \/ CallNext

\* The waiter threads and the timers put tasks on the queue.
Post(n) ==
    /\ Enqueue(n)
    /\ news' = news \ {n}
    /\ UNCHANGED <<files, kernels, system, svc, task, calls, running, doomed, ghosts,
                   user, used>>

PostNext == \E n \in news : Post(n)

\* Every 45 s; of two that wait in the queue the second finds nothing new.
Beat ==
    /\ svc # "none"
    /\ \E r \in Held : running[r].ready
    /\ \A i \in DOMAIN queue : queue[i].op # "beat"
    /\ task.op # "beat"
    /\ Enqueue(Task("beat", None, 0))
    /\ UNCHANGED <<files, kernels, system, svc, news, task, calls, running, doomed,
                   ghosts, user, used>>

----------------------------------------------------------------------------
(* The main thread of the service process, and the death of that process *)

Receives(m) == inbox # <<>> /\ Head(inbox).msg = m /\ inbox' = Tail(inbox) /\ up' = up

Create ==
    /\ svc = "none" /\ Receives("create")
    /\ svc' = "up"
    /\ UNCHANGED <<files, kernels, queue, news, task, calls, running, doomed, ghosts,
                   user, used>>

OnStartCommand ==
    /\ svc = "up" /\ Receives("start")
    /\ Enqueue(Task(Head(inbox).op, Head(inbox).r, 0))
    /\ UNCHANGED <<files, kernels, svc, news, task, calls, running, doomed, ghosts,
                   user, used>>

OnDestroy ==
    /\ svc = "up" /\ Receives("destroy")
    /\ svc' = "destroying"
    /\ doomed' = Held
    /\ UNCHANGED <<files, kernels, queue, news, task, calls, running, ghosts, user, used>>

DestroyStops ==
    /\ stop["main"] = None
    /\ \E r \in doomed : /\ CallStop("main", r, TRUE)
                         /\ doomed' = doomed \ {r}
    /\ UNCHANGED <<meta, runtime, system, svc, queue, task, start, ghosts, user, used>>

\* What the interrupted thread still does: a repository call fails, since its
\* file lock does not survive the interrupt; starting a process and writing a
\* status need no lock.
Leftovers ==
    (IF start = None THEN {}
     ELSE {[op |-> IF start.at = "launch" THEN "launch" ELSE "fail", r |-> start.r, m |-> start.m]})
    \union (IF At("announce") \/ (At("ready") /\ Supervised(task))
            THEN {[op |-> "announce", r |-> task.r, m |-> None]} ELSE {})
    \union (IF (At("pid") /\ Supervised(task)) \/ At("pidWrite")
            THEN {[op |-> "pid", r |-> task.r, m |-> None]} ELSE {})
    \union (IF At("start")
            THEN {[op |-> "announce", r |-> r, m |-> None] : r \in {r \in Held : running[r].ready}}
                 \union {[op |-> "fail", r |-> r, m |-> None] : r \in task.todo \ Held}
            ELSE {})

\* Mutant: the map of kernels outlives the service object.
AbandonedButMap ==
    /\ svc' = "none" /\ queue' = <<>> /\ news' = {} /\ task' = Idle
    /\ start' = None /\ stop' = [t \in DOMAIN stop |-> None]
    /\ running' = running
    /\ doomed' = {}
    /\ kernels' = kernels

\* The supervisor and its threads are gone; the kernels they leave are nobody's.
Abandoned ==
    /\ svc' = "none" /\ queue' = <<>> /\ news' = {} /\ task' = Idle
    /\ start' = None /\ stop' = [t \in DOMAIN stop |-> None]
    /\ running' = [r \in Remotes |-> None]
    /\ doomed' = {}
    /\ kernels' = {[k EXCEPT !.launcher = IF @ = "service" THEN "past" ELSE @] : k \in kernels}

\* shutdownNow: the queue is dropped and the supervisor interrupted.
Shutdown ==
    /\ svc = "destroying" /\ doomed = {} /\ stop["main"] = None
    /\ Abandoned
    /\ \E left \in SUBSET Leftovers : ghosts' = ghosts \union left
    /\ UNCHANGED <<files, system, user, used>>

\* The interrupted launch: the process runs, the holder is in a map nobody
\* reads, and the rejected executor makes the status ERROR.
GhostLaunches(g) ==
    /\ g.op = "launch"
    /\ CountKernel
    /\ kernels' = kernels \union {NewKernel(g.r, g.m, "ghost")}
    /\ status' = [status EXCEPT ![g.r] = Status("STARTING", g.m.cookie)]
    /\ ghosts' = (ghosts \ {g}) \union {[g EXCEPT !.op = "fail"]}

GhostWrites(g) ==
    /\ \/ /\ g.op = "announce"
          /\ status' = [status EXCEPT ![g.r] = Status("RUNNING", None)]
       \/ /\ g.op = "pid"
          /\ \E state \in {"STARTING", "RUNNING"} :
                status' = [status EXCEPT ![g.r] = Status(state, None)]
       \/ /\ g.op \notin {"announce", "pid"}
          /\ status' = [status EXCEPT ![g.r] = Failed]
    /\ ghosts' = ghosts \ {g}
    /\ UNCHANGED <<kernels, used>>

GhostNext ==
    /\ \E g \in ghosts : GhostLaunches(g) \/ GhostWrites(g)
    /\ UNCHANGED <<meta, runtime, system, svc, queue, news, task, calls, running, doomed, user>>

\* What was sent to the service after it had been told to end.
LastDestroy(i) ==
    /\ i > 0 => inbox[i].msg = "destroy"
    /\ \A j \in i + 1 .. Len(inbox) : inbox[j].msg # "destroy"

\* Requests the system delivers again to the service it restarts: those the
\* dead one had not received, or a null intent (START_STICKY).
Redelivered(i) ==
    LET left == SubSeq(inbox, i + 1, Len(inbox))
        sent == IF left # <<>> /\ Head(left).msg = "create" THEN Tail(left) ELSE left
    IN  IF sent = <<>> THEN <<Intent("reconcile", None)>> ELSE sent

\* The system kills the service process; the kernels survive it.
Crash ==
    /\ svc # "none" /\ used.crashes < MaxCrashes /\ Happens("crashes")
    /\ Abandoned
    /\ ghosts' = {}
    /\ \E i \in 0 .. Len(inbox) :
          /\ LastDestroy(i)
          /\ inbox' = IF up THEN <<Message("create")>> \o Redelivered(i) ELSE <<>>
    /\ UNCHANGED <<files, up, user>>

MainNext == Create \/ OnStartCommand \/ OnDestroy \/ DestroyStops \/ StopEnds("main")
            \/ Shutdown

Next == \/ UserNext \/ KernelNext \/ SupervisorNext \/ PostNext \/ Beat
        \/ MainNext \/ GhostNext \/ Crash

Spec == Init /\ [][Next]_vars

\* The threads of the service run; the user, the cloud and the system's
\* killer need not do anything.
Fairness == WF_vars(SupervisorNext) /\ WF_vars(MainNext) /\ WF_vars(PostNext)

FairSpec == Spec /\ Fairness

----------------------------------------------------------------------------
(* Properties *)

Requests == {"reconcile", "boot", "stopRemote", "stopAll"}

Messages == [msg : {"create", "destroy"}, op : {"none"}, r : {None}]
            \union [msg : {"start"}, op : Requests, r : Remotes \union {None}]

Tasks == [op : {"pid", "ready", "exit", "retry"}, r : Remotes, id : Nat]
         \union [op : Requests \union {"beat"}, r : Remotes \union {None}, id : Nat]

Kernels == [id : Nat, r : Remotes, config : Configs, lines : 0 .. 2,
            launcher : {"service", "past", "ghost"}, stale : BOOLEAN]

Statuses == [state : {"STOPPED", "STARTING", "RUNNING", "ERROR"}, of : Cookies \union {None}]

Ghosts == [op : {"launch"}, r : Remotes, m : Metadata]
          \union [op : {"fail", "announce", "pid"}, r : Remotes, m : Metadata \union {None}]

\* What a task keeps from one repository call for the next is what it read.
TaskOK ==
    /\ task = [op |-> task.op, r |-> task.r, id |-> task.id, at |-> task.at,
               todo |-> task.todo, seen |-> task.seen]
    /\ task.op \in Requests \union {"none", "pid", "ready", "exit", "retry", "beat"}
    /\ task.at \in Requests \union
           {"idle", "disable", "stop", "start", "pid", "pidWrite", "ready", "announce", "exit",
            "exitSync", "exitReport", "exitEnd", "retry", "beat", "beatSync", "beatRead"}
    /\ task.at = "idle" => task = Idle
    /\ task.at \in {"pid", "pidWrite", "ready", "announce", "exit", "exitSync", "exitReport",
                    "retry", "beatSync", "beatRead"} => task.r \in Remotes
    /\ task.id \in Nat
    /\ task.todo \subseteq Remotes
    /\ task.at \in {"disable", "start"} => \A r \in task.todo : task.seen[r] \in Metadata
    /\ task.at = "stop" => \A r \in task.todo : task.seen[r] \in BOOLEAN
    /\ task.at = "announce" => task.seen \in Cookies
    /\ task.at = "pidWrite" => task.seen \in Statuses

\* With the service object go its threads, their work and the map of kernels.
NothingLeft ==
    /\ Held = {} /\ queue = <<>> /\ news = {} /\ task = Idle
    /\ start = None /\ stop = [t \in {"supervisor", "main"} |-> None] /\ doomed = {}
    /\ \A k \in kernels : k.launcher # "service"

FilesOK ==
    /\ meta \in [Remotes -> Metadata \union {None}]
    /\ runtime \in [Remotes -> Cookies \union {None}]
    /\ status \in [Remotes -> Statuses]

KernelsOK == kernels \subseteq Kernels /\ \A k \in kernels : k.id <= used.kernels

SystemOK == up \in BOOLEAN /\ inbox \in Seq(Messages) /\ ghosts \subseteq Ghosts

QueueOK == queue \in Seq(Tasks) /\ news \subseteq Tasks

CallsOK == /\ start \in Starts \union {None}
           /\ stop \in [{"supervisor", "main"} -> Stops \union {None}]

HoldersOK == /\ running \in [Remotes -> Holders \union {None}]
             /\ \A r \in Held : running[r].id <= used.kernels

UserOK == /\ ui \in Operations \union {None} /\ unsent \subseteq Remotes
          /\ used \in [edits : Nat, refreshes : Nat, crashes : Nat, kernels : Nat]

\* Every part of the state is in its domain: the files hold what was saved in
\* them, a call under way names a remote, a holder names a kernel launched, and
\* nothing of a service outlives it.
TypeOK ==
    /\ FilesOK /\ KernelsOK /\ SystemOK /\ QueueOK /\ TaskOK /\ CallsOK /\ HoldersOK /\ UserOK
    /\ svc \in {"none", "up", "destroying"} /\ (svc = "none" => NothingLeft)
    /\ doomed \subseteq Remotes

\* A kernel that survived a stop that timed out, or the death of the service, is
\* dealt with before the next launch for its remote: beside a kernel that
\* terminateStaleKernel has not come across there are only those it has - killed,
\* and slow to go, or not recognised - and those that the interrupted thread of a
\* closed service was just launching.  And it never comes across the kernel that
\* the service supervises.
OneKernel ==
    /\ \A r \in Remotes :
          \A j, k \in {k \in kernels : k.r = r /\ k.launcher # "ghost" /\ ~k.stale} : j = k
    /\ \A r \in Held : \A k \in kernels : k.id = running[r].id => k.r = r /\ ~k.stale

\* Nothing is on its way to the supervisor or under way in it.
AtRest == /\ svc = "up" /\ task = Idle /\ Returned /\ queue = <<>> /\ inbox = <<>>
          /\ news = {} /\ ui = None

\* At rest, every supervised kernel is one of an enabled remote and runs with
\* the cookie and the port of its metadata (docs/QUARKDAV_COOKIE_KERNEL_PORT.md,
\* section 5).  Not so if the system refused the request, if a renaming wrote
\* back metadata it had read before another change, or if a heartbeat read the
\* metadata between the user's save and the reconcile and took its fingerprint
\* for the running kernel's.
Converged ==
    AtRest =>
        \A r \in Held \ unsent :
            /\ Enabled(r)
            /\ \A k \in kernels :
                   k.id = running[r].id /\ ~running[r].adopted =>
                       /\ k.config.port = meta[r].port
                       /\ k.config.cookie.login = meta[r].cookie.login

\* The status files obey the state machine of the document.
Shown ==
    INSTANCE RemoteStatus
    WITH shown <- [r \in Remotes |-> status[r].state],
         kernel <- [r \in Remotes |-> IF running[r] = None THEN "none"
                                      ELSE IF running[r].ready THEN "ready" ELSE "starting"],
         known <- [r \in Remotes |-> meta[r] # None],
         noted <- [r \in Remotes |-> IF task.at = "pidWrite" /\ task.r = r
                                     THEN task.seen.state ELSE "none"],
         late <- [r \in Remotes |-> svc = "destroying" \/ \E g \in ghosts : g.r = r]

StatusMachine == Shown!Spec

\* A start or a retry is waiting for the supervisor.
Due(r) == \/ \E i \in DOMAIN queue : \/ queue[i].op = "reconcile"
                                     \/ queue[i].op = "retry" /\ queue[i].r = r
          \/ \E n \in news : n.op = "retry" /\ n.r = r

\* An enabled remote for which a start or a retry waits gets a kernel, or its
\* status says why not - unless the user turns it off or the service ends.
StartsAreAnswered ==
    \A r \in Remotes :
        (Enabled(r) /\ Due(r)) ~> (r \in Held \/ status[r].state = "ERROR"
                                   \/ ~Enabled(r) \/ svc # "up")

\* "A user-entered replacement always wins" (QuarkDavService.kt:348-349): the
\* cookie the user entered last is never replaced by an earlier one.
EnteredCookieWins ==
    [][\A r \in Remotes : meta[r] # None /\ meta'[r] # None =>
           meta'[r].cookie.login >= meta[r].cookie.login]_vars
=============================================================================
