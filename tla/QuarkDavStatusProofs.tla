------------------------ MODULE QuarkDavStatusProofs ------------------------
(***************************************************************************)
(* Proofs about QuarkDavSupervisor, for every number of remotes, edits,    *)
(* crashes and kernels: the status files obey the state machine of         *)
(* RemoteStatus.                                                           *)
(***************************************************************************)
EXTENDS QuarkDavTypeProofs

----------------------------------------------------------------------------
(* The status files as their readers see them *)

Kernel(h) == IF h = None THEN "none" ELSE IF h.ready THEN "ready" ELSE "starting"

IsReady(r) == running[r] # None /\ running[r].ready

\* The writer of the process number has read the status of this remote.
HasRead(r) == task.at = "pidWrite" /\ task.r = r

\* What a reader sees of a remote does not change, or changes in one step of
\* RemoteStatus: one fact for each step that the files take.
LEMMA Seen ==
  ASSUME NEW r \in Remotes
  PROVE  LET same == Kernel(running[r])' = Kernel(running[r])
             kept == meta'[r] = None <=> meta[r] = None
             still == status'[r].state = status[r].state
         IN  /\ same /\ kept /\ still => Shown!Step(r)
             /\ same /\ kept /\ running[r] = None /\ status'[r].state \in {"STOPPED", "ERROR"}
                => Shown!Step(r)
             /\ same /\ kept /\ status'[r].state = "ERROR" => Shown!Step(r)
             /\ same /\ kept /\ IsReady(r) /\ status'[r].state = "RUNNING" => Shown!Step(r)
             /\ kept /\ still /\ running'[r] = None => Shown!Step(r)
             /\ same /\ kept /\ status'[r].state \in States
                /\ (svc = "destroying" \/ \E g \in ghosts : g.r = r) => Shown!Step(r)
             /\ kept /\ still /\ running[r] # None /\ ~running[r].ready /\ IsReady(r)'
                => Shown!Step(r)
             /\ kept /\ running[r] = None /\ Kernel(running[r])' = "starting"
                /\ status'[r].state = "STARTING" => Shown!Step(r)
             /\ same /\ kept /\ running[r] # None /\ HasRead(r) /\ task.seen.state # "none"
                /\ status'[r].state = task.seen.state => Shown!Step(r)
             /\ same /\ meta'[r] = None /\ status'[r].state = "STOPPED" => Shown!Step(r)
             /\ same /\ still /\ meta'[r] # None => Shown!Step(r)
  <1> DEFINE k == Kernel(running[r])
             same == k' = k
             kept == meta'[r] = None <=> meta[r] = None
             still == status'[r].state = status[r].state
  <1> USE DEF Kernel
  <1>1. same /\ kept /\ still => Shown!Rest(r)
    BY DEF Shown!Rest
  <1>2. same /\ kept /\ running[r] = None /\ status'[r].state \in {"STOPPED", "ERROR"}
        => Shown!Report(r)
    BY DEF Shown!Report
  <1>3. same /\ kept /\ status'[r].state = "ERROR" => Shown!Unreachable(r)
    BY DEF Shown!Unreachable
  <1>4. same /\ kept /\ IsReady(r) /\ status'[r].state = "RUNNING" => Shown!Announce(r)
    BY DEF Shown!Announce, IsReady
  <1>5. kept /\ still /\ running[r] # None /\ running'[r] = None => Shown!Leave(r)
    BY DEF Shown!Leave
  <1>6. same /\ kept /\ status'[r].state \in States
        /\ (svc = "destroying" \/ \E g \in ghosts : g.r = r) => Shown!Overtake(r)
    BY DEF Shown!Overtake, Shown!States, States
  <1>7. kept /\ still /\ running[r] # None /\ ~running[r].ready /\ IsReady(r)' => Shown!Ready(r)
    BY DEF Shown!Ready, IsReady
  <1>8. kept /\ running[r] = None /\ Kernel(running[r])' = "starting"
        /\ status'[r].state = "STARTING" => Shown!Launch(r)
    BY DEF Shown!Launch
  <1>9. same /\ meta'[r] = None /\ status'[r].state = "STOPPED" => Shown!Delete(r)
    BY DEF Shown!Delete
  <1>10. same /\ still /\ meta'[r] # None /\ meta[r] = None => Shown!Resurrect(r)
    BY DEF Shown!Resurrect
  <1>11. same /\ kept /\ running[r] # None /\ HasRead(r) /\ task.seen.state # "none"
         /\ status'[r].state = task.seen.state => Shown!WriteBack(r)
    BY DEF Shown!WriteBack, HasRead
  <1> QED
    BY <1>1, <1>2, <1>3, <1>4, <1>5, <1>6, <1>7, <1>8, <1>9, <1>10, <1>11 DEF Shown!Step

----------------------------------------------------------------------------
(* What the supervisor may count on between two steps of a task *)

Sup == stop["supervisor"]

\* A call starts a remote that has no kernel, or stops one that has just lost
\* its holder, and its task waits for it; the main thread stops kernels only
\* while the service is being closed.
CallsWait ==
  /\ start # None => /\ running[start.r] = None /\ Sup = None
                     /\ task.at \in {"idle", "start"}
  /\ Sup # None => task.at = "stop" /\ running[Sup.r] = None
  /\ stop["main"] # None \/ doomed # {} => svc = "destroying"

\* What a task has read of a holder is still so when it uses it, unless the main
\* thread takes kernels away under it.
TaskSeesHolders ==
  /\ task.at \in {"exitSync", "exitReport"} => running[task.r] = None
  /\ task.at = "pidWrite" => task.seen.state \in {"STARTING", "RUNNING"}
  /\ svc # "destroying" =>
       /\ task.at = "pidWrite" => running[task.r] # None
       /\ task.at \in {"announce", "beatSync", "beatRead"} => IsReady(task.r)
       /\ task.at \in {"beat", "beatSync", "beatRead"} => \A r \in task.todo : IsReady(r)

\* Only the user's process deletes a remote, and one operation at a time.
FormHasFile == ui # None => meta[ui.r] # None

Control == CallsWait /\ TaskSeesHolders /\ FormHasFile

\* Steps that move neither a call nor a task nor a holder.
LEMMA ControlFrame ==
  ASSUME Control, UNCHANGED <<start, stop, running, task, svc, doomed>>,
         ui' # None => meta'[ui'.r] # None
  PROVE  Control'
  BY DEF Control, CallsWait, TaskSeesHolders, FormHasFile, Sup, IsReady

\* The metadata the service writes does not take a file away.
LEMMA FormFrame ==
  ASSUME TypeOK, Control, ui' = ui, \A r \in Remotes : meta[r] # None => meta'[r] # None
  PROVE  FormHasFile'
  <1>1. ui # None => ui.r \in Remotes
    BY DEF TypeOK, UserOK, Operations
  <1> QED
    BY <1>1 DEF Control, FormHasFile

\* No call and no task at first (Init).
LEMMA ControlInit == Init => Control
  BY DEF Init, Control, CallsWait, TaskSeesHolders, FormHasFile, Sup, Idle

\* The user's process writes the metadata of one remote.
LEMMA ControlUser ==
  ASSUME TypeOK, Control, UserNext
  PROVE  Control'
  <1> USE DEF service, user, calls, system
  <1>1. UNCHANGED <<start, stop, running, task, svc, doomed>>
    BY DEF UserNext, BeginUpdate, OpenForm, SubmitForm, SaveUpdate, Delete, SendForAll
  <1>2. ui' # None => meta'[ui'.r] # None
    <2>0. meta \in [Remotes -> Metadata \union {None}]
          /\ (ui # None => ui.r \in Remotes /\ ui.snap \in Metadata
                           /\ [ui EXCEPT !.at = "delete"].r = ui.r)
      BY DEF TypeOK, FilesOK, UserOK, Operations
    <2>1. ASSUME NEW r \in Remotes, NEW want, BeginUpdate(r, want) \/ OpenForm(r)
          PROVE  ui' # None => meta'[ui'.r] # None
      BY <2>1 DEF BeginUpdate, OpenForm, Operation, files
    <2>2. CASE SaveUpdate
      <3>1. CASE ui' = None
        BY <3>1
      <3>2. CASE ui' # None
        <4>1. Switch(FALSE) /\ ui' = [ui EXCEPT !.at = "delete"] /\ ui # None
          BY <2>2, <3>2 DEF SaveUpdate
        <4>2. [ui.snap EXCEPT !.enabled = FALSE] # None
          BY <2>0, <4>1, NoneAssumption DEF Metadata
        <4> QED
          BY <2>0, <4>1, <4>2 DEF Switch
      <3> QED
        BY <3>1, <3>2
    <2>3. ASSUME NEW login, NEW port, NEW e, SubmitForm(login, port, e)
          PROVE  ui' = None
      BY <2>3 DEF SubmitForm
    <2>4. CASE Delete
      BY <2>4 DEF Delete
    <2>5. ASSUME NEW op, SendForAll(op)
          PROVE  UNCHANGED <<ui, meta>>
      BY <2>5 DEF SendForAll, files
    <2> QED
      BY <2>1, <2>2, <2>3, <2>4, <2>5 DEF UserNext, Control, FormHasFile
  <1> QED
    BY <1>1, <1>2, ControlFrame

\* A call of stopProcess takes a holder away, or none is there.
LEMMA HolderLeaves ==
  ASSUME TypeOK, NEW t, NEW r \in Remotes, NEW sync, CallStop(t, r, sync)
  PROVE  /\ \A q \in Remotes : running'[q] = IF q = r THEN None ELSE running[q]
         /\ \A u \in {"supervisor", "main"} \ {t} : stop'[u] = stop[u]
         /\ t \in {"supervisor", "main"} /\ stop'[t] # stop[t] => stop'[t].r = r
         /\ running[r] = None => status' = [status EXCEPT ![r] = Stopped] /\ stop' = stop
         /\ running[r] # None => status' = status
  BY DEF CallStop, TypeOK, HoldersOK, CallsOK

\* The supervisor's tasks and calls.
LEMMA ControlTasks ==
  ASSUME TypeOK, Control, TaskNext
  PROVE  Control'
  <1> USE DEF calls, user
  <1>0. TaskOK /\ HoldersOK /\ FilesOK
    BY DEF TypeOK
  <1>1. ui' = ui /\ (~SaveDisabled /\ ~ExitSyncs /\ ~BeatSyncs => meta' = meta)
    BY DEF TaskNext, Take, ReadToDisable, SaveDisabled, Look, StopNext, Reload, StartNext,
           EndReconcile, PidSeen, PidWritten, ReadySeen, ReadyAnnounced, ExitSeen, ExitSyncs, ExitReports,
           ExitEnds, Retry, BeatNext, BeatSyncs, BeatReads, TaskOnly, files
  <1>2. FormHasFile'
    <2>1. \A r \in Remotes : meta[r] # None => meta'[r] # None
      <3>1. CASE SaveDisabled
        <4>1. CASE meta' = meta
          BY <4>1
        <4>2. CASE meta' # meta
          <5>1. PICK r \in task.todo :
                    meta' = [meta EXCEPT ![r] = [task.seen[r] EXCEPT !.enabled = FALSE]]
            BY <3>1, <4>2 DEF SaveDisabled
          <5>2. task.seen[r] \in Metadata /\ r \in Remotes
            BY <1>0, <3>1 DEF TaskOK, SaveDisabled, At
          <5>3. [task.seen[r] EXCEPT !.enabled = FALSE] # None
            BY <5>2, NoneAssumption DEF Metadata
          <5> QED
            BY <1>0, <5>1, <5>2, <5>3 DEF FilesOK
        <4> QED
          BY <4>1, <4>2
      <3>2. CASE ExitSyncs \/ BeatSyncs
        <4>1. task.r \in Remotes /\ meta' = SyncRuntimeCookie(task.r)
          BY <1>0, <3>2 DEF TaskOK, ExitSyncs, BeatSyncs, At
        <4> QED
          BY <1>0, <4>1, SyncTyped
      <3> QED
        BY <1>1, <3>1, <3>2
    <2> QED
      BY <1>1, <2>1, FormFrame
  <1>3. UNCHANGED <<svc, doomed>> /\ stop'["main"] = stop["main"]
    <2>1. CASE StopNext
      <3>1. PICK r \in task.todo : CallStop("supervisor", r, task.seen[r])
        BY <2>1 DEF StopNext
      <3>2. r \in Remotes
        BY <1>0 DEF TaskOK
      <3> QED
        BY <2>1, <3>1, <3>2, HolderLeaves DEF StopNext
    <2>2. CASE ~StopNext
      BY <2>2
      DEF TaskNext, Take, ReadToDisable, SaveDisabled, Look, Reload, StartNext,
          EndReconcile, PidSeen, PidWritten, ReadySeen, ReadyAnnounced, ExitSeen, ExitSyncs, ExitReports,
          ExitEnds, Retry, BeatNext, BeatSyncs, BeatReads, TaskOnly
    <2> QED
      BY <2>1, <2>2
  <1>4. CallsWait' /\ TaskSeesHolders'
    <2> USE <1>0, <1>3 DEF Control, CallsWait, TaskSeesHolders, Sup, IsReady, At, Returned, TaskOnly
    <2>1. CASE Take
      <3>1. queue \in Seq(Tasks) /\ queue # <<>>
        BY <2>1 DEF Take, TypeOK, QueueOK
      <3>2. Head(queue) \in Tasks
        BY <3>1
      <3>3. task'.at \in Requests \union {"pid", "ready", "exit", "retry", "beat"}
        BY <2>1, <3>2 DEF Take, Tasks, Requests
      <3>4. task'.at = "beat" => task'.todo = {r \in Held : running[r].ready}
        BY <2>1, <3>2 DEF Take
      <3> QED
        BY <2>1, <3>3, <3>4 DEF Take, Held, Requests
    <2>2. CASE ReadToDisable \/ SaveDisabled \/ Look \/ Reload
      BY <2>2 DEF ReadToDisable, SaveDisabled, Look, Reload, TaskOK
    <2>3. CASE StopNext
      <3>1. PICK r \in task.todo : /\ CallStop("supervisor", r, task.seen[r])
                                   /\ task' = [task EXCEPT !.todo = @ \ {r}]
        BY <2>3 DEF StopNext
      <3>2. r \in Remotes /\ task.at = "stop" /\ task'.at = "stop" /\ start' = None /\ Sup = None
        BY <2>3, <3>1 DEF TaskOK, StopNext
      <3>3. running'[r] = None /\ (stop'["supervisor"] = None \/ stop'["supervisor"].r = r)
        BY <3>1, <3>2, HolderLeaves
      <3> QED
        BY <3>2, <3>3
    <2>4. CASE StartNext
      BY <2>4 DEF StartNext, TaskOK
    <2>5. CASE EndReconcile \/ PidWritten \/ ReadyAnnounced \/ ExitEnds
      BY <2>5 DEF EndReconcile, PidWritten, ReadyAnnounced, ExitEnds, Idle
    <2>6. CASE ReadySeen
      <3>1. CASE task' = Idle /\ running' = running
        BY <2>6, <3>1 DEF ReadySeen, Idle
      <3>2. CASE task' # Idle \/ running' # running
        <4>1. /\ task.r \in Remotes /\ running[task.r] # None /\ running[task.r] \in Holders
              /\ running' = [running EXCEPT ![task.r].ready = TRUE]
              /\ task' = [task EXCEPT !.at = "announce", !.seen = running[task.r].config.cookie]
          BY <2>6, <3>2 DEF ReadySeen, Supervised, TaskOK, HoldersOK
        <4>2. [running[task.r] EXCEPT !.ready = TRUE] # None
          BY <4>1, NoneAssumption DEF Holders
        <4>3. task'.at = "announce" /\ task'.r = task.r
          BY <4>1 DEF TaskOK
        <4>4. running'[task.r] # None /\ running'[task.r].ready
          BY <4>1, <4>2 DEF HoldersOK, Holders
        <4> QED
          BY <2>6, <4>3, <4>4 DEF ReadySeen
      <3> QED
        BY <3>1, <3>2
    <2>7. CASE ExitSeen
      <3>1. CASE task' = Idle /\ running' = running
        BY <2>7, <3>1 DEF ExitSeen, Idle
      <3>2. CASE task' # Idle \/ running' # running
        <4>1. /\ task.r \in Remotes /\ running' = [running EXCEPT ![task.r] = None]
              /\ task'.at \in {"exitSync", "exitReport"} /\ task'.r = task.r
          BY <2>7, <3>2 DEF ExitSeen, TaskOK
        <4> QED
          BY <2>7, <4>1 DEF ExitSeen, HoldersOK
      <3> QED
        BY <3>1, <3>2
    <2>8. CASE ExitSyncs \/ ExitReports
      BY <2>8 DEF ExitSyncs, ExitReports, TaskOK
    <2>9. CASE Retry
      BY <2>9 DEF Retry, Idle
    <2>10. CASE BeatNext
      <3>1. task' = Idle \/ \E r \in task.todo : \/ task' = [task EXCEPT !.r = r, !.at = "beatSync"]
                                                \/ task' = [task EXCEPT !.todo = @ \ {r}]
        BY <2>10 DEF BeatNext
      <3>2. CASE task' = Idle
        BY <2>10, <3>2 DEF BeatNext, Idle
      <3>3. ASSUME NEW r \in task.todo, task' = [task EXCEPT !.r = r, !.at = "beatSync"]
            PROVE  CallsWait' /\ TaskSeesHolders'
        <4>1. task'.r = r /\ task'.at = "beatSync" /\ task'.todo = task.todo
          BY <3>3 DEF TaskOK
        <4> QED
          BY <2>10, <4>1 DEF BeatNext
      <3>4. ASSUME NEW r \in task.todo, task' = [task EXCEPT !.todo = @ \ {r}]
            PROVE  CallsWait' /\ TaskSeesHolders'
        <4>1. task'.r = task.r /\ task'.at = task.at /\ task'.todo \subseteq task.todo
          BY <3>4 DEF TaskOK
        <4> QED
          BY <2>10, <4>1 DEF BeatNext
      <3> QED
        BY <3>1, <3>2, <3>3, <3>4
    <2>11. CASE BeatSyncs
      BY <2>11 DEF BeatSyncs, TaskOK
    <2>12. CASE BeatReads
      <3>1. task.r \in Remotes /\ task.at = "beatRead"
            /\ task' = [task EXCEPT !.todo = @ \ {task.r}, !.at = "beat"]
        BY <2>12 DEF TaskOK, BeatReads
      <3>2. \A q \in Remotes : q # task.r => running'[q] = running[q]
        BY <2>12, <3>1 DEF BeatReads, HoldersOK
      <3> QED
        BY <2>12, <3>1, <3>2 DEF BeatReads, TaskOK
    <2>13. CASE PidSeen
      <3>0. UNCHANGED <<start, stop, running>>
        BY <2>13 DEF PidSeen
      <3>1. CASE task' = Idle
        <4>1. task'.at = "idle"
          BY <3>1 DEF Idle
        <4>2. CallsWait'
          BY <2>13, <3>0, <4>1 DEF PidSeen
        <4>3. TaskSeesHolders'
          BY <4>1
        <4> QED
          BY <4>2, <4>3
      <3>2. CASE task' # Idle
        <4>1. /\ task' = [task EXCEPT !.at = "pidWrite", !.seen = status[task.r]]
              /\ Supervised(task) /\ status[task.r].state \in {"STARTING", "RUNNING"}
          BY <2>13, <3>2 DEF PidSeen
        <4>2. task'.at = "pidWrite" /\ task'.r = task.r /\ task'.seen = status[task.r]
          BY <4>1 DEF TaskOK
        <4> QED
          BY <2>13, <4>1, <4>2 DEF PidSeen, Supervised
      <3> QED
        BY <3>1, <3>2
    <2> QED
      BY <2>1, <2>2, <2>3, <2>4, <2>5, <2>6, <2>7, <2>8, <2>9, <2>10, <2>11, <2>12, <2>13
      DEF TaskNext
  <1> QED
    BY <1>2, <1>4 DEF Control

\* startProcess and the end of stopProcess.
LEMMA ControlCalls ==
  ASSUME TypeOK, Control, CallNext \/ StopEnds("main")
  PROVE  Control'
  <1> USE DEF user
  <1>0. CallsOK /\ FilesOK /\ HoldersOK
    BY DEF TypeOK
  <1>1. ui' = ui /\ UNCHANGED <<svc, doomed, task>>
    BY DEF CallNext, CallOnly, StopEnds, TerminateStale, ReadConfig, WriteConfig, Launch,
           StartFails
  <1>2. FormHasFile'
    <2>1. ASSUME NEW t \in {"supervisor", "main"}, StopEnds(t)
          PROVE  \A r \in Remotes : meta[r] # None => meta'[r] # None
      <3>1. stop[t].r \in Remotes
        BY <1>0, <2>1 DEF CallsOK, Stops, StopEnds
      <3> QED
        BY <1>0, <2>1, <3>1, SyncTyped DEF StopEnds
    <2>2. CASE TerminateStale
      <3>1. start.r \in Remotes
        BY <1>0, <2>2 DEF CallsOK, Starts, TerminateStale
      <3> QED
        BY <1>0, <1>1, <2>2, <3>1, SyncTyped, FormFrame DEF TerminateStale
    <2>3. CASE ReadConfig \/ WriteConfig \/ Launch \/ StartFails
      BY <1>1, <2>3, FormFrame DEF CallOnly, ReadConfig, WriteConfig, Launch, StartFails
    <2> QED
      BY <1>1, <2>1, <2>2, <2>3, FormFrame DEF CallNext
  <1>3. CallsWait' /\ TaskSeesHolders'
    <2> USE <1>0, <1>1 DEF Control, CallsWait, TaskSeesHolders, Sup, IsReady
    <2>1. ASSUME NEW t \in {"supervisor", "main"}, StopEnds(t)
          PROVE  CallsWait' /\ TaskSeesHolders'
      BY <2>1 DEF StopEnds, CallsOK
    <2>2. CASE TerminateStale \/ ReadConfig \/ WriteConfig
      <3>1. start # None /\ UNCHANGED <<stop, running>>
        BY <2>2 DEF CallOnly, TerminateStale, ReadConfig, WriteConfig
      <3>2. start' \in Starts /\ start'.r = start.r
        <4>1. start \in Starts
          BY <3>1 DEF CallsOK
        <4>2. CASE TerminateStale
          BY <4>1, <4>2 DEF TerminateStale, Starts
        <4>3. CASE ReadConfig
          <5>1. PICK m \in Metadata : start' = [start EXCEPT !.at = "write", !.m = m]
            BY <4>1, <4>3 DEF ReadConfig, FilesOK, Starts
          <5> QED
            BY <4>1, <5>1 DEF Starts
        <4>4. CASE WriteConfig
          BY <4>1, <4>4 DEF WriteConfig, Starts
        <4> QED
          BY <2>2, <4>2, <4>3, <4>4
      <3> QED
        BY <3>1, <3>2, NoneAssumption
    <2>3. CASE Launch
      <3>1. start # None /\ start.r \in Remotes /\ start' = None /\ UNCHANGED stop
        BY <2>3 DEF Launch, CallsOK, Starts
      <3>2. \A q \in Remotes : q # start.r => running'[q] = running[q]
        BY <2>3, <3>1 DEF Launch, HoldersOK
      <3>3. TaskOK
        BY DEF TypeOK
      <3>4. task.at \in {"idle", "start"} /\ Sup = None
        BY <3>1
      <3> QED
        BY <3>1, <3>2, <3>4
    <2>4. CASE StartFails
      BY <2>4 DEF StartFails
    <2> QED
      BY <2>1, <2>2, <2>3, <2>4 DEF CallNext
  <1> QED
    BY <1>2, <1>3 DEF Control

\* The main thread of the service, and the end of the service.
LEMMA ControlMain ==
  ASSUME TypeOK, Control, Create \/ OnStartCommand \/ OnDestroy \/ DestroyStops \/ Shutdown \/ Crash
  PROVE  Control'
  <1> USE DEF user, files
  <1>0. TaskOK /\ HoldersOK /\ CallsOK
    BY DEF TypeOK
  <1>1. ui' = ui /\ meta' = meta
    BY DEF Create, OnStartCommand, OnDestroy, DestroyStops, Shutdown, Crash
  <1>2. FormHasFile'
    BY <1>1, FormFrame
  <1>3. CallsWait' /\ TaskSeesHolders'
    <2> USE DEF Control, CallsWait, TaskSeesHolders, Sup, IsReady
    <2>1. CASE Create
      <3>1. task = Idle /\ UNCHANGED <<start, stop, running, task, doomed>> /\ svc = "none"
        BY <2>1 DEF Create, TypeOK, NothingLeft, calls
      <3> QED
        BY <3>1 DEF Idle
    <2>2. CASE OnStartCommand
      BY <2>2 DEF OnStartCommand, calls
    <2>3. CASE OnDestroy
      BY <2>3 DEF OnDestroy, calls
    <2>4. CASE DestroyStops
      <3>1. PICK r \in doomed : CallStop("main", r, TRUE)
        BY <2>4 DEF DestroyStops
      <3>2. r \in Remotes /\ svc = "destroying" /\ svc' = svc /\ UNCHANGED <<start, task>>
        BY <2>4, <3>1 DEF TypeOK, DestroyStops
      <3>3. /\ \A q \in Remotes : running'[q] = None \/ running'[q] = running[q]
            /\ stop'["supervisor"] = stop["supervisor"]
        <4>1. \A q \in Remotes : running'[q] = IF q = r THEN None ELSE running[q]
          BY <1>0, <3>1, <3>2 DEF CallStop, HoldersOK
        <4>2. stop'["supervisor"] = stop["supervisor"]
          BY <3>1, <1>0 DEF CallStop, CallsOK
        <4> QED
          BY <4>1, <4>2
      <3>4. /\ start # None => start.r \in Remotes
            /\ Sup # None => Sup.r \in Remotes
            /\ task.at \in {"exitSync", "exitReport"} => task.r \in Remotes
        BY <1>0 DEF CallsOK, Starts, Stops, TaskOK
      <3>5. CallsWait'
        BY <3>2, <3>3, <3>4
      <3>6. TaskSeesHolders'
        BY <3>2, <3>3, <3>4
      <3> QED
        BY <3>5, <3>6
    <2>5. CASE Shutdown \/ Crash
      <3>1. Abandoned
        BY <2>5 DEF Shutdown, Crash
      <3>2. task' = Idle /\ start' = None /\ doomed' = {}
            /\ stop' = [t \in DOMAIN stop |-> None]
        BY <3>1 DEF Abandoned
      <3>3. stop' = [t \in {"supervisor", "main"} |-> None]
        BY <1>0, <3>2 DEF CallsOK
      <3> QED
        BY <3>2, <3>3 DEF Idle
    <2> QED
      BY <2>1, <2>2, <2>3, <2>4, <2>5
  <1> QED
    BY <1>2, <1>3 DEF Control

\* Every step of Next keeps the control.
LEMMA ControlKept ==
  ASSUME TypeOK, Control, [Next]_vars
  PROVE  Control'
  <1> USE DEF calls, user, service, files
  <1>1. CASE UNCHANGED vars
    BY <1>1, ControlFrame DEF vars, Control, FormHasFile
  <1>2. CASE KernelNext
    <2>1. UNCHANGED <<start, stop, running, task, svc, doomed, ui, meta>>
      BY <1>2 DEF KernelNext, KernelPrints, KernelRefreshesCookie, KernelExits
    <2> QED
      BY <2>1, ControlFrame DEF Control, FormHasFile
  <1>3. CASE PostNext \/ Beat \/ GhostNext
    <2>1. UNCHANGED <<start, stop, running, task, svc, doomed, ui, meta>>
      BY <1>3 DEF PostNext, Post, Beat, GhostNext
    <2> QED
      BY <2>1, ControlFrame DEF Control, FormHasFile
  <1> QED
    BY <1>1, <1>2, <1>3, ControlUser, ControlTasks, ControlCalls, ControlMain
    DEF Next, SupervisorNext, MainNext

----------------------------------------------------------------------------
(* Each step of the service is a step of the status files *)

\* A status written for one remote leaves the others as they are shown.
LEMMA OneWritten ==
  ASSUME TypeOK, NEW r \in Remotes, NEW s \in Statuses,
         \A q \in Remotes : /\ q # r => Kernel(running[q])' = Kernel(running[q])
                            /\ meta'[q] = None <=> meta[q] = None,
         status' = [status EXCEPT ![r] = s]
  PROVE  /\ status'[r].state = s.state
         /\ \A q \in Remotes : q # r => Shown!Step(q)
  BY Seen DEF TypeOK, FilesOK

\* The user's process: RemoteStatus knows of its reports and its deletions.
LEMMA UserSeen ==
  ASSUME TypeOK, Control, UserNext, NEW r \in Remotes
  PROVE  Shown!Step(r)
  <1> USE DEF service, user, calls, system, files
  <1>0. FilesOK /\ UserOK /\ FormHasFile
    BY DEF TypeOK, Control
  <1>1. Kernel(running[r])' = Kernel(running[r])
    BY DEF UserNext, BeginUpdate, OpenForm, SubmitForm, SaveUpdate, Delete, SendForAll
  <1>2. CASE status' = status /\ meta' = meta
    BY <1>1, <1>2, Seen
  <1>3. ASSUME ui # None, NEW m \in Metadata, meta' = [meta EXCEPT ![ui.r] = m],
               status' = status \/ status' = [status EXCEPT ![ui.r] = Failed]
        PROVE  Shown!Step(r)
    <2>1. ui.r \in Remotes /\ meta[ui.r] # None
      BY <1>0, <1>3 DEF UserOK, Operations, FormHasFile
    <2>2. meta'[r] = None <=> meta[r] = None
      BY <1>0, <1>3, <2>1, NoneAssumption DEF FilesOK
    <2>3. status'[r].state \in {status[r].state, "ERROR"}
      BY <1>0, <1>3, <2>1, StatusWritten DEF FilesOK, States
    <2> QED
      BY <1>1, <2>2, <2>3, Seen
  <1>4. CASE SaveUpdate
    <2>1. ui # None /\ ui.snap \in Metadata
      BY <1>0, <1>4 DEF SaveUpdate, UserOK, Operations
    <2>2. ASSUME NEW e \in BOOLEAN, Switch(e)
          PROVE  Shown!Step(r)
      <3>1. [ui.snap EXCEPT !.enabled = e] \in Metadata
        BY <2>1 DEF Metadata
      <3> QED
        BY <1>3, <2>1, <2>2, <3>1 DEF Switch, Request
    <2>3. CASE meta' = [meta EXCEPT ![ui.r] = ui.snap] /\ status' = status
      BY <1>3, <2>1, <2>3
    <2> QED
      BY <1>4, <2>2, <2>3 DEF SaveUpdate
  <1>5. ASSUME NEW login \in 1 .. MaxLogins, NEW port \in 0 .. 1, NEW e \in BOOLEAN,
               SubmitForm(login, port, e)
        PROVE  Shown!Step(r)
    <2>1. ui # None /\ ui.snap \in Metadata
      BY <1>0, <1>5 DEF SubmitForm, UserOK, Operations
    <2>2. PICK c \in {ui.snap.cookie, [login |-> login, fresh |-> 0]} :
              meta' = [meta EXCEPT ![ui.r] = [cookie |-> c, port |-> port, enabled |-> e]]
      BY <1>5 DEF SubmitForm
    <2>3. [cookie |-> c, port |-> port, enabled |-> e] \in Metadata
      BY <2>1, ConstantsAssumption DEF Cookies, Metadata
    <2>4. status' = status \/ status' = [status EXCEPT ![ui.r] = Failed]
      BY <1>5 DEF SubmitForm, Request
    <2> QED
      BY <1>3, <2>1, <2>2, <2>3, <2>4
  <1>6. CASE Delete
    <2>1. ui.r \in Remotes
      BY <1>0, <1>6 DEF Delete, UserOK, Operations
    <2>2. CASE r = ui.r
      <3>1. meta'[r] = None /\ status'[r].state = "STOPPED"
        BY <1>0, <1>6, <2>1, <2>2, StatusWritten DEF Delete, FilesOK, States
      <3> QED
        BY <1>1, <3>1, Seen
    <2>3. CASE r # ui.r
      <3>1. meta'[r] = meta[r] /\ status'[r] = status[r]
        BY <1>0, <1>6, <2>1, <2>3 DEF Delete, FilesOK
      <3> QED
        BY <1>1, <3>1, Seen
    <2> QED
      BY <2>2, <2>3
  <1>7. ASSUME NEW q \in Remotes, NEW want, BeginUpdate(q, want) \/ OpenForm(q)
        PROVE  Shown!Step(r)
    BY <1>2, <1>7 DEF BeginUpdate, OpenForm
  <1>8. ASSUME NEW op, SendForAll(op)
        PROVE  Shown!Step(r)
    BY <1>2, <1>8 DEF SendForAll
  <1> QED
    BY <1>4, <1>5, <1>6, <1>7, <1>8 DEF UserNext

\* stopProcess: either the file says STOPPED and no kernel is there, or the
\* kernel leaves and the file follows when the call ends.
LEMMA StopSeen ==
  ASSUME TypeOK, NEW t, NEW q \in Remotes, NEW sync, CallStop(t, q, sync), meta' = meta,
         NEW r \in Remotes
  PROVE  Shown!Step(r)
  <1>0. FilesOK /\ HoldersOK
    BY DEF TypeOK
  <1>1. CASE running[q] = None
    <2>1. running' = running /\ status' = [status EXCEPT ![q] = Stopped]
      BY <1>1 DEF CallStop
    <2>2. status'[q].state = "STOPPED" /\ (r # q => status'[r] = status[r])
      BY <1>0, <2>1, StatusWritten DEF FilesOK, States
    <2> QED
      BY <1>1, <2>1, <2>2, Seen
  <1>2. CASE running[q] # None
    <2>1. status' = status /\ running' = [running EXCEPT ![q] = None]
      BY <1>2 DEF CallStop
    <2>2. IF r = q THEN running'[r] = None ELSE running'[r] = running[r]
      BY <1>0, <2>1 DEF HoldersOK
    <2> QED
      BY <2>1, <2>2, Seen
  <1> QED
    BY <1>1, <1>2

\* The end of stopProcess: STOPPED, if no newer kernel is supervised; only while
\* the service is being closed there may be one.
LEMMA StopEndsSeen ==
  ASSUME TypeOK, Control, NEW t \in {"supervisor", "main"}, StopEnds(t), NEW r \in Remotes
  PROVE  Shown!Step(r)
  <1>0. FilesOK /\ CallsOK /\ CallsWait
    BY DEF TypeOK, Control
  <1>1. stop[t].r \in Remotes /\ running' = running
    BY <1>0 DEF StopEnds, CallsOK, Stops
  <1>2. meta'[r] = None <=> meta[r] = None
    BY <1>0, <1>1, SyncTyped DEF StopEnds
  <1>3. running[stop[t].r] = None \/ svc = "destroying"
    BY <1>0 DEF CallsWait, Sup, StopEnds
  <1>4. IF r = stop[t].r THEN status'[r].state = "STOPPED" ELSE status'[r] = status[r]
    BY <1>0, <1>1, StatusWritten DEF StopEnds, FilesOK, States
  <1> QED
    BY <1>1, <1>2, <1>3, <1>4, Seen DEF States

\* startProcess: STARTING with the launch, ERROR without a kernel.
LEMMA CallsSeen ==
  ASSUME TypeOK, Control, CallNext, NEW r \in Remotes
  PROVE  Shown!Step(r)
  <1>0. FilesOK /\ CallsOK /\ HoldersOK /\ CallsWait
    BY DEF TypeOK, Control
  <1>1. start # None => start.r \in Remotes /\ start.m \in Metadata /\ running[start.r] = None
    BY <1>0 DEF CallsOK, Starts, CallsWait
  <1>2. CASE StopEnds("supervisor")
    BY <1>2, StopEndsSeen
  <1>3. CASE TerminateStale
    <2>1. meta'[r] = None <=> meta[r] = None
      BY <1>0, <1>1, <1>3, SyncTyped DEF TerminateStale
    <2> QED
      BY <1>3, <2>1, Seen DEF TerminateStale
  <1>4. CASE ReadConfig \/ WriteConfig
    BY <1>4, Seen DEF CallOnly, ReadConfig, WriteConfig
  <1>5. CASE Launch
    <2> DEFINE k == NewKernel(start.r, start.m, "service")
               h == [id |-> k.id, config |-> k.config, ready |-> FALSE, adopted |-> FALSE]
    <2>1. /\ running' = [running EXCEPT ![start.r] = h] /\ meta' = meta
          /\ status' = [status EXCEPT ![start.r] = Status("STARTING", start.m.cookie)]
          /\ start # None
      BY <1>5 DEF Launch
    <2>2. h # None /\ ~h.ready
      <3>1. TypeOK'
        BY <1>5, CallsTyped DEF CallNext
      <3>2. h \in Holders \union {None}
        BY <1>0, <1>1, <2>1, <3>1 DEF TypeOK, HoldersOK
      <3>3. k.id \in Nat /\ k.config \in Configs
        BY <1>1, <2>1, MetadataCopied DEF NewKernel, TypeOK, UserOK, Metadata
      <3>4. h \in Holders
        BY <3>3 DEF Holders
      <3> QED
        BY <3>4, NoneAssumption
    <2> HIDE DEF k, h
    <2>3. Status("STARTING", start.m.cookie).state = "STARTING"
      BY DEF Status
    <2>4. CASE r = start.r
      <3>1. running'[r] = h /\ status'[r].state = "STARTING"
        BY <1>0, <2>1, <2>3, <2>4 DEF HoldersOK, FilesOK
      <3> QED
        BY <1>1, <2>1, <2>2, <2>4, <3>1, Seen DEF Kernel
    <2>5. CASE r # start.r
      <3>1. running'[r] = running[r] /\ status'[r] = status[r]
        BY <1>0, <2>1, <2>5 DEF HoldersOK, FilesOK
      <3> QED
        BY <2>1, <3>1, Seen
    <2> QED
      BY <2>4, <2>5
  <1>6. CASE StartFails
    <2>1. /\ start # None /\ status' = [status EXCEPT ![start.r] = Failed]
          /\ UNCHANGED <<meta, running>>
      BY <1>6 DEF StartFails
    <2>2. IF r = start.r THEN status'[r].state = "ERROR" ELSE status'[r] = status[r]
      BY <1>0, <1>1, <2>1, StatusWritten DEF FilesOK, States
    <2> QED
      BY <2>1, <2>2, Seen
  <1> QED
    BY <1>2, <1>3, <1>4, <1>5, <1>6 DEF CallNext

\* The supervisor's tasks: RUNNING is written for a kernel that is supervised
\* and ready, STOPPED and ERROR where none is.
LEMMA TasksSeen ==
  ASSUME TypeOK, Control, TaskNext, NEW r \in Remotes
  PROVE  Shown!Step(r)
  <1> USE DEF calls, user, files
  <1>0. FilesOK /\ TaskOK /\ HoldersOK /\ TaskSeesHolders
    BY DEF TypeOK, Control
  <1>1. CASE Take \/ ReadToDisable \/ Look \/ Reload \/ StartNext \/ ExitEnds \/ Retry
    BY <1>1, Seen DEF Take, ReadToDisable, Look, Reload, StartNext, ExitEnds, Retry, TaskOnly
  <1>2. CASE SaveDisabled
    <2>1. status' = status /\ running' = running
      BY <1>2 DEF SaveDisabled, TaskOnly
    <2>2. meta'[r] = meta[r] \/ meta'[r] # None
      <3>1. ASSUME NEW q \in task.todo,
                   meta' = [meta EXCEPT ![q] = [task.seen[q] EXCEPT !.enabled = FALSE]]
            PROVE  meta'[r] = meta[r] \/ meta'[r] # None
        <4>1. task.seen[q] \in Metadata /\ q \in Remotes
          BY <1>0, <1>2 DEF TaskOK, SaveDisabled, At
        <4>2. [task.seen[q] EXCEPT !.enabled = FALSE] # None
          BY <4>1, NoneAssumption DEF Metadata
        <4> QED
          BY <1>0, <3>1, <4>1, <4>2 DEF FilesOK
      <3> QED
        BY <1>2, <3>1 DEF SaveDisabled
    <2> QED
      BY <2>1, <2>2, Seen
  <1>3. CASE StopNext
    <2>1. PICK q \in task.todo : CallStop("supervisor", q, task.seen[q])
      BY <1>3 DEF StopNext
    <2>2. q \in Remotes /\ meta' = meta
      BY <1>0, <1>3 DEF TaskOK, StopNext
    <2> QED
      BY <2>1, <2>2, StopSeen
  <1>4. CASE EndReconcile
    <2>1. UNCHANGED <<meta, running>>
      BY <1>4 DEF EndReconcile
    <2>2. CASE Alive(r) /\ running[r].ready
      <3>1. status'[r].state = "RUNNING" /\ IsReady(r)
        BY <1>4, <2>2 DEF EndReconcile, ShownRunning, Status, Alive, Held, IsReady
      <3> QED
        BY <2>1, <3>1, Seen
    <2>3. CASE ~(Alive(r) /\ running[r].ready)
      <3>1. status'[r] = status[r]
        BY <1>4, <2>3 DEF EndReconcile
      <3> QED
        BY <2>1, <3>1, Seen
    <2> QED
      BY <2>2, <2>3
  <1>5. CASE ReadySeen
    <2>1. UNCHANGED <<meta, status>>
      BY <1>5 DEF ReadySeen
    <2>2. CASE running' = running
      BY <2>1, <2>2, Seen
    <2>3. CASE running' # running
      <3>1. /\ task.r \in Remotes /\ running[task.r] # None
            /\ running' = [running EXCEPT ![task.r].ready = TRUE]
        BY <1>0, <1>5, <2>3 DEF ReadySeen, TaskOK, Supervised, At
      <3>2. running[task.r] \in Holders
        BY <1>0, <3>1 DEF HoldersOK
      <3>3. [running[task.r] EXCEPT !.ready = TRUE] # None
            /\ [running[task.r] EXCEPT !.ready = TRUE].ready
        BY <3>2, NoneAssumption DEF Holders
      <3>4. IF r = task.r THEN IsReady(r)' ELSE running'[r] = running[r]
        BY <1>0, <3>1, <3>3 DEF HoldersOK, IsReady
      <3> QED
        BY <2>1, <3>1, <3>4, Seen DEF Kernel, IsReady
    <2> QED
      BY <2>2, <2>3
  <1>6. CASE ReadyAnnounced
    <2>1. /\ task.r \in Remotes /\ UNCHANGED <<meta, running>>
          /\ status' = [status EXCEPT ![task.r] = Status("RUNNING", task.seen)]
          /\ IsReady(task.r) \/ svc = "destroying"
      BY <1>0, <1>6 DEF ReadyAnnounced, TaskOK, TaskSeesHolders, At
    <2>2. IF r = task.r THEN status'[r].state = "RUNNING" ELSE status'[r] = status[r]
      BY <1>0, <2>1 DEF FilesOK, Status
    <2> QED
      BY <2>1, <2>2, Seen DEF States
  <1>7. CASE ExitSeen
    <2>1. running' = running \/ (task.r \in Remotes /\ running' = [running EXCEPT ![task.r] = None])
      BY <1>0, <1>7 DEF ExitSeen, TaskOK, At
    <2>2. running'[r] \in {None, running[r]} /\ UNCHANGED <<meta, status>>
      BY <1>0, <1>7, <2>1 DEF ExitSeen, HoldersOK
    <2> QED
      BY <2>2, Seen
  <1>8. CASE ExitSyncs \/ BeatSyncs
    <2>1. task.r \in Remotes /\ meta' = SyncRuntimeCookie(task.r) /\ UNCHANGED <<running, status>>
      BY <1>0, <1>8 DEF ExitSyncs, BeatSyncs, TaskOK, At, TaskOnly
    <2>2. meta'[r] = None <=> meta[r] = None
      BY <1>0, <2>1, SyncTyped
    <2> QED
      BY <2>1, <2>2, Seen
  <1>9. CASE ExitReports
    <2>1. PICK s \in {Failed, Stopped} : status' = [status EXCEPT ![task.r] = s]
      BY <1>9 DEF ExitReports
    <2>2. task.r \in Remotes /\ running[task.r] = None /\ UNCHANGED <<meta, running>>
      BY <1>0, <1>9 DEF ExitReports, TaskOK, TaskSeesHolders, At
    <2>3. IF r = task.r THEN status'[r].state \in {"STOPPED", "ERROR"} ELSE status'[r] = status[r]
      BY <1>0, <2>1, <2>2, StatusWritten DEF FilesOK, States
    <2> QED
      BY <2>2, <2>3, Seen
  <1>10. CASE BeatNext
    <2>1. UNCHANGED <<meta, running>>
      BY <1>10 DEF BeatNext
    <2>2. CASE status' = status
      BY <2>1, <2>2, Seen
    <2>3. ASSUME NEW q \in task.todo, Alive(q), status' = [status EXCEPT ![q] = ShownRunning(q)]
          PROVE  Shown!Step(r)
      <3>1. q \in Remotes /\ (IsReady(q) \/ svc = "destroying")
        BY <1>0, <1>10 DEF BeatNext, TaskOK, TaskSeesHolders, At
      <3>2. IF r = q THEN status'[r].state = "RUNNING" ELSE status'[r] = status[r]
        BY <1>0, <2>3, <3>1 DEF FilesOK, Status, ShownRunning
      <3> QED
        BY <2>1, <3>1, <3>2, Seen DEF States
    <2> QED
      BY <1>10, <2>2, <2>3 DEF BeatNext
  <1>11. CASE BeatReads
    <2>1. task.r \in Remotes /\ task.at = "beatRead" /\ meta' = meta
          /\ (IsReady(task.r) \/ svc = "destroying")
      BY <1>0, <1>11 DEF TaskOK, TaskSeesHolders, BeatReads, At
    <2> DEFINE read ==
            IF meta[task.r] = None \/ running[task.r] = None THEN running[task.r]
            ELSE [running[task.r] EXCEPT !.config = Config(meta[task.r]),
                     !.adopted = @ \/ meta[task.r].port # running[task.r].config.port
                                   \/ meta[task.r].cookie.login # running[task.r].config.cookie.login]
    <2>2. /\ running' = [running EXCEPT ![task.r] = read]
          /\ status' = [status EXCEPT ![task.r] =
                            IF read = None THEN Status("RUNNING", None)
                            ELSE Status("RUNNING", read.config.cookie)]
      BY Zenon, <1>11 DEF BeatReads
    <2>3. Kernel(read) = Kernel(running[task.r])
      <3>1. CASE meta[task.r] = None \/ running[task.r] = None
        BY <3>1
      <3>2. CASE ~(meta[task.r] = None \/ running[task.r] = None)
        <4>1. PICK a : read = [running[task.r] EXCEPT !.config = Config(meta[task.r]),
                                                      !.adopted = @ \/ a]
          BY Zenon, <3>2
        <4>2. running[task.r] \in Holders /\ Config(meta[task.r]) \in Configs
          BY <1>0, <2>1, <3>2, MetadataCopied DEF HoldersOK, FilesOK, Metadata
        <4>3. (running[task.r].adopted \/ a) \in BOOLEAN
          BY Zenon
        <4>4. read \in Holders /\ read.ready = running[task.r].ready
          BY <4>1, <4>2, <4>3 DEF Holders
        <4> HIDE DEF read
        <4> QED
          BY <3>2, <4>4, NoneAssumption DEF Kernel
      <3> QED
        BY <3>1, <3>2
    <2> HIDE DEF read
    <2>4. IF r = task.r
          THEN /\ Kernel(running[r])' = Kernel(running[r])
               /\ status'[r].state = "RUNNING"
          ELSE running'[r] = running[r] /\ status'[r] = status[r]
      BY <1>0, <2>1, <2>2, <2>3 DEF HoldersOK, FilesOK, Status
    <2> QED
      BY <2>1, <2>4, Seen DEF States
  <1>12. CASE PidSeen
    BY <1>12, Seen DEF PidSeen, TaskOnly
  <1>13. CASE PidWritten
    <2>1. /\ task.r \in Remotes /\ UNCHANGED <<meta, running>>
          /\ status' = [status EXCEPT ![task.r] = task.seen]
          /\ task.seen.state \in {"STARTING", "RUNNING"} /\ task.at = "pidWrite"
          /\ running[task.r] # None \/ svc = "destroying"
      BY <1>0, <1>13 DEF PidWritten, TaskOK, TaskSeesHolders, At
    <2>2. IF r = task.r THEN status'[r] = task.seen ELSE status'[r] = status[r]
      BY <1>0, <2>1 DEF FilesOK
    <2> QED
      BY <2>1, <2>2, Seen DEF HasRead, States
  <1> QED
    BY <1>1, <1>2, <1>3, <1>4, <1>5, <1>6, <1>7, <1>8, <1>9, <1>10, <1>11, <1>12, <1>13
    DEF TaskNext

\* The main thread, and the service's end: the kernels leave, no file changes.
LEMMA MainSeen ==
  ASSUME TypeOK, Control, MainNext \/ Crash, NEW r \in Remotes
  PROVE  Shown!Step(r)
  <1> USE DEF files, user
  <1>1. CASE Create \/ OnStartCommand \/ OnDestroy
    BY <1>1, Seen DEF Create, OnStartCommand, OnDestroy
  <1>2. CASE DestroyStops
    <2>1. PICK q \in doomed : CallStop("main", q, TRUE)
      BY <1>2 DEF DestroyStops
    <2>2. q \in Remotes /\ meta' = meta
      BY <1>2, <2>1 DEF TypeOK, DestroyStops
    <2> QED
      BY Zenon, <2>1, <2>2, StopSeen
  <1>3. CASE StopEnds("main")
    BY <1>3, StopEndsSeen
  <1>4. CASE Shutdown \/ Crash
    <2>1. UNCHANGED <<meta, status>> /\ running'[r] = None
      BY <1>4 DEF Shutdown, Crash, Abandoned
    <2> QED
      BY <2>1, Seen
  <1> QED
    BY <1>1, <1>2, <1>3, <1>4 DEF MainNext

\* Kernels, the queue and the threads left over of a service.
LEMMA OthersSeen ==
  ASSUME TypeOK, KernelNext \/ PostNext \/ Beat \/ GhostNext \/ UNCHANGED vars, NEW r \in Remotes
  PROVE  Shown!Step(r)
  <1> USE DEF files, service
  <1>1. CASE KernelNext \/ PostNext \/ Beat \/ UNCHANGED vars
    BY <1>1, Seen DEF KernelNext, KernelPrints, KernelRefreshesCookie, KernelExits, PostNext,
                      Post, Beat, vars
  <1>2. CASE GhostNext
    <2>1. PICK g \in ghosts : GhostLaunches(g) \/ GhostWrites(g)
      BY <1>2 DEF GhostNext
    <2>2. g.r \in Remotes /\ FilesOK
      BY DEF TypeOK, SystemOK, Ghosts
    <2>3. PICK s : status' = [status EXCEPT ![g.r] = s] /\ s.state \in States
      BY <2>1 DEF GhostLaunches, GhostWrites, Status, Failed, States
    <2>4. IF r = g.r THEN status'[r].state \in States ELSE status'[r] = status[r]
      BY <2>2, <2>3 DEF FilesOK
    <2>5. UNCHANGED <<meta, running>>
      BY <1>2 DEF GhostNext
    <2> QED
      BY <2>4, <2>5, Seen
  <1> QED
    BY <1>1, <1>2

\* The writer of the process number reads the status of a supervised kernel
\* (QuarkDavService.kt:214-217), and no step lets it read another.
LEMMA NotesKept ==
  ASSUME TypeOK, [Next]_vars, NEW r \in Remotes
  PROVE  Shown!Notes(r)
  <1> USE DEF calls, user, files, service
  <1>0. TaskOK
    BY DEF TypeOK
  <1>1. CASE task' = task \/ task'.at # "pidWrite"
    BY <1>1 DEF Shown!Notes
  <1>2. CASE PidSeen
    <2>1. CASE task' = Idle
      BY <1>1, <2>1 DEF Idle
    <2>2. CASE task' # Idle
      <3>1. /\ task' = [task EXCEPT !.at = "pidWrite", !.seen = status[task.r]]
            /\ running[task.r] # None /\ status[task.r].state \in {"STARTING", "RUNNING"}
        BY <1>2, <2>2 DEF PidSeen, Supervised
      <3>2. task'.at = "pidWrite" /\ task'.r = task.r /\ task'.seen = status[task.r]
        BY <1>0, <3>1 DEF TaskOK
      <3> QED
        BY <3>1, <3>2 DEF Shown!Notes
    <2> QED
      BY <2>1, <2>2
  <1>3. CASE Take
    <2>1. queue \in Seq(Tasks) /\ queue # <<>>
      BY <1>3 DEF Take, TypeOK, QueueOK
    <2>2. Head(queue) \in Tasks
      BY <2>1
    <2>3. task'.at \in Requests \union {"pid", "ready", "exit", "retry", "beat"}
      BY <1>3, <2>2 DEF Take, Tasks, Requests
    <2> QED
      BY <1>1, <2>3 DEF Requests
  <1>4. CASE TaskNext /\ ~PidSeen /\ ~Take
    <2>1. CASE ReadToDisable \/ SaveDisabled \/ Look \/ StopNext \/ Reload \/ StartNext
      <3>1. task'.at # "pidWrite"
        BY <1>0, <2>1
        DEF ReadToDisable, SaveDisabled, Look, StopNext, Reload, StartNext, TaskOK, At
      <3> QED
        BY <1>1, <3>1
    <2>2. CASE EndReconcile \/ PidWritten \/ ReadyAnnounced \/ ExitEnds \/ Retry
      <3>1. task' = Idle
        BY <2>2 DEF EndReconcile, PidWritten, ReadyAnnounced, ExitEnds, Retry
      <3> QED
        BY <1>1, <3>1 DEF Idle
    <2>3. CASE ReadySeen \/ ExitSeen \/ ExitSyncs \/ ExitReports
      <3>1. \/ task' = Idle
            \/ task' = [task EXCEPT !.at = "announce", !.seen = running[task.r].config.cookie]
            \/ \E at \in {"exitSync", "exitReport", "exitEnd"} : task' = [task EXCEPT !.at = at]
        BY <2>3 DEF ReadySeen, ExitSeen, ExitSyncs, ExitReports
      <3>2. CASE task' = Idle
        BY <1>1, <3>2 DEF Idle
      <3>3. CASE task' # Idle
        <4>1. task'.at \in {"announce", "exitSync", "exitReport", "exitEnd"}
          BY <1>0, <3>1, <3>3 DEF TaskOK
        <4> QED
          BY <1>1, <4>1
      <3> QED
        BY <3>2, <3>3
    <2>4. CASE BeatNext \/ BeatSyncs
      <3>1. \/ task' = Idle
            \/ \E r1 \in task.todo : task' = [task EXCEPT !.r = r1, !.at = "beatSync"]
            \/ task.at = "beat" /\ \E r1 \in task.todo : task' = [task EXCEPT !.todo = @ \ {r1}]
            \/ task' = [task EXCEPT !.at = "beatRead"]
        BY <2>4 DEF BeatNext, BeatSyncs, At
      <3>2. CASE task' = Idle
        BY <1>1, <3>2 DEF Idle
      <3>3. CASE task' # Idle
        <4>1. task'.at \in {"beatSync", "beat", "beatRead"}
          BY <1>0, <3>1, <3>3 DEF TaskOK
        <4> QED
          BY <1>1, <4>1
      <3> QED
        BY <3>2, <3>3
    <2>5. CASE BeatReads
      <3>1. task' = [task EXCEPT !.todo = @ \ {task.r}, !.at = "beat"]
        BY <2>5 DEF BeatReads
      <3>2. task'.at # "pidWrite"
        BY <1>0, <3>1 DEF TaskOK
      <3> QED
        BY <1>1, <3>2
    <2> QED
      BY <1>4, <2>1, <2>2, <2>3, <2>4, <2>5 DEF TaskNext
  <1>5. CASE Shutdown \/ Crash
    BY <1>1, <1>5 DEF Shutdown, Crash, Abandoned, Idle
  <1>6. CASE ~TaskNext /\ ~Shutdown /\ ~Crash
    <2>1. task' = task
      <3>1. CASE UserNext \/ KernelNext
        BY <3>1 DEF UserNext, BeginUpdate, OpenForm, SubmitForm, SaveUpdate, Delete, SendForAll,
                    KernelNext, KernelPrints, KernelRefreshesCookie, KernelExits
      <3>2. CASE CallNext \/ MainNext
        BY <1>6, <3>2
        DEF CallNext, CallOnly, StopEnds, TerminateStale, ReadConfig, WriteConfig, Launch,
            StartFails, MainNext, Create, OnStartCommand, OnDestroy, DestroyStops
      <3>3. CASE PostNext \/ Beat \/ GhostNext \/ UNCHANGED vars
        BY <3>3 DEF PostNext, Post, Beat, GhostNext, vars
      <3> QED
        BY <1>6, <3>1, <3>2, <3>3 DEF Next, SupervisorNext
    <2> QED
      BY <1>1, <2>1
  <1> QED
    BY <1>2, <1>3, <1>4, <1>5, <1>6

\* Whatever the user, the kernels, the supervisor, the main thread and the
\* threads of a closed service do, and in whatever order, the files go through
\* the states of the document (QuarkDavStatusStore.kt): each step of the
\* service is one step of RemoteStatus for every remote.  The writer of a process
\* number is one of them, and its promise the weakest: it may show again a state
\* that the user's process or onDestroy has just replaced.
THEOREM StatusRefined == Spec => StatusMachine
  <1>1. Init => Shown!Init
    <2> SUFFICES ASSUME Init PROVE Shown!Init
      OBVIOUS
    <2>1. status = [r \in Remotes |-> Stopped] /\ running = [r \in Remotes |-> None]
          /\ svc = "none" /\ ghosts = {} /\ task.at = "idle"
      BY DEF Init, Idle
    <2>2. \A r \in Remotes : (meta[r] # None) \in BOOLEAN
      BY Zenon
    <2> QED
      BY <2>1, <2>2, StatusWritten DEF Shown!Init, States
  <1>2. TypeOK /\ Control /\ [Next]_vars => [Shown!Next]_(Shown!vars)
    <2> SUFFICES ASSUME TypeOK, Control, [Next]_vars, NEW r \in Remotes
                 PROVE  Shown!Step(r) /\ Shown!Notes(r)
      BY DEF Shown!Next
    <2>1. Shown!Notes(r)
      BY NotesKept
    <2> QED
      BY <2>1, UserSeen, CallsSeen, TasksSeen, MainSeen, OthersSeen DEF Next, SupervisorNext
  <1>3. Init => TypeOK /\ Control
    BY TypesAtFirst, ControlInit
  <1>4. TypeOK /\ Control /\ [Next]_vars => (TypeOK /\ Control)'
    BY StepsTyped, ControlKept
  <1> QED
    BY <1>1, <1>2, <1>3, <1>4, PTL DEF Spec, StatusMachine, Shown!Spec
=============================================================================
