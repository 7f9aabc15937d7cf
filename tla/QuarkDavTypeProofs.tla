------------------------- MODULE QuarkDavTypeProofs -------------------------
(***************************************************************************)
(* Proofs about QuarkDavSupervisor: what is in the files, in the queues    *)
(* and in the calls under way is what the code put there, and nothing of a *)
(* service object outlives it.                                             *)
(***************************************************************************)
EXTENDS QuarkDavSupervisor, TLAPS

States == {"STOPPED", "STARTING", "RUNNING", "ERROR"}

----------------------------------------------------------------------------
(* The operators of the model *)

\* The data class of the metadata, copied but for one field or two.
LEMMA MetadataCopied ==
  ASSUME NEW m \in Metadata, NEW e \in BOOLEAN, NEW c \in Cookies, NEW p \in 0 .. 1
  PROVE  /\ [m EXCEPT !.enabled = e] \in Metadata
         /\ [m EXCEPT !.cookie = c] \in Metadata
         /\ [cookie |-> c, port |-> p, enabled |-> e] \in Metadata
         /\ Config(m) \in Configs /\ m.cookie \in Cookies /\ m.port \in 0 .. 1
  BY DEF Metadata, Config, Configs

\* The statuses the service and the user's process write.
LEMMA StatusWritten ==
  ASSUME NEW state \in States, NEW c \in Cookies \union {None}
  PROVE  /\ Status(state, c) \in Statuses /\ Status(state, c).state = state
         /\ Stopped \in Statuses /\ Failed \in Statuses
         /\ Stopped.state = "STOPPED" /\ Failed.state = "ERROR"
  BY DEF Status, Statuses, Stopped, Failed, States

\* syncRuntimeCookie writes metadata, and neither makes a file nor removes one.
LEMMA SyncTyped ==
  ASSUME FilesOK, NEW r \in Remotes
  PROVE  /\ SyncRuntimeCookie(r) \in [Remotes -> Metadata \union {None}]
         /\ \A q \in Remotes :
               /\ q # r => SyncRuntimeCookie(r)[q] = meta[q]
               /\ SyncRuntimeCookie(r)[q] = None <=> meta[q] = None
               /\ meta[q] # None => /\ SyncRuntimeCookie(r)[q].enabled = meta[q].enabled
                                    /\ SyncRuntimeCookie(r)[q].port = meta[q].port
  <1>1. CASE meta[r] # None /\ runtime[r] # None
    <2> DEFINE m == [meta[r] EXCEPT !.cookie = runtime[r]]
    <2>1. meta[r] \in Metadata /\ runtime[r] \in Cookies
      BY <1>1 DEF FilesOK
    <2>2. /\ m \in Metadata /\ m.enabled = meta[r].enabled /\ m.port = meta[r].port
          /\ m # None
      BY <2>1, MetadataCopied, NoneAssumption DEF Metadata
    <2>3. SyncRuntimeCookie(r) = [meta EXCEPT ![r] = m]
      BY <1>1 DEF SyncRuntimeCookie
    <2> HIDE DEF m
    <2> QED
      BY <1>1, <2>2, <2>3 DEF FilesOK
  <1>2. CASE ~(meta[r] # None /\ runtime[r] # None)
    <2>1. SyncRuntimeCookie(r) = meta
      BY <1>2 DEF SyncRuntimeCookie
    <2> QED
      BY <2>1 DEF FilesOK
  <1> QED
    BY <1>1, <1>2

\* The three files, written one at a time.
LEMMA FilesWritten ==
  ASSUME FilesOK, NEW r \in Remotes, NEW s \in Statuses, NEW c \in Cookies \union {None},
         NEW m \in Metadata \union {None}
  PROVE  /\ [meta EXCEPT ![r] = m] \in [Remotes -> Metadata \union {None}]
         /\ [runtime EXCEPT ![r] = c] \in [Remotes -> Cookies \union {None}]
         /\ [status EXCEPT ![r] = s] \in [Remotes -> Statuses]
  BY DEF FilesOK, Statuses, States

\* A task put on the queue of the supervisor (supervisor.execute).
LEMMA EnqueueTyped ==
  ASSUME QueueOK, NEW t \in Tasks, Enqueue(t)
  PROVE  queue' \in Seq(Tasks)
  BY DEF QueueOK, Enqueue

\* The tasks the reader threads, the waiter threads and the timers post.
LEMMA PostedTyped ==
  ASSUME NEW r \in Remotes, NEW id \in Nat, NEW op \in {"pid", "ready", "exit", "retry"}
  PROVE  Task(op, r, id) \in Tasks
  BY DEF Task, Tasks

\* Kernels that end are reported by the threads waiting for them.
LEMMA ExitsTyped ==
  ASSUME NEW dead, dead \subseteq Kernels
  PROVE  Exits(dead) \subseteq Tasks
  <1> SUFFICES ASSUME NEW k \in Kernels PROVE Task("exit", k.r, k.id) \in Tasks
    BY DEF Exits
  <1>1. k.r \in Remotes /\ k.id \in Nat
    BY DEF Kernels
  <1> QED
    BY <1>1, PostedTyped

\* An intent for the service, or the end it asks for itself.
LEMMA SentTyped ==
  ASSUME SystemOK, ghosts' = ghosts, NEW op \in Requests, NEW r \in Remotes \union {None},
         Send(Intent(op, r)) \/ StopSelf
  PROVE  SystemOK'
  <1>1. Intent(op, r) \in Messages /\ Message("create") \in Messages
        /\ Message("destroy") \in Messages
    BY DEF Intent, Message, Messages
  <1>2. CASE Send(Intent(op, r))
    BY <1>1, <1>2 DEF SystemOK, Send
  <1>3. CASE StopSelf
    <2>1. up' \in BOOLEAN
      BY <1>3 DEF SystemOK, StopSelf, system
    <2>2. inbox' \in {inbox, Append(inbox, Message("destroy"))}
      BY <1>3 DEF StopSelf, system
    <2> QED
      BY <1>1, <2>1, <2>2 DEF SystemOK
  <1> QED
    BY <1>2, <1>3

\* One more event, or one more kernel.
LEMMA CountTyped ==
  ASSUME UserOK
  PROVE  /\ \A event \in {"edits", "refreshes", "crashes"} :
               Happens(event) => /\ used'.kernels = used.kernels
                                 /\ used' \in [edits : Nat, refreshes : Nat, crashes : Nat,
                                               kernels : Nat]
         /\ CountKernel => /\ used'.kernels = used.kernels + 1
                           /\ used' \in [edits : Nat, refreshes : Nat, crashes : Nat,
                                         kernels : Nat]
  BY DEF UserOK, Happens, CountKernel

\* The parts of the state a step leaves alone.
LEMMA Frames ==
  ASSUME TypeOK
  PROVE  /\ UNCHANGED files => FilesOK'
         /\ kernels' \subseteq kernels /\ used'.kernels = used.kernels => KernelsOK'
         /\ UNCHANGED <<system, ghosts>> => SystemOK'
         /\ UNCHANGED <<queue, news>> => QueueOK'
         /\ UNCHANGED task => TaskOK'
         /\ UNCHANGED calls => CallsOK'
         /\ UNCHANGED running /\ used'.kernels = used.kernels => HoldersOK'
         /\ UNCHANGED <<user, used>> => UserOK'
         /\ UNCHANGED doomed => doomed' \subseteq Remotes
         /\ UNCHANGED svc /\ svc # "none" => /\ svc' \in {"none", "up", "destroying"}
                                             /\ svc' = "none" => NothingLeft'
  <1> USE DEF TypeOK, files, system, calls, user
  <1>1. UNCHANGED files => FilesOK'
    BY DEF FilesOK
  <1>2. kernels' \subseteq kernels /\ used'.kernels = used.kernels => KernelsOK'
    BY DEF KernelsOK
  <1>3. UNCHANGED <<system, ghosts>> => SystemOK'
    BY DEF SystemOK
  <1>4. UNCHANGED <<queue, news>> => QueueOK'
    BY DEF QueueOK
  <1>5. UNCHANGED task => TaskOK'
    BY DEF TaskOK
  <1>6. UNCHANGED calls => CallsOK'
    BY DEF CallsOK
  <1>7. UNCHANGED running /\ used'.kernels = used.kernels => HoldersOK'
    BY DEF HoldersOK, Held
  <1>8. UNCHANGED <<user, used>> => UserOK'
    BY DEF UserOK
  <1> QED
    BY <1>1, <1>2, <1>3, <1>4, <1>5, <1>6, <1>7, <1>8

----------------------------------------------------------------------------
(* The steps *)

\* After a boot (Init).
LEMMA TypesAtFirst == Init => TypeOK
  <1> SUFFICES ASSUME Init PROVE TypeOK
    OBVIOUS
  <1>1. FilesOK
    <2>1. \A e \in BOOLEAN : [cookie |-> [login |-> 1, fresh |-> 0], port |-> 0,
                              enabled |-> e] \in Metadata
      BY ConstantsAssumption DEF Metadata, Cookies
    <2> QED
      BY <2>1 DEF Init, FilesOK, Stopped, Status, Statuses
  <1>2. SystemOK
    <2>1. up \in BOOLEAN
      BY Zenon DEF Init
    <2>2. inbox = <<Message("create"), Intent("boot", None)>> \/ inbox = <<>>
      BY DEF Init
    <2>3. Message("create") \in Messages /\ Intent("boot", None) \in Messages
      BY DEF Message, Intent, Messages, Requests
    <2>4. inbox \in Seq(Messages)
      <3> DEFINE c == Message("create")
                 i == Intent("boot", None)
      <3>1. <<>> \in Seq(Messages) /\ (inbox = <<c, i>> \/ inbox = <<>>)
            /\ c \in Messages /\ i \in Messages
        BY <2>2, <2>3
      <3> HIDE DEF c, i
      <3>2. <<c, i>> \in Seq(Messages)
        BY <3>1
      <3> QED
        BY <3>1, <3>2
    <2> QED
      BY <2>1, <2>4 DEF Init, SystemOK
  <1>3. TaskOK
    BY DEF Init, TaskOK, Idle, Requests
  <1>4. QueueOK /\ CallsOK /\ HoldersOK /\ UserOK /\ KernelsOK
    BY DEF Init, QueueOK, CallsOK, HoldersOK, UserOK, KernelsOK, Held
  <1>5. NothingLeft /\ svc = "none" /\ doomed \subseteq Remotes
    BY DEF Init, NothingLeft, Held
  <1> QED
    BY <1>1, <1>2, <1>3, <1>4, <1>5 DEF TypeOK

\* What is closed stays closed: the user's process, a thread left over and the
\* kernels nobody supervises give the service no work.
LEMMA ClosedKeeps ==
  ASSUME TypeOK, UNCHANGED <<svc, running, queue, task, calls, doomed>>,
         svc = "none" => \A k \in kernels' : k.launcher # "service",
         svc = "none" => news' = news
  PROVE  /\ svc' \in {"none", "up", "destroying"}
         /\ svc' = "none" => NothingLeft'
         /\ doomed' \subseteq Remotes
  BY DEF TypeOK, NothingLeft, Held, calls

\* The user's process writes whole metadata, and statuses.
LEMMA UserTyped ==
  ASSUME TypeOK, UserNext
  PROVE  TypeOK'
  <1> USE DEF service, user, calls, system
  <1>0. UserOK /\ FilesOK /\ SystemOK
    BY DEF TypeOK
  <1>1. UNCHANGED <<kernels, service>>
    BY DEF UserNext, BeginUpdate, OpenForm, SubmitForm, SaveUpdate, Delete, SendForAll
  <1>2. used'.kernels = used.kernels
    BY <1>0, CountTyped
    DEF UserNext, Begins, BeginUpdate, OpenForm, SubmitForm, SaveUpdate, Delete, SendForAll
  <1>3. /\ KernelsOK' /\ QueueOK' /\ TaskOK' /\ CallsOK' /\ HoldersOK'
        /\ svc' \in {"none", "up", "destroying"} /\ (svc' = "none" => NothingLeft')
        /\ doomed' \subseteq Remotes
    <2>1. svc = "none" => \A k \in kernels' : k.launcher # "service"
      BY <1>1 DEF TypeOK, NothingLeft
    <2> QED
      BY <1>1, <1>2, <2>1, Frames, ClosedKeeps
  <1>4. FilesOK' /\ SystemOK' /\ UserOK'
    <2>1. ASSUME NEW r \in Remotes,
                 (\E want \in {"on", "off", "rename", "delete"} : BeginUpdate(r, want)) \/ OpenForm(r)
          PROVE  FilesOK' /\ SystemOK' /\ UserOK'
      <3>1. UNCHANGED <<files, system, unsent, ghosts>> /\ Happens("edits") /\ meta[r] # None
        BY <2>1 DEF BeginUpdate, OpenForm, Begins
      <3>2. ui' \in Operations
        BY <2>1, <1>0 DEF BeginUpdate, OpenForm, Operation, Operations, FilesOK
      <3> QED
        BY <1>0, <3>1, <3>2, Frames, CountTyped DEF UserOK
    <2>2. ASSUME NEW op \in {"reconcile", "stopRemote"}, ui # None, Request(op, ui.r),
                 UNCHANGED <<runtime, service, used>>,
                 meta' \in [Remotes -> Metadata \union {None}], ui' \in Operations \union {None}
          PROVE  FilesOK' /\ SystemOK' /\ UserOK'
      <3>1. ui.r \in Remotes
        BY <1>0, <2>2 DEF UserOK, Operations
      <3>2. CASE Send(Intent(op, ui.r)) /\ UNCHANGED <<status, unsent>>
        <4>1. SystemOK'
          BY <1>0, <2>2, <3>1, <3>2, SentTyped DEF Requests
        <4> QED
          BY <1>0, <2>2, <3>2, <4>1 DEF FilesOK, UserOK
      <3>3. CASE /\ status' = [status EXCEPT ![ui.r] = Failed]
                 /\ unsent' = unsent \union {ui.r}
                 /\ UNCHANGED system
        <4>1. Failed \in Statuses
          BY DEF Failed, Status, Statuses, States
        <4> QED
          BY <1>0, <2>2, <3>1, <3>3, <4>1 DEF FilesOK, UserOK, SystemOK, Statuses, States
      <3> QED
        BY <2>2, <3>2, <3>3 DEF Request
    <2>3. ASSUME NEW login \in 1 .. MaxLogins, NEW port \in 0 .. 1, NEW enabled \in BOOLEAN,
                 SubmitForm(login, port, enabled)
          PROVE  FilesOK' /\ SystemOK' /\ UserOK'
      <3>1. ui \in Operations /\ ui.r \in Remotes /\ ui.snap \in Metadata
        BY <1>0, <2>3 DEF SubmitForm, UserOK, Operations
      <3>2. PICK c \in {ui.snap.cookie, [login |-> login, fresh |-> 0]} :
                meta' = [meta EXCEPT ![ui.r] = [cookie |-> c, port |-> port,
                                                enabled |-> enabled]]
        BY <2>3 DEF SubmitForm
      <3>3. c \in Cookies
        BY <3>1, ConstantsAssumption DEF Cookies, Metadata
      <3>4. meta' \in [Remotes -> Metadata \union {None}]
        BY <1>0, <3>1, <3>2, <3>3, MetadataCopied DEF FilesOK
      <3>5. CASE enabled \/ ui.snap.enabled
        <4>1. PICK op \in {"reconcile", "stopRemote"} : Request(op, ui.r)
          BY <2>3, <3>5 DEF SubmitForm
        <4> QED
          BY <2>2, <2>3, <3>4, <4>1 DEF SubmitForm
      <3>6. CASE ~(enabled \/ ui.snap.enabled)
        BY <1>0, <2>3, <3>4, <3>6 DEF SubmitForm, FilesOK, SystemOK, UserOK
      <3> QED
        BY <3>5, <3>6
    <2>4. CASE SaveUpdate
      <3>1. ui \in Operations /\ ui.r \in Remotes /\ ui.snap \in Metadata
        BY <1>0, <2>4 DEF SaveUpdate, UserOK, Operations
      <3>2. [ui EXCEPT !.at = "delete"] \in Operations
        BY <3>1 DEF Operations
      <3>3. ASSUME NEW e \in BOOLEAN, Switch(e)
            PROVE  /\ meta' \in [Remotes -> Metadata \union {None}]
                   /\ \E op \in {"reconcile", "stopRemote"} : Request(op, ui.r)
        <4>1. [ui.snap EXCEPT !.enabled = e] \in Metadata
          BY <3>1 DEF Metadata
        <4> QED
          BY <1>0, <3>1, <3>3, <4>1 DEF Switch, FilesOK
      <3>4. CASE \E e \in BOOLEAN : Switch(e)
        <4>1. ui' \in Operations \union {None}
          BY <2>4, <3>2 DEF SaveUpdate
        <4> QED
          BY <2>2, <2>4, <3>3, <3>4, <4>1 DEF SaveUpdate
      <3>5. CASE /\ meta' = [meta EXCEPT ![ui.r] = ui.snap] /\ ui' = None
                 /\ unsent' \subseteq unsent \union {ui.r}
                 /\ UNCHANGED <<status, system>>
        BY <1>0, <2>4, <3>1, <3>5 DEF SaveUpdate, FilesOK, SystemOK, UserOK
      <3> QED
        BY <2>4, <3>4, <3>5 DEF SaveUpdate
    <2>5. CASE Delete
      <3>1. ui.r \in Remotes
        BY <1>0, <2>5 DEF Delete, UserOK, Operations
      <3>2. FilesOK'
        BY <1>0, <2>5, <3>1, StatusWritten DEF Delete, FilesOK, Statuses, States
      <3> QED
        BY <1>0, <2>5, <3>2 DEF Delete, SystemOK, UserOK
    <2>6. ASSUME NEW op \in {"reconcile", "boot", "stopAll"}, SendForAll(op)
          PROVE  FilesOK' /\ SystemOK' /\ UserOK'
      <3>1. SystemOK'
        BY <1>0, <2>6, SentTyped DEF SendForAll, Requests
      <3> QED
        BY <1>0, <2>6, <3>1, Frames, CountTyped DEF SendForAll, Begins, UserOK
    <2> QED
      BY <2>1, <2>3, <2>4, <2>5, <2>6 DEF UserNext
  <1> QED
    BY <1>3, <1>4 DEF TypeOK

\* A kernel that changes but for its id, its remote and its launcher.
LEMMA KernelChanged ==
  ASSUME TypeOK, NEW k \in kernels, NEW l \in Kernels, l.id = k.id, l.launcher = k.launcher,
         kernels' = (kernels \ {k}) \union {l}, used'.kernels = used.kernels
  PROVE  KernelsOK' /\ (svc = "none" => \A j \in kernels' : j.launcher # "service")
  BY DEF TypeOK, KernelsOK, NothingLeft

\* The kernels' own steps, and what their threads in the service pass on.
LEMMA KernelsTyped ==
  ASSUME TypeOK, KernelNext
  PROVE  TypeOK'
  <1> USE DEF service, calls
  <1>0. KernelsOK /\ FilesOK /\ QueueOK /\ UserOK /\ svc \in {"none", "up", "destroying"}
    BY DEF TypeOK
  <1>1. PICK k \in kernels : KernelPrints(k) \/ KernelRefreshesCookie(k) \/ KernelExits(k)
    BY DEF KernelNext
  <1>2. k \in Kernels /\ k.r \in Remotes /\ k.id \in Nat /\ (svc = "none" => k.launcher # "service")
    BY <1>0 DEF KernelsOK, Kernels, TypeOK, NothingLeft
  <1>3. UNCHANGED <<svc, task, calls, running, doomed, ghosts, system>>
    BY <1>1 DEF KernelPrints, KernelRefreshesCookie, KernelExits
  <1>4. SystemOK' /\ TaskOK' /\ CallsOK'
    BY <1>3, Frames
  <1>5. CASE KernelPrints(k)
    <2> DEFINE l == [k EXCEPT !.lines = @ + 1]
    <2>1. /\ k.launcher = "service" /\ k.lines < 2 /\ UNCHANGED <<files, news, user, used>>
          /\ kernels' = (kernels \ {k}) \union {l}
          /\ Enqueue(Task(Lines[k.lines + 1], k.r, k.id))
      BY <1>5 DEF KernelPrints, Lines
    <2>2. k.lines \in {0, 1} /\ svc # "none"
      BY <1>2, <2>1 DEF Kernels
    <2>3. l \in Kernels /\ l.id = k.id /\ l.launcher = k.launcher
      BY <1>2, <2>2 DEF Kernels
    <2>4. Lines[k.lines + 1] \in {"pid", "ready"}
      BY <2>2 DEF Lines
    <2> HIDE DEF l
    <2>5. KernelsOK'
      BY <2>1, <2>3, KernelChanged
    <2>6. QueueOK'
      <3>1. Task(Lines[k.lines + 1], k.r, k.id) \in Tasks
        BY <1>2, <2>4, PostedTyped
      <3> QED
        BY <1>0, <2>1, <3>1, EnqueueTyped DEF QueueOK
    <2> QED
      BY <1>3, <1>4, <2>1, <2>2, <2>5, <2>6, Frames DEF TypeOK
  <1>6. CASE KernelRefreshesCookie(k)
    <2> DEFINE c == [k.config.cookie EXCEPT !.fresh = @ + 1]
               l == [k EXCEPT !.config = [@ EXCEPT !.cookie = c]]
    <2>1. c \in Cookies
      BY <1>2, <1>6, ConstantsAssumption DEF KernelRefreshesCookie, Kernels, Configs, Cookies
    <2> HIDE DEF c
    <2>2. l \in Kernels /\ l.id = k.id /\ l.launcher = k.launcher
      BY <1>2, <2>1 DEF Kernels, Configs
    <2>3. /\ kernels' = (kernels \ {k}) \union {l} /\ runtime' = [runtime EXCEPT ![k.r] = c]
          /\ UNCHANGED <<meta, status, user, queue, news>> /\ Happens("refreshes")
      BY <1>6 DEF KernelRefreshesCookie, c
    <2> HIDE DEF l
    <2>4. used'.kernels = used.kernels
      BY <1>0, <2>3, CountTyped
    <2>5. KernelsOK' /\ (svc = "none" => \A j \in kernels' : j.launcher # "service")
      BY <2>2, <2>3, <2>4, KernelChanged
    <2>6. FilesOK'
      BY <1>0, <1>2, <2>1, <2>3 DEF FilesOK
    <2>7. HoldersOK' /\ QueueOK'
      BY <1>3, <2>3, <2>4, Frames
    <2>8. UserOK'
      BY <1>0, <2>3, CountTyped DEF UserOK, user
    <2> QED
      BY <1>3, <1>4, <2>3, <2>5, <2>6, <2>7, <2>8, ClosedKeeps DEF TypeOK
  <1>7. CASE KernelExits(k)
    <2>1. kernels' \subseteq kernels /\ UNCHANGED <<files, queue, user, used>>
      BY <1>7 DEF KernelExits
    <2>2. news' \subseteq Tasks
      BY <1>0, <1>2, <1>7, ExitsTyped DEF KernelExits, QueueOK
    <2>3. svc = "none" => news' = news
      BY <1>2, <1>7 DEF KernelExits, Exits
    <2>4. svc = "none" => \A j \in kernels' : j.launcher # "service"
      BY <2>1 DEF TypeOK, NothingLeft
    <2>5. FilesOK' /\ HoldersOK' /\ UserOK' /\ KernelsOK'
      BY <1>3, <2>1, Frames
    <2>6. QueueOK'
      BY <1>0, <2>1, <2>2 DEF QueueOK
    <2> QED
      BY <1>3, <1>4, <2>1, <2>3, <2>4, <2>5, <2>6, ClosedKeeps DEF TypeOK
  <1> QED
    BY <1>1, <1>5, <1>6, <1>7

\* stopProcess: the status or the kernel, and the holder is gone (CallStop).
LEMMA CallStopTyped ==
  ASSUME TypeOK, NEW t \in {"supervisor", "main"}, NEW r \in Remotes, NEW sync \in BOOLEAN,
         CallStop(t, r, sync), UNCHANGED <<meta, runtime, start, queue, used>>
  PROVE  FilesOK' /\ KernelsOK' /\ QueueOK' /\ CallsOK' /\ HoldersOK'
  <1>0. KernelsOK /\ FilesOK /\ QueueOK /\ CallsOK /\ HoldersOK
    BY DEF TypeOK
  <1>1. CASE running[r] = None
    <2>1. UNCHANGED <<running, kernels, news, stop>> /\ status' = [status EXCEPT ![r] = Stopped]
      BY <1>1 DEF CallStop
    <2>2. FilesOK'
      BY <1>0, <2>1, StatusWritten DEF FilesOK, Statuses, States
    <2> QED
      BY <2>1, <2>2, Frames DEF calls
  <1>2. CASE running[r] # None
    <2>1. /\ running' = [running EXCEPT ![r] = None]
          /\ stop' = [stop EXCEPT ![t] = [r |-> r, sync |-> sync]]
          /\ status' = status
      BY <1>2 DEF CallStop
    <2>2. PICK dead \in SUBSET kernels : kernels' = kernels \ dead
                                         /\ news' = news \union Exits(dead)
      BY <1>2 DEF CallStop
    <2>3. Exits(dead) \subseteq Tasks
      BY <1>0, ExitsTyped DEF KernelsOK
    <2>4. FilesOK' /\ KernelsOK' /\ QueueOK'
      BY <1>0, <2>1, <2>2, <2>3 DEF FilesOK, KernelsOK, QueueOK
    <2>5. CallsOK'
      BY <1>0, <2>1 DEF CallsOK, Stops
    <2>6. HoldersOK'
      BY <1>0, <2>1 DEF HoldersOK, Held
    <2> QED
      BY <2>4, <2>5, <2>6
  <1> QED
    BY <1>1, <1>2

\* A supervisor at work belongs to a service.
LEMMA Working ==
  ASSUME TypeOK, task # Idle \/ queue # <<>> \/ news # {} \/ start # None
                 \/ stop["supervisor"] # None \/ stop["main"] # None \/ doomed # {} \/ Held # {}
  PROVE  svc # "none"
  BY DEF TypeOK, NothingLeft

\* A step that moves the task, and may write metadata.
LEMMA TaskOnlyTyped ==
  ASSUME TypeOK, task # Idle, TaskOnly, TaskOK',
         meta' \in [Remotes -> Metadata \union {None}]
  PROVE  TypeOK'
  <1>1. svc # "none"
    BY Working
  <1>2. FilesOK'
    BY DEF FilesOK, TypeOK, TaskOnly
  <1> QED
    BY <1>1, <1>2, Frames DEF TypeOK, TaskOnly, system, calls, user

\* The task the supervisor takes from its queue, and what it keeps of it.
LEMMA TaskTaken ==
  ASSUME TypeOK, Take
  PROVE  TaskOK'
  <1>1. queue \in Seq(Tasks) /\ queue # <<>>
    BY DEF TypeOK, QueueOK, Take
  <1> DEFINE t == Head(queue)
  <1>2. t \in Tasks
    BY <1>1
  <1>3. PICK todo \in SUBSET Remotes :
            task' = [op |-> t.op, r |-> t.r, id |-> t.id, todo |-> todo,
                     at |-> IF t.op = "boot" THEN "reconcile" ELSE t.op, seen |-> None]
    BY DEF Take, Held
  <1> HIDE DEF t
  <1>4. /\ t.op \in Requests \union {"pid", "ready", "exit", "retry", "beat"}
        /\ t.id \in Nat
        /\ t.op \in {"pid", "ready", "exit", "retry"} => t.r \in Remotes
    BY <1>2 DEF Tasks, Requests
  <1> QED
    BY <1>3, <1>4 DEF TaskOK, Requests

\* The requests of the user: STOP_REMOTE, STOP_ALL and RECONCILE.
LEMMA RequestsTyped ==
  ASSUME TypeOK, ReadToDisable \/ SaveDisabled \/ Look \/ StopNext \/ Reload \/ StartNext
  PROVE  TypeOK'
  <1>0. TaskOK /\ FilesOK /\ CallsOK /\ HoldersOK
    BY DEF TypeOK
  <1>1. task # Idle
    BY DEF ReadToDisable, SaveDisabled, Look, StopNext, Reload, StartNext, At, Idle
  <1>2. svc # "none"
    BY <1>1, Working
  <1>3. CASE ReadToDisable
    <2>1. PICK todo \in SUBSET {r \in Remotes : meta[r] # None} :
              task' = [task EXCEPT !.at = "disable", !.seen = meta, !.todo = todo]
      BY <1>3 DEF ReadToDisable, Enabled
    <2>2. \A r \in todo : meta[r] \in Metadata
      BY <1>0 DEF FilesOK
    <2>3. TaskOK'
      BY <1>0, <2>1, <2>2 DEF TaskOK, Requests
    <2> QED
      BY <1>0, <1>1, <1>3, <2>3, TaskOnlyTyped DEF ReadToDisable, FilesOK
  <1>4. CASE SaveDisabled
    <2>1. CASE task.todo = {} /\ meta' = meta /\ task' = [task EXCEPT !.at = "reconcile"]
      <3>1. TaskOK'
        BY <1>0, <2>1 DEF TaskOK, Requests
      <3> QED
        BY <1>0, <1>1, <1>4, <2>1, <3>1, TaskOnlyTyped DEF SaveDisabled, FilesOK
    <2>2. ASSUME NEW r \in task.todo,
                 meta' = [meta EXCEPT ![r] = [task.seen[r] EXCEPT !.enabled = FALSE]],
                 task' = [task EXCEPT !.todo = @ \ {r}]
          PROVE  TypeOK'
      <3>1. task.seen[r] \in Metadata /\ r \in Remotes /\ task.at = "disable"
        BY <1>0, <1>4 DEF TaskOK, SaveDisabled, At
      <3>2. [task.seen[r] EXCEPT !.enabled = FALSE] \in Metadata
        BY <3>1 DEF Metadata
      <3>3. TaskOK'
        BY <1>0, <2>2, <3>1 DEF TaskOK, Requests
      <3> QED
        BY <1>0, <1>1, <1>4, <2>2, <3>1, <3>2, <3>3, TaskOnlyTyped DEF SaveDisabled, FilesOK
    <2> QED
      BY <1>4, <2>1, <2>2 DEF SaveDisabled
  <1>5. CASE Look
    <2> DEFINE mis == Mismatched(task.op)
               sync(r) == r \notin Wanted(task.op) \/ meta[r].cookie = running[r].config.cookie
    <2>1. mis \subseteq Remotes
      BY DEF Mismatched, Held
    <2>2. task' = [task EXCEPT !.at = "stop", !.todo = mis, !.seen = [r \in mis |-> sync(r)]]
      BY <1>5 DEF Look
    <2>3. \A r \in mis : [q \in mis |-> sync(q)][r] \in BOOLEAN
      BY Zenon
    <2> HIDE DEF mis, sync
    <2>4. TaskOK'
      BY <1>0, <2>1, <2>2, <2>3 DEF TaskOK, Requests
    <2> QED
      BY <1>0, <1>1, <1>5, <2>4, TaskOnlyTyped DEF Look, FilesOK
  <1>6. CASE StopNext
    <2>1. PICK r \in task.todo : /\ CallStop("supervisor", r, task.seen[r])
                                 /\ task' = [task EXCEPT !.todo = @ \ {r}]
      BY <1>6 DEF StopNext
    <2>2. r \in Remotes /\ task.seen[r] \in BOOLEAN /\ task.at = "stop"
      BY <1>0, <1>6 DEF TaskOK, StopNext, At
    <2>3. TaskOK'
      BY <1>0, <2>1, <2>2 DEF TaskOK, Requests
    <2>4. FilesOK' /\ KernelsOK' /\ QueueOK' /\ CallsOK' /\ HoldersOK'
      BY <1>6, <2>1, <2>2, CallStopTyped DEF StopNext
    <2> QED
      BY <1>2, <1>6, <2>3, <2>4, Frames DEF StopNext, TypeOK, user, system
  <1>7. CASE Reload
    <2> DEFINE want == Wanted(task.op)
    <2>1. want \subseteq Remotes /\ \A r \in want : meta[r] \in Metadata
      BY <1>0 DEF Wanted, Enabled, FilesOK
    <2>2. task' = [task EXCEPT !.at = "start", !.todo = want, !.seen = [r \in want |-> meta[r]]]
      BY <1>7 DEF Reload
    <2> HIDE DEF want
    <2>3. TaskOK'
      BY <1>0, <2>1, <2>2 DEF TaskOK, Requests
    <2> QED
      BY <1>0, <1>1, <1>7, <2>3, TaskOnlyTyped DEF Reload, FilesOK
  <1>8. CASE StartNext
    <2>1. PICK r \in task.todo :
              /\ task' = [task EXCEPT !.todo = @ \ {r}]
              /\ start' \in {[at |-> "stale", r |-> r, m |-> task.seen[r]], None}
      BY <1>8 DEF StartNext
    <2>2. r \in Remotes /\ task.seen[r] \in Metadata /\ task.at = "start"
      BY <1>0, <1>8, <2>1 DEF TaskOK, StartNext, At
    <2>3. TaskOK'
      BY <1>0, <2>1, <2>2 DEF TaskOK, Requests
    <2>4. CallsOK'
      BY <1>0, <1>8, <2>1, <2>2 DEF CallsOK, Starts, StartNext
    <2> QED
      BY <1>2, <1>8, <2>3, <2>4, Frames DEF StartNext, TypeOK
  <1> QED
    BY <1>3, <1>4, <1>5, <1>6, <1>7, <1>8

\* A status written for one remote.
LEMMA OneStatus ==
  ASSUME FilesOK, NEW r \in Remotes, NEW s \in Statuses,
         UNCHANGED <<meta, runtime>>, status' = [status EXCEPT ![r] = s]
  PROVE  FilesOK'
  BY DEF FilesOK, Statuses, States

\* What a kernel supervised is known by.
LEMMA HolderTyped ==
  ASSUME TypeOK, NEW r \in Remotes, running[r] # None
  PROVE  /\ running[r] \in Holders /\ running[r].config \in Configs
         /\ running[r].config.cookie \in Cookies
         /\ ShownRunning(r) \in Statuses /\ ShownRunning(r).state = "RUNNING"
  <1>1. running[r] \in Holders
    BY DEF TypeOK, HoldersOK
  <1>2. running[r].config \in Configs /\ running[r].config.cookie \in Cookies
    BY <1>1 DEF Holders, Configs
  <1> QED
    BY <1>1, <1>2, StatusWritten DEF ShownRunning, States

\* The tail of a reconcile, and a kernel that says it is ready or exits.
LEMMA ReportsTyped ==
  ASSUME TypeOK, \/ EndReconcile \/ PidSeen \/ PidWritten \/ ReadySeen \/ ReadyAnnounced \/ ExitSeen \/ ExitSyncs
                 \/ ExitReports \/ ExitEnds \/ Retry
  PROVE  TypeOK'
  <1>0. TaskOK /\ FilesOK /\ CallsOK /\ HoldersOK /\ QueueOK /\ SystemOK
    BY DEF TypeOK
  <1>1. task # Idle
    BY DEF EndReconcile, PidSeen, PidWritten, ReadySeen, ReadyAnnounced, ExitSeen, ExitSyncs, ExitReports,
           ExitEnds, Retry, At, Idle
  <1>2. svc # "none"
    BY <1>1, Working
  <1>3. Idle = [op |-> Idle.op, r |-> Idle.r, id |-> Idle.id, at |-> Idle.at,
                todo |-> Idle.todo, seen |-> Idle.seen]
        /\ (task' = Idle => TaskOK')
    BY DEF Idle, TaskOK, Requests
  <1>4. StopSelf \/ UNCHANGED system => (ghosts' = ghosts => SystemOK')
    <2>1. "boot" \in Requests
      BY DEF Requests
    <2> QED
      BY <1>0, <2>1, SentTyped, Frames
  <1>5. CASE EndReconcile
    <2>1. \A r \in Remotes : (IF Alive(r) /\ running[r].ready
                              THEN ShownRunning(r) ELSE status[r]) \in Statuses
      BY <1>0, HolderTyped DEF Alive, Held, FilesOK, Statuses, States
    <2>2. FilesOK'
      BY <1>0, <1>5, <2>1 DEF EndReconcile, FilesOK, Statuses, States
    <2> QED
      BY <1>2, <1>3, <1>4, <1>5, <2>2, Frames DEF EndReconcile, TypeOK, user
  <1>6. CASE ReadySeen
    <2>1. CASE task' = Idle /\ running' = running
      BY <1>2, <1>3, <1>6, <2>1, Frames DEF ReadySeen, TypeOK, user
    <2>2. CASE /\ Supervised(task)
               /\ task' = [task EXCEPT !.at = "announce", !.seen = running[task.r].config.cookie]
               /\ running' = [running EXCEPT ![task.r].ready = TRUE]
      <3>1. task.r \in Remotes /\ running[task.r] # None
        BY <1>0, <1>6, <2>2 DEF TaskOK, ReadySeen, At, Supervised
      <3>2. running[task.r] \in Holders /\ running[task.r].config.cookie \in Cookies
        BY <3>1, HolderTyped
      <3>3. TaskOK'
        BY <1>0, <2>2, <3>1, <3>2 DEF TaskOK, Requests
      <3> DEFINE h == [running[task.r] EXCEPT !.ready = TRUE]
      <3>4. h \in Holders /\ h.id = running[task.r].id /\ used' = used
        BY <1>6, <3>2 DEF Holders, ReadySeen
      <3>5. running' = [running EXCEPT ![task.r] = h]
        BY <2>2
      <3> HIDE DEF h
      <3>6. HoldersOK'
        BY <1>0, <3>1, <3>4, <3>5 DEF HoldersOK, Held
      <3> QED
        BY <1>2, <1>6, <3>3, <3>6, Frames DEF ReadySeen, TypeOK, user
    <2> QED
      BY <1>6, <2>1, <2>2 DEF ReadySeen
  <1>7. CASE ReadyAnnounced
    <2>1. task.r \in Remotes /\ task.seen \in Cookies
      BY <1>0, <1>7 DEF TaskOK, ReadyAnnounced, At
    <2>2. Status("RUNNING", task.seen) \in Statuses
      BY <2>1, StatusWritten DEF States
    <2>3. FilesOK'
      BY <1>0, <1>7, <2>1, <2>2, OneStatus DEF ReadyAnnounced
    <2> QED
      BY <1>2, <1>3, <1>7, <2>3, Frames DEF ReadyAnnounced, TypeOK, user
  <1>8. CASE ExitSeen
    <2>1. CASE task' = Idle /\ running' = running
      BY <1>2, <1>3, <1>8, <2>1, Frames DEF ExitSeen, TypeOK, user
    <2>2. ASSUME NEW at \in {"exitSync", "exitReport"}, task' = [task EXCEPT !.at = at],
                 running' = [running EXCEPT ![task.r] = None]
          PROVE  TypeOK'
      <3>1. task.r \in Remotes
        BY <1>0, <1>8 DEF TaskOK, ExitSeen, At
      <3>2. TaskOK'
        BY <1>0, <2>2, <3>1 DEF TaskOK, Requests
      <3>3. HoldersOK'
        BY <1>0, <1>8, <2>2, <3>1 DEF HoldersOK, Held, ExitSeen
      <3> QED
        BY <1>2, <1>8, <3>2, <3>3, Frames DEF ExitSeen, TypeOK, user
    <2> QED
      BY <1>8, <2>1, <2>2 DEF ExitSeen
  <1>9. CASE ExitSyncs
    <2>1. task.r \in Remotes /\ task' = [task EXCEPT !.at = "exitReport"]
      BY <1>0, <1>9 DEF TaskOK, ExitSyncs, At
    <2>2. TaskOK'
      BY <1>0, <2>1 DEF TaskOK, Requests
    <2> QED
      BY <1>0, <1>1, <1>9, <2>1, <2>2, SyncTyped, TaskOnlyTyped DEF ExitSyncs
  <1>10. CASE ExitReports
    <2>1. task.r \in Remotes /\ task.id \in Nat /\ task' = [task EXCEPT !.at = "exitEnd"]
      BY <1>0, <1>10 DEF TaskOK, ExitReports, At
    <2>2. TaskOK'
      BY <1>0, <2>1 DEF TaskOK, Requests
    <2>3. PICK s \in {Failed, Stopped} : status' = [status EXCEPT ![task.r] = s]
      BY <1>10 DEF ExitReports
    <2>4. s \in Statuses
      BY StatusWritten DEF States
    <2>5. FilesOK'
      BY <1>0, <1>10, <2>1, <2>3, <2>4, OneStatus DEF ExitReports
    <2>6. QueueOK'
      BY <1>0, <1>10, <2>1, PostedTyped DEF ExitReports, QueueOK
    <2> QED
      BY <1>2, <1>10, <2>2, <2>5, <2>6, Frames DEF ExitReports, TypeOK, user
  <1>11. CASE ExitEnds
    BY <1>2, <1>3, <1>4, <1>11, Frames DEF ExitEnds, TypeOK, user
  <1>12. CASE Retry
    <2>1. task.r \in Remotes
      BY <1>0, <1>12 DEF TaskOK, Retry, At
    <2>2. Enabled(task.r) => meta[task.r] \in Metadata
      BY <1>0, <2>1 DEF Enabled, FilesOK
    <2>3. CallsOK'
      BY <1>0, <1>12, <2>1, <2>2 DEF CallsOK, Starts, Retry
    <2> QED
      BY <1>2, <1>3, <1>12, <2>3, Frames DEF Retry, TypeOK
  <1>13. CASE PidSeen
    <2>1. task.r \in Remotes /\ status[task.r] \in Statuses
      BY <1>0, <1>13 DEF TaskOK, FilesOK, PidSeen, At
    <2>2. TaskOK'
      <3>1. CASE task' = Idle
        BY <1>3, <3>1
      <3>2. CASE task' = [task EXCEPT !.at = "pidWrite", !.seen = status[task.r]]
        BY <1>0, <2>1, <3>2 DEF TaskOK, Requests
      <3> QED
        BY <1>13, <3>1, <3>2 DEF PidSeen
    <2>3. meta' \in [Remotes -> Metadata \union {None}]
      BY <1>0, <1>13 DEF PidSeen, FilesOK
    <2> QED
      BY <1>1, <1>13, <2>2, <2>3, TaskOnlyTyped DEF PidSeen
  <1>14. CASE PidWritten
    <2>1. task.r \in Remotes /\ task.seen \in Statuses
      BY <1>0, <1>14 DEF TaskOK, PidWritten, At
    <2>2. FilesOK'
      BY <1>0, <1>14, <2>1, OneStatus DEF PidWritten
    <2> QED
      BY <1>2, <1>3, <1>14, <2>2, Frames DEF PidWritten, TypeOK, user
  <1> QED
    BY <1>5, <1>6, <1>7, <1>8, <1>9, <1>10, <1>11, <1>12, <1>13, <1>14

\* The heartbeat.
LEMMA BeatsTyped ==
  ASSUME TypeOK, BeatNext \/ BeatSyncs \/ BeatReads
  PROVE  TypeOK'
  <1>0. TaskOK /\ FilesOK /\ HoldersOK
    BY DEF TypeOK
  <1>1. task # Idle
    <2>1. task.at \in {"beat", "beatSync", "beatRead"}
      <3>1. CASE BeatReads
        BY Zenon, <3>1 DEF BeatReads, At
      <3> QED
        BY <3>1 DEF BeatNext, BeatSyncs, At
    <2> QED
      BY <2>1 DEF Idle
  <1>2. svc # "none"
    BY <1>1, Working
  <1>3. CASE BeatNext
    <2>1. CASE task' = Idle /\ status' = status
      <3>1. TaskOK'
        BY <2>1 DEF Idle, TaskOK, Requests
      <3> QED
        BY <1>2, <1>3, <2>1, <3>1, Frames DEF BeatNext, TypeOK, user, files
    <2>2. ASSUME NEW r \in task.todo,
                 \/ task' = [task EXCEPT !.r = r, !.at = "beatSync"]
                 \/ task' = [task EXCEPT !.todo = @ \ {r}],
                 \/ status' = status
                 \/ Alive(r) /\ status' = [status EXCEPT ![r] = ShownRunning(r)]
          PROVE  TypeOK'
      <3>1. r \in Remotes /\ task.at = "beat"
        BY <1>0, <1>3 DEF TaskOK, BeatNext, At
      <3>2. TaskOK'
        BY <1>0, <2>2, <3>1 DEF TaskOK, Requests
      <3>3. FilesOK'
        <4>1. CASE status' = status
          BY <1>3, <4>1, Frames DEF BeatNext, files
        <4>2. CASE Alive(r) /\ status' = [status EXCEPT ![r] = ShownRunning(r)]
          BY <1>0, <1>3, <3>1, <4>2, HolderTyped, OneStatus DEF BeatNext, Alive, Held
        <4> QED
          BY <2>2, <4>1, <4>2
      <3> QED
        BY <1>2, <1>3, <3>2, <3>3, Frames DEF BeatNext, TypeOK, user
    <2> QED
      BY <1>3, <2>1, <2>2 DEF BeatNext
  <1>4. CASE BeatSyncs
    <2>1. task.r \in Remotes /\ task' = [task EXCEPT !.at = "beatRead"]
      BY <1>0, <1>4 DEF TaskOK, BeatSyncs, At
    <2>2. TaskOK'
      BY <1>0, <2>1 DEF TaskOK, Requests
    <2> QED
      BY <1>0, <1>1, <1>4, <2>1, <2>2, SyncTyped, TaskOnlyTyped DEF BeatSyncs
  <1>5. CASE BeatReads
    <2>1. task.r \in Remotes /\ task.at = "beatRead"
          /\ task' = [task EXCEPT !.todo = @ \ {task.r}, !.at = "beat"]
      BY <1>0, <1>5 DEF TaskOK, BeatReads, At
    <2>2. TaskOK'
      BY <1>0, <2>1 DEF TaskOK, Requests
    <2> DEFINE read ==
            IF meta[task.r] = None \/ running[task.r] = None THEN running[task.r]
            ELSE [running[task.r] EXCEPT !.config = Config(meta[task.r]),
                     !.adopted = @ \/ meta[task.r].port # running[task.r].config.port
                                   \/ meta[task.r].cookie.login # running[task.r].config.cookie.login]
    <2>3. /\ running' = [running EXCEPT ![task.r] = read]
          /\ status' = [status EXCEPT ![task.r] =
                            IF read = None THEN Status("RUNNING", None)
                            ELSE Status("RUNNING", read.config.cookie)]
      BY Zenon, <1>5 DEF BeatReads
    <2>4. /\ read \in Holders \union {None}
          /\ read # None => running[task.r] # None /\ read.id = running[task.r].id
      <3>1. CASE meta[task.r] = None \/ running[task.r] = None
        BY <1>0, <2>1, <3>1 DEF HoldersOK
      <3>2. CASE ~(meta[task.r] = None \/ running[task.r] = None)
        <4>1. PICK a : read = [running[task.r] EXCEPT !.config = Config(meta[task.r]),
                                                      !.adopted = @ \/ a]
          BY Zenon, <3>2
        <4>2. running[task.r] \in Holders /\ meta[task.r] \in Metadata
          BY <1>0, <2>1, <3>2 DEF HoldersOK, FilesOK
        <4>3. Config(meta[task.r]) \in Configs
          BY <4>2 DEF Config, Configs, Metadata
        <4>4. (running[task.r].adopted \/ a) \in BOOLEAN
          BY Zenon
        <4> QED
          BY <3>2, <4>1, <4>2, <4>3, <4>4 DEF Holders
      <3> QED
        BY <3>1, <3>2
    <2> HIDE DEF read
    <2>5. HoldersOK'
      BY <1>0, <1>5, <2>1, <2>3, <2>4 DEF HoldersOK, Held, BeatReads
    <2>6. PICK c \in Cookies \union {None} :
              status' = [status EXCEPT ![task.r] = Status("RUNNING", c)]
      BY <2>3, <2>4 DEF Holders, Configs
    <2>7. FilesOK'
      BY ZenonT(40), <1>0, <1>5, <2>1, <2>6, StatusWritten, OneStatus DEF BeatReads, States
    <2> QED
      BY <1>2, <1>5, <2>2, <2>5, <2>7, Frames DEF BeatReads, TypeOK, user
  <1> QED
    BY <1>3, <1>4, <1>5

\* A stopProcess that returns (StopEnds).
LEMMA StopEndsTyped ==
  ASSUME TypeOK, NEW t \in {"supervisor", "main"}, StopEnds(t)
  PROVE  TypeOK'
  <1>0. FilesOK /\ CallsOK
    BY DEF TypeOK
  <1>1. stop[t] # None /\ svc # "none"
    BY Working DEF StopEnds
  <1>2. stop[t].r \in Remotes
    BY <1>0, <1>1 DEF CallsOK, Stops
  <1>3. meta' \in [Remotes -> Metadata \union {None}]
    BY <1>0, <1>2, SyncTyped DEF StopEnds, FilesOK
  <1>4. FilesOK'
    BY <1>0, <1>2, <1>3, StatusWritten DEF StopEnds, FilesOK, Statuses, States
  <1>5. CallsOK'
    BY <1>0 DEF StopEnds, CallsOK
  <1> QED
    BY <1>1, <1>4, <1>5, Frames DEF StopEnds, TypeOK, user

\* startProcess, step by step.
LEMMA CallsTyped ==
  ASSUME TypeOK, CallNext
  PROVE  TypeOK'
  <1>0. FilesOK /\ CallsOK /\ KernelsOK /\ HoldersOK /\ QueueOK /\ UserOK
    BY DEF TypeOK
  <1>1. CASE StopEnds("supervisor")
    BY <1>1, StopEndsTyped
  <1>2. ASSUME start # None
        PROVE  start \in Starts /\ start.r \in Remotes /\ start.m \in Metadata /\ svc # "none"
    BY <1>0, <1>2, Working DEF CallsOK, Starts
  <1>3. CASE TerminateStale
    <2>1. start # None
      BY <1>3 DEF TerminateStale
    <2> DEFINE Survivor(k) == [k EXCEPT !.stale = TRUE]
    <2>2. PICK dead \in SUBSET Stale(start.r) :
              /\ kernels' = (kernels \ Stale(start.r))
                            \union {Survivor(k) : k \in Stale(start.r) \ dead}
              /\ news' = news \union Exits(dead)
      BY <1>3 DEF TerminateStale
    <2>3. /\ UNCHANGED <<runtime, status, system, svc, queue, task, stop, running, doomed,
                         ghosts, user, used>>
          /\ start' = [start EXCEPT !.at = "config"]
          /\ \/ meta' = SyncRuntimeCookie(start.r)
             \/ meta' = meta
      BY <1>3 DEF TerminateStale
    <2>4. Stale(start.r) \subseteq kernels
      BY DEF Stale
    <2>5. \A k \in kernels : /\ Survivor(k) \in Kernels /\ Survivor(k).id = k.id
                             /\ Survivor(k).launcher = k.launcher
      BY <1>0 DEF KernelsOK, Kernels
    <2> HIDE DEF Survivor
    <2>6. KernelsOK'
      BY <1>0, <2>2, <2>3, <2>4, <2>5 DEF KernelsOK
    <2>7. QueueOK'
      BY <1>0, <2>2, <2>3, <2>4, ExitsTyped DEF KernelsOK, QueueOK
    <2>8. FilesOK'
      BY <1>0, <1>2, <2>1, <2>3, SyncTyped DEF FilesOK
    <2>9. CallsOK'
      BY <1>0, <1>2, <2>1, <2>3 DEF CallsOK, Starts
    <2> QED
      BY <1>2, <2>1, <2>3, <2>6, <2>7, <2>8, <2>9, Frames DEF TypeOK
  <1>4. CASE ReadConfig \/ WriteConfig
    <2>1. start # None /\ CallOnly
      BY <1>4 DEF ReadConfig, WriteConfig
    <2>2. CASE ReadConfig
      <3>1. PICK m \in Metadata : start' = [start EXCEPT !.at = "write", !.m = m]
        BY <1>0, <1>2, <2>1, <2>2 DEF ReadConfig, FilesOK
      <3>2. CallsOK' /\ FilesOK'
        BY <1>0, <1>2, <2>1, <2>2, <3>1 DEF ReadConfig, CallOnly, CallsOK, FilesOK, Starts
      <3> QED
        BY <1>2, <2>1, <3>2, Frames DEF CallOnly, TypeOK
    <2>3. CASE WriteConfig
      <3>1. start.m.cookie \in Cookies
        BY <1>2, <2>1 DEF Metadata
      <3>2. FilesOK'
        BY <1>0, <1>2, <2>1, <2>3, <3>1 DEF WriteConfig, CallOnly, FilesOK
      <3>3. CallsOK'
        BY <1>0, <1>2, <2>1, <2>3 DEF WriteConfig, CallOnly, CallsOK, Starts
      <3> QED
        BY <1>2, <2>1, <3>2, <3>3, Frames DEF CallOnly, TypeOK
    <2> QED
      BY <1>4, <2>2, <2>3
  <1>5. CASE Launch
    <2>1. start # None
      BY <1>5 DEF Launch
    <2> DEFINE k == NewKernel(start.r, start.m, "service")
               h == [id |-> k.id, config |-> k.config, ready |-> FALSE, adopted |-> FALSE]
    <2>2. /\ kernels' = kernels \union {k} /\ running' = [running EXCEPT ![start.r] = h]
          /\ status' = [status EXCEPT ![start.r] = Status("STARTING", start.m.cookie)]
          /\ start' = None
      BY <1>5 DEF Launch
    <2>3. /\ used'.kernels = used.kernels + 1 /\ used.kernels \in Nat
          /\ used' \in [edits : Nat, refreshes : Nat, crashes : Nat, kernels : Nat]
      BY <1>0, <1>5, CountTyped DEF Launch, UserOK
    <2>4. Config(start.m) \in Configs /\ start.m.cookie \in Cookies
      BY <1>2, <2>1, MetadataCopied DEF Metadata
    <2>5. k \in Kernels /\ h \in Holders /\ k.id = used.kernels + 1 /\ h.id = used.kernels + 1
      BY <1>2, <2>1, <2>3, <2>4 DEF NewKernel, Kernels, Holders
    <2> HIDE DEF k, h
    <2>6. KernelsOK'
      BY <1>0, <2>2, <2>3, <2>5 DEF KernelsOK, Kernels
    <2>7. HoldersOK'
      BY <1>0, <1>2, <2>1, <2>2, <2>3, <2>5 DEF HoldersOK, Held, Holders
    <2>8. FilesOK'
      BY <1>0, <1>2, <1>5, <2>1, <2>2, <2>4, StatusWritten, OneStatus DEF Launch, States
    <2>9. CallsOK'
      BY <1>0, <1>5, <2>2 DEF CallsOK, Launch
    <2>10. UserOK'
      BY <1>0, <1>5, <2>3 DEF UserOK, Launch, user
    <2> QED
      BY <1>2, <1>5, <2>1, <2>6, <2>7, <2>8, <2>9, <2>10, Frames DEF Launch, TypeOK
  <1>6. CASE StartFails
    <2>1. start # None
      BY <1>6 DEF StartFails
    <2>2. FilesOK'
      BY <1>0, <1>2, <1>6, <2>1, StatusWritten, OneStatus DEF StartFails, States
    <2>3. CallsOK'
      BY <1>0, <1>6 DEF CallsOK, StartFails
    <2> QED
      BY <1>2, <1>6, <2>1, <2>2, <2>3, Frames DEF StartFails, TypeOK
  <1> QED
    BY <1>1, <1>3, <1>4, <1>5, <1>6 DEF CallNext

\* The supervisor's queue, filled by the other threads and by the timers, and
\* emptied by the supervisor.
LEMMA QueueTyped ==
  ASSUME TypeOK, PostNext \/ Beat \/ Take
  PROVE  TypeOK'
  <1>0. QueueOK
    BY DEF TypeOK
  <1>1. svc # "none"
    BY Working DEF PostNext, Beat, Take
  <1>2. ASSUME NEW n \in news, Post(n)
        PROVE  TypeOK'
    <2>1. QueueOK'
      <3>1. n \in Tasks
        BY <1>0 DEF QueueOK
      <3> QED
        BY <1>0, <1>2, <3>1, EnqueueTyped DEF QueueOK, Post
    <2> QED
      BY <1>1, <1>2, <2>1, Frames DEF Post, TypeOK
  <1>3. CASE Beat
    <2>1. Task("beat", None, 0) \in Tasks
      BY DEF Task, Tasks
    <2>2. QueueOK'
      BY <1>0, <1>3, <2>1, EnqueueTyped DEF QueueOK, Beat
    <2> QED
      BY <1>1, <1>3, <2>2, Frames DEF Beat, TypeOK
  <1>4. CASE Take
    <2>1. QueueOK'
      BY <1>0, <1>4 DEF QueueOK, Take
    <2> QED
      BY <1>1, <1>4, <2>1, TaskTaken, Frames DEF Take, TypeOK
  <1> QED
    BY <1>2, <1>3, <1>4 DEF PostNext

\* The service object is gone, and every thread of it (Abandoned).
LEMMA AbandonedTyped ==
  ASSUME TypeOK, Abandoned, used'.kernels = used.kernels
  PROVE  /\ KernelsOK' /\ QueueOK' /\ TaskOK' /\ CallsOK' /\ HoldersOK'
         /\ svc' = "none" /\ NothingLeft' /\ doomed' = {}
  <1> DEFINE Left(k) == [k EXCEPT !.launcher = IF @ = "service" THEN "past" ELSE @]
  <1>0. KernelsOK /\ CallsOK
    BY DEF TypeOK
  <1>1. kernels' = {Left(k) : k \in kernels}
    BY DEF Abandoned
  <1>2. \A k \in kernels : /\ Left(k) \in Kernels /\ Left(k).id = k.id
                           /\ Left(k).launcher # "service"
    BY <1>0 DEF KernelsOK, Kernels
  <1> HIDE DEF Left
  <1>3. KernelsOK' /\ \A k \in kernels' : k.launcher # "service"
    BY <1>0, <1>1, <1>2 DEF KernelsOK
  <1>4. TaskOK'
    BY DEF Abandoned, Idle, TaskOK, Requests
  <1>5. QueueOK' /\ HoldersOK' /\ Held' = {}
    BY DEF Abandoned, QueueOK, HoldersOK, Held
  <1>6. stop' = [t \in {"supervisor", "main"} |-> None] /\ CallsOK'
    BY <1>0 DEF Abandoned, CallsOK
  <1>7. NothingLeft'
    BY <1>3, <1>5, <1>6 DEF Abandoned, NothingLeft
  <1> QED
    BY <1>3, <1>4, <1>5, <1>6, <1>7 DEF Abandoned

\* The main thread of the service process.
LEMMA MainTyped ==
  ASSUME TypeOK, MainNext
  PROVE  TypeOK'
  <1>0. SystemOK /\ QueueOK /\ UserOK /\ svc \in {"none", "up", "destroying"}
        /\ doomed \subseteq Remotes
    BY DEF TypeOK
  <1>1. ASSUME NEW m, Receives(m), ghosts' = ghosts
        PROVE  SystemOK'
    BY <1>0, <1>1 DEF SystemOK, Receives
  <1>2. CASE Create
    <2>1. SystemOK'
      BY <1>1, <1>2 DEF Create
    <2> QED
      BY <1>0, <1>2, <2>1, Frames DEF Create, TypeOK
  <1>3. CASE OnStartCommand
    <2>1. SystemOK' /\ svc # "none"
      BY <1>1, <1>3 DEF OnStartCommand
    <2>2. Head(inbox) \in Messages /\ Head(inbox).msg = "start"
      BY <1>0, <1>3 DEF OnStartCommand, Receives, SystemOK
    <2>3. Task(Head(inbox).op, Head(inbox).r, 0) \in Tasks
      BY <2>2 DEF Task, Tasks, Messages
    <2>4. QueueOK'
      BY <1>0, <1>3, <2>3, EnqueueTyped DEF OnStartCommand, QueueOK
    <2> QED
      BY <1>3, <2>1, <2>4, Frames DEF OnStartCommand, TypeOK
  <1>4. CASE OnDestroy
    <2>1. SystemOK' /\ svc # "none"
      BY <1>1, <1>4 DEF OnDestroy
    <2>2. svc' = "destroying" /\ doomed' \subseteq Remotes
      BY <1>4 DEF OnDestroy, Held
    <2> QED
      BY <1>4, <2>1, <2>2, Frames DEF OnDestroy, TypeOK
  <1>5. CASE DestroyStops
    <2>1. PICK r \in doomed : CallStop("main", r, TRUE) /\ doomed' = doomed \ {r}
      BY <1>5 DEF DestroyStops
    <2>2. svc # "none" /\ r \in Remotes
      BY <1>0, Working
    <2>3. FilesOK' /\ KernelsOK' /\ QueueOK' /\ CallsOK' /\ HoldersOK'
      BY <1>5, <2>1, <2>2, CallStopTyped DEF DestroyStops
    <2> QED
      BY <1>0, <1>5, <2>1, <2>2, <2>3, Frames DEF DestroyStops, TypeOK, system
  <1>6. CASE StopEnds("main")
    BY <1>6, StopEndsTyped
  <1>7. CASE Shutdown
    <2>1. PICK left \in SUBSET Leftovers : ghosts' = ghosts \union left
      BY <1>7 DEF Shutdown
    <2>2. \A g \in Leftovers : g \in Ghosts
      <3>1. start # None => start \in Starts
        BY DEF TypeOK, CallsOK
      <3>2. TaskOK
        BY DEF TypeOK
      <3> QED
        BY <3>1, <3>2 DEF Leftovers, Ghosts, Starts, At, TaskOK, Held
    <2>3. SystemOK'
      BY <1>0, <1>7, <2>1, <2>2 DEF Shutdown, SystemOK, system
    <2> QED
      BY <1>7, <2>3, AbandonedTyped, Frames DEF Shutdown, TypeOK
  <1> QED
    BY <1>2, <1>3, <1>4, <1>5, <1>6, <1>7 DEF MainNext

\* The threads of a service that has been closed.
LEMMA GhostsTyped ==
  ASSUME TypeOK, GhostNext
  PROVE  TypeOK'
  <1>0. SystemOK /\ FilesOK /\ KernelsOK /\ HoldersOK /\ UserOK
    BY DEF TypeOK
  <1>1. PICK g \in ghosts : GhostLaunches(g) \/ GhostWrites(g)
    BY DEF GhostNext
  <1>2. g \in Ghosts /\ g.r \in Remotes
    BY <1>0 DEF SystemOK, Ghosts
  <1>3. UNCHANGED <<meta, runtime, system, svc, queue, news, task, calls, running, doomed, user>>
    BY DEF GhostNext
  <1>4. QueueOK' /\ TaskOK' /\ CallsOK'
    BY <1>3, Frames
  <1>5. CASE GhostLaunches(g)
    <2> DEFINE k == NewKernel(g.r, g.m, "ghost")
               f == [g EXCEPT !.op = "fail"]
    <2>1. /\ kernels' = kernels \union {k} /\ ghosts' = (ghosts \ {g}) \union {f}
          /\ status' = [status EXCEPT ![g.r] = Status("STARTING", g.m.cookie)]
          /\ g.op = "launch"
      BY <1>5 DEF GhostLaunches
    <2>2. g.m \in Metadata /\ f \in Ghosts
      BY <1>2, <2>1 DEF Ghosts
    <2>3. /\ used'.kernels = used.kernels + 1 /\ used.kernels \in Nat
          /\ used' \in [edits : Nat, refreshes : Nat, crashes : Nat, kernels : Nat]
      BY <1>0, <1>5, CountTyped DEF GhostLaunches, UserOK
    <2>4. Config(g.m) \in Configs /\ g.m.cookie \in Cookies
      BY <2>2, MetadataCopied DEF Metadata
    <2>5. k \in Kernels /\ k.id = used.kernels + 1 /\ k.launcher = "ghost"
      BY <1>2, <2>3, <2>4 DEF NewKernel, Kernels
    <2> HIDE DEF k, f
    <2>6. KernelsOK'
      BY <1>0, <2>1, <2>3, <2>5 DEF KernelsOK, Kernels
    <2>7. HoldersOK'
      BY <1>0, <1>3, <2>3 DEF HoldersOK, Held, Holders
    <2>8. FilesOK'
      BY <1>0, <1>2, <1>3, <2>1, <2>4, StatusWritten, OneStatus DEF States
    <2>9. SystemOK' /\ UserOK'
      BY <1>0, <1>3, <2>1, <2>2, <2>3 DEF SystemOK, UserOK, system, user
    <2>10. svc = "none" => \A j \in kernels' : j.launcher # "service"
      BY <2>1, <2>5 DEF TypeOK, NothingLeft
    <2> QED
      BY <1>3, <1>4, <2>6, <2>7, <2>8, <2>9, <2>10, ClosedKeeps DEF TypeOK
  <1>6. CASE GhostWrites(g)
    <2>1. PICK s \in {Status("STARTING", None), Status("RUNNING", None), Failed} :
              status' = [status EXCEPT ![g.r] = s]
      BY <1>6 DEF GhostWrites
    <2>2. FilesOK'
      BY <1>0, <1>2, <1>3, <2>1, StatusWritten, OneStatus DEF States
    <2>3. SystemOK'
      BY <1>0, <1>3, <1>6 DEF SystemOK, GhostWrites, system
    <2>4. KernelsOK' /\ HoldersOK' /\ UserOK'
      BY <1>3, <1>6, Frames DEF GhostWrites
    <2>5. svc = "none" => \A j \in kernels' : j.launcher # "service"
      BY <1>6 DEF GhostWrites, TypeOK, NothingLeft
    <2> QED
      BY <1>3, <1>4, <2>2, <2>3, <2>4, <2>5, ClosedKeeps DEF TypeOK
  <1> QED
    BY <1>1, <1>5, <1>6

\* The messages that reach a service restarted (Crash) are messages sent.
LEMMA RedeliveredTyped ==
  ASSUME SystemOK, NEW i \in 0 .. Len(inbox)
  PROVE  <<Message("create")>> \o Redelivered(i) \in Seq(Messages)
  <1> DEFINE left == SubSeq(inbox, i + 1, Len(inbox))
             sent == IF left # <<>> /\ Head(left).msg = "create" THEN Tail(left) ELSE left
  <1>1. left \in Seq(Messages)
    BY DEF SystemOK
  <1>2. sent \in Seq(Messages)
    <2> HIDE DEF left
    <2> QED
      BY <1>1
  <1>3. Intent("reconcile", None) \in Messages /\ Message("create") \in Messages
    BY DEF Intent, Message, Messages, Requests
  <1>4. Redelivered(i) = IF sent = <<>> THEN <<Intent("reconcile", None)>> ELSE sent
    BY DEF Redelivered
  <1> HIDE DEF sent
  <1>5. Redelivered(i) \in Seq(Messages)
    BY <1>2, <1>3, <1>4
  <1> QED
    BY <1>3, <1>5

\* The death of the service process.
LEMMA CrashTyped ==
  ASSUME TypeOK, Crash
  PROVE  TypeOK'
  <1>0. SystemOK /\ UserOK
    BY DEF TypeOK
  <1>1. UNCHANGED <<files, up, user>> /\ Abandoned /\ ghosts' = {} /\ Happens("crashes")
    BY DEF Crash
  <1>2. /\ used'.kernels = used.kernels
        /\ used' \in [edits : Nat, refreshes : Nat, crashes : Nat, kernels : Nat]
    BY <1>0, <1>1, CountTyped
  <1>3. SystemOK'
    <2>1. inbox' \in Seq(Messages)
      BY <1>0, RedeliveredTyped DEF Crash
    <2> QED
      BY <1>0, <1>1, <2>1 DEF SystemOK
  <1>4. UserOK' /\ FilesOK'
    BY <1>0, <1>1, <1>2, Frames DEF UserOK, user
  <1> QED
    BY <1>1, <1>2, <1>3, <1>4, AbandonedTyped DEF TypeOK

\* Every step of Next keeps the types.
LEMMA StepsTyped ==
  ASSUME TypeOK, [Next]_vars
  PROVE  TypeOK'
  <1>1. CASE UNCHANGED vars
    <2>1. svc = "none" => \A j \in kernels' : j.launcher # "service"
      BY <1>1 DEF vars, TypeOK, NothingLeft
    <2> QED
      BY <1>1, <2>1, Frames, ClosedKeeps DEF vars, service, TypeOK
  <1>2. CASE TaskNext
    BY <1>2, QueueTyped, RequestsTyped, ReportsTyped, BeatsTyped DEF TaskNext
  <1>3. CASE Next /\ ~TaskNext
    BY <1>3, UserTyped, KernelsTyped, CallsTyped, QueueTyped, MainTyped, GhostsTyped, CrashTyped
    DEF Next, SupervisorNext
  <1> QED
    BY <1>1, <1>2, <1>3

\* Every part of the state of the QuarkDAV service is in its domain, and when
\* the service object goes (onDestroy, or its process dies) nothing of it stays.
THEOREM Typing == Spec => []TypeOK
  <1>1. Init => TypeOK
    BY TypesAtFirst
  <1>2. TypeOK /\ [Next]_vars => TypeOK'
    BY StepsTyped
  <1> QED
    BY <1>1, <1>2, PTL DEF Spec
=============================================================================
