---------------------- MODULE QuarkDavSupervisorProofs ----------------------
(***************************************************************************)
(* Proofs about QuarkDavSupervisor, for every number of remotes,           *)
(* operations, crashes and kernels: a remote never has two kernels but for *)
(* those that terminateStaleKernel has met, never the supervised one, and  *)
(* the kernels of a service at rest are those its metadata asks for.  What *)
(* carries the first is the launch under way: once it has met what it      *)
(* found, nothing but its own Launch and an interrupted thread adds a      *)
(* kernel.  What carries the second is that metadata changed under a       *)
(* kernel or under a launch is followed by a request still to be served.   *)
(***************************************************************************)
EXTENDS QuarkDavStatusProofs

\* The part of the types the argument needs.
KernelShape(k) ==
  /\ {"r", "launcher", "stale"} \subseteq DOMAIN k
  /\ k.launcher \in {"service", "past", "ghost"}

StartShape(s) == s # None => s = [at |-> s.at, r |-> s.r, m |-> s.m]

\* A kernel that stands beside no other: not an interrupted thread's, and not
\* met by terminateStaleKernel.
Counts(k) == k.launcher # "ghost" /\ ~k.stale

\* Between terminateStaleKernel and the launch no such kernel of the remote is left.
Cleared(s, ks) ==
  s # None /\ s.at # "stale" => \A k \in ks : k.r = s.r => ~Counts(k)

Single(ks) == \A j, k \in ks : j.r = k.r /\ Counts(j) /\ Counts(k) => j = k

Holds(s, ks) ==
  /\ \A k \in ks : KernelShape(k)
  /\ StartShape(s)
  /\ Cleared(s, ks)
  /\ Single(ks)

KernelInv == Holds(start, kernels)

\* Killing kernels, whoever does it, disturbs nothing (stopProcess, exits).
LEMMA FewerKernels ==
  ASSUME NEW ks, NEW few, NEW s, few \subseteq ks, Holds(s, ks)
  PROVE  Holds(s, few)
  BY DEF Holds, Cleared, Single

\* A kernel that changes in what its lines and its cookie are (KernelPrints,
\* KernelRefreshesCookie).
LEMMA KernelReplaced ==
  ASSUME NEW ks, NEW s, NEW k \in ks, NEW l, Holds(s, ks),
         KernelShape(l), l.r = k.r, l.launcher = k.launcher, l.stale = k.stale
  PROVE  Holds(s, (ks \ {k}) \union {l})
  BY DEF Holds, Cleared, Single, Counts

\* When the service goes, its kernels become nobody's (Abandoned).
LEMMA AbandonedKeeps ==
  ASSUME KernelInv, Abandoned
  PROVE  KernelInv'
  <1> DEFINE Left(k) == [k EXCEPT !.launcher = IF @ = "service" THEN "past" ELSE @]
  <1>1. kernels' = {Left(k) : k \in kernels} /\ start' = None
    BY DEF Abandoned
  <1>2. \A k \in kernels : /\ KernelShape(Left(k)) /\ Left(k).r = k.r
                           /\ Counts(Left(k)) <=> Counts(k)
    BY DEF KernelInv, Holds, KernelShape, Counts
  <1>3. Single(kernels)
    BY DEF KernelInv, Holds
  <1>4. Single({Left(k) : k \in kernels})
    <2>1. \A i, k \in kernels : Left(i).r = Left(k).r /\ Counts(Left(i))
                               /\ Counts(Left(k)) => i = k
      BY <1>2, <1>3 DEF Single
    <2> HIDE DEF Left
    <2> QED
      BY <2>1 DEF Single
  <1>5. \A l \in {Left(k) : k \in kernels} : KernelShape(l)
    BY <1>2
  <1> QED
    BY <1>1, <1>4, <1>5 DEF KernelInv, Holds, StartShape, Cleared

\* After a boot no kernel is there (Init).
LEMMA KernelInit == Init => KernelInv
  BY DEF Init, KernelInv, Holds, StartShape, Cleared, Single

\* The kernels' own steps (libquarkdav.so).
LEMMA KernelsKeep ==
  ASSUME KernelInv, KernelNext
  PROVE  KernelInv'
  <1>1. PICK k \in kernels : KernelPrints(k) \/ KernelRefreshesCookie(k) \/ KernelExits(k)
    BY DEF KernelNext
  <1>2. KernelShape(k)
    BY DEF KernelInv, Holds
  <1>3. start' = start
    BY <1>1 DEF KernelPrints, KernelRefreshesCookie, KernelExits, calls, service
  <1>4. CASE KernelPrints(k)
    <2> DEFINE l == [k EXCEPT !.lines = @ + 1]
    <2>1. KernelShape(l) /\ l.r = k.r /\ l.launcher = k.launcher /\ l.stale = k.stale
      BY <1>2 DEF KernelShape
    <2>2. kernels' = (kernels \ {k}) \union {l}
      BY <1>4 DEF KernelPrints
    <2> HIDE DEF l
    <2> QED
      BY <1>3, <2>1, <2>2, KernelReplaced DEF KernelInv
  <1>5. CASE KernelRefreshesCookie(k)
    <2>1. PICK c : kernels' = (kernels \ {k}) \union {[k EXCEPT !.config = [@ EXCEPT !.cookie = c]]}
      BY <1>5 DEF KernelRefreshesCookie
    <2> DEFINE l == [k EXCEPT !.config = [@ EXCEPT !.cookie = c]]
    <2>2. KernelShape(l) /\ l.r = k.r /\ l.launcher = k.launcher /\ l.stale = k.stale
      BY <1>2 DEF KernelShape
    <2>3. kernels' = (kernels \ {k}) \union {l}
      BY <2>1
    <2> HIDE DEF l
    <2> QED
      BY <1>3, <2>2, <2>3, KernelReplaced DEF KernelInv
  <1>6. CASE KernelExits(k)
    <2>1. kernels' \subseteq kernels
      BY <1>6 DEF KernelExits
    <2> QED
      BY <1>3, <2>1, FewerKernels DEF KernelInv
  <1> QED
    BY <1>1, <1>4, <1>5, <1>6

\* stopProcess only removes kernels (CallStop).
LEMMA CallStopRemoves ==
  ASSUME NEW t, NEW r, NEW sync, CallStop(t, r, sync)
  PROVE  kernels' \subseteq kernels
  BY DEF CallStop

\* The supervisor's tasks start no kernel themselves; a start they call for
\* begins with the kernels left over.
LEMMA TasksKeep ==
  ASSUME KernelInv, TaskNext
  PROVE  KernelInv'
  <1> USE DEF calls, TaskOnly
  <1>1. CASE StartNext \/ Retry
    BY <1>1 DEF StartNext, Retry, KernelInv, Holds, StartShape, Cleared
  <1>2. CASE StopNext
    <2>1. kernels' \subseteq kernels /\ start' = start
      BY <1>2, CallStopRemoves DEF StopNext
    <2> QED
      BY <2>1, FewerKernels DEF KernelInv
  <1>3. CASE Take \/ ReadToDisable \/ SaveDisabled \/ Look \/ Reload \/ EndReconcile
    BY <1>3 DEF Take, ReadToDisable, SaveDisabled, Look, Reload, EndReconcile, KernelInv
  <1>4. CASE \/ PidSeen \/ PidWritten \/ ReadySeen \/ ReadyAnnounced
             \/ ExitSeen \/ ExitSyncs \/ ExitReports \/ ExitEnds
    BY <1>4 DEF PidSeen, PidWritten, ReadySeen, ReadyAnnounced, ExitSeen, ExitSyncs, ExitReports,
                ExitEnds, KernelInv
  <1>5. CASE BeatNext \/ BeatSyncs \/ BeatReads
    BY <1>5 DEF BeatNext, BeatSyncs, BeatReads, KernelInv
  <1> QED
    BY <1>1, <1>2, <1>3, <1>4, <1>5 DEF TaskNext

\* startProcess: it meets what the remote still has, and then adds one kernel.
LEMMA CallsKeep ==
  ASSUME KernelInv, CallNext
  PROVE  KernelInv'
  <1> USE DEF KernelInv, Holds
  <1>1. CASE StopEnds("supervisor")
    BY <1>1 DEF StopEnds
  <1>2. CASE TerminateStale
    <2> DEFINE Survivor(k) == [k EXCEPT !.stale = TRUE]
    <2>1. PICK left \in SUBSET Stale(start.r) :
              kernels' = (kernels \ Stale(start.r)) \union {Survivor(k) : k \in left}
      BY <1>2 DEF TerminateStale
    <2>2. /\ start' = [start EXCEPT !.at = "config"]
          /\ start = [at |-> start.at, r |-> start.r, m |-> start.m]
      BY <1>2 DEF TerminateStale, StartShape
    <2>3. start' = [at |-> "config", r |-> start.r, m |-> start.m]
      BY <2>2
    <2>4. \A k \in kernels : KernelShape(Survivor(k)) /\ ~Counts(Survivor(k))
      BY DEF KernelShape, Counts
    <2> HIDE DEF Survivor
    <2>5. \A k \in kernels' : \/ k \in kernels /\ k.r # start.r
                              \/ KernelShape(k) /\ ~Counts(k)
      BY <2>1, <2>4 DEF Stale
    <2> QED
      BY <2>3, <2>5 DEF StartShape, Cleared, Single
  <1>3. CASE ReadConfig \/ WriteConfig
    <2>1. /\ kernels' = kernels
          /\ start # None /\ start.at # "stale"
          /\ start = [at |-> start.at, r |-> start.r, m |-> start.m]
      BY <1>3 DEF CallOnly, ReadConfig, WriteConfig, StartShape
    <2>2. start'.at # "stale" /\ start'.r = start.r
          /\ start' = [at |-> start'.at, r |-> start'.r, m |-> start'.m]
      <3>1. CASE ReadConfig
        <4> DEFINE m == IF meta[start.r] = None THEN start.m ELSE meta[start.r]
        <4>1. start' = [at |-> "write", r |-> start.r, m |-> m]
          BY <2>1, <3>1 DEF ReadConfig
        <4> HIDE DEF m
        <4> QED
          BY <4>1
      <3>2. CASE WriteConfig
        <4>1. start' = [at |-> "launch", r |-> start.r, m |-> start.m]
          BY <2>1, <3>2 DEF WriteConfig
        <4> QED
          BY <4>1
      <3> QED
        BY <1>3, <3>1, <3>2
    <2> QED
      BY <2>1, <2>2 DEF StartShape, Cleared
  <1>4. CASE Launch
    <2> DEFINE k == NewKernel(start.r, start.m, "service")
    <2>1. kernels' = kernels \union {k} /\ start' = None
      BY <1>4 DEF Launch
    <2>2. KernelShape(k) /\ k.r = start.r
      BY DEF NewKernel, KernelShape
    <2>3. \A j \in kernels : j.r = start.r => ~Counts(j)
      BY <1>4 DEF Launch, Cleared
    <2> HIDE DEF k
    <2> QED
      BY <2>1, <2>2, <2>3 DEF StartShape, Cleared, Single
  <1>5. CASE StartFails
    BY <1>5 DEF StartFails, StartShape, Cleared
  <1> QED
    BY <1>1, <1>2, <1>3, <1>4, <1>5 DEF CallNext

\* The main thread and the threads of a service being closed.
LEMMA MainKeeps ==
  ASSUME KernelInv, MainNext \/ GhostNext \/ Crash
  PROVE  KernelInv'
  <1>1. CASE Create \/ OnStartCommand \/ OnDestroy
    BY <1>1 DEF Create, OnStartCommand, OnDestroy, calls, KernelInv
  <1>2. CASE DestroyStops
    <2>1. kernels' \subseteq kernels /\ start' = start
      BY <1>2, CallStopRemoves DEF DestroyStops
    <2> QED
      BY <2>1, FewerKernels DEF KernelInv
  <1>3. CASE StopEnds("main")
    BY <1>3 DEF StopEnds, KernelInv
  <1>4. CASE Shutdown \/ Crash
    BY <1>4, AbandonedKeeps DEF Shutdown, Crash
  <1>5. CASE GhostNext
    <2>1. start' = start
      BY <1>5 DEF GhostNext, calls
    <2>2. CASE kernels' = kernels
      BY <2>1, <2>2 DEF KernelInv
    <2>3. CASE kernels' # kernels
      <3>1. PICK g \in ghosts : GhostLaunches(g)
        BY <1>5, <2>3 DEF GhostNext, GhostWrites
      <3> DEFINE k == NewKernel(g.r, g.m, "ghost")
      <3>2. kernels' = kernels \union {k}
        BY <3>1 DEF GhostLaunches
      <3>3. KernelShape(k) /\ ~Counts(k)
        BY DEF NewKernel, KernelShape, Counts
      <3> HIDE DEF k
      <3> QED
        BY <2>1, <3>2, <3>3 DEF KernelInv, Holds, Cleared, Single
    <2> QED
      BY <2>2, <2>3
  <1> QED
    BY <1>1, <1>2, <1>3, <1>4, <1>5 DEF MainNext

\* The user's process and the queue of the supervisor touch no kernel.
LEMMA OthersKeep ==
  ASSUME KernelInv, UserNext \/ PostNext \/ Beat
  PROVE  KernelInv'
  <1> USE DEF calls, service
  <1>1. CASE UserNext
    <2>1. kernels' = kernels /\ start' = start
      BY <1>1 DEF UserNext, BeginUpdate, OpenForm, SubmitForm, SaveUpdate, Delete, SendForAll
    <2> QED
      BY <2>1 DEF KernelInv
  <1>2. CASE PostNext \/ Beat
    BY <1>2 DEF PostNext, Post, Beat, KernelInv
  <1> QED
    BY <1>1, <1>2

\* terminateStaleKernel has never met a kernel that the service supervises.
Spared ==
  \A r \in Remotes : running[r] # None =>
      \A k \in kernels : k.id = running[r].id => k.r = r /\ ~k.stale

\* Only a launch makes a holder (startProcess); READY and the heartbeat change
\* it, but never whose it is.
LEMMA HoldersOfLaunches ==
  ASSUME TypeOK, [Next]_vars, ~Launch, NEW r \in Remotes, running'[r] # None
  PROVE  running[r] # None /\ running'[r].id = running[r].id
  <1> USE DEF calls, service, user, files
  <1>0. HoldersOK /\ TaskOK
    BY DEF TypeOK
  <1>1. CASE running' = running
    BY <1>1
  <1>2. ASSUME NEW t, NEW q, NEW sync, CallStop(t, q, sync)
        PROVE  running'[r] = running[r]
    BY <1>0, <1>2 DEF CallStop, HoldersOK
  <1>3. CASE ReadySeen /\ running' # running
    <2>1. task.r \in Remotes /\ running' = [running EXCEPT ![task.r].ready = TRUE]
          /\ running[task.r] # None
      BY <1>0, <1>3 DEF ReadySeen, TaskOK, At, Supervised
    <2>2. running[task.r] \in Holders
      BY <1>0, <2>1 DEF HoldersOK
    <2> QED
      BY <1>0, <2>1, <2>2 DEF HoldersOK, Holders
  <1>4. CASE ExitSeen /\ running' # running
    <2>1. running' = [running EXCEPT ![task.r] = None]
      BY <1>4 DEF ExitSeen
    <2> QED
      BY <1>0, <2>1 DEF HoldersOK
  <1>5. CASE BeatReads
    <2> DEFINE q == task.r
               c == Config(meta[q])
               a == running[q].adopted \/ meta[q].port # running[q].config.port
                                       \/ meta[q].cookie.login # running[q].config.cookie.login
               new == [running[q] EXCEPT !.config = c, !.adopted = a]
               h == IF meta[q] = None \/ running[q] = None THEN running[q] ELSE new
    <2>1. running' = [running EXCEPT ![task.r] = h]
      BY <1>5 DEF BeatReads
    <2>2. task.r \in Remotes /\ (running[task.r] # None => running[task.r] \in Holders)
      BY <1>0, <1>5 DEF TaskOK, BeatReads, At, HoldersOK
    <2> HIDE DEF c, a
    <2>8. running[q] # None => new.id = running[q].id
      BY <2>2 DEF Holders
    <2> HIDE DEF new
    <2>3. h # running[task.r] => running[task.r] # None /\ h.id = running[task.r].id
      BY <2>8
    <2> HIDE DEF h
    <2>4. running'[r] = IF r = task.r THEN h ELSE running[r]
      BY <1>0, <2>1 DEF HoldersOK
    <2>5. CASE r = task.r /\ h # running[r]
      BY <2>3, <2>4, <2>5
    <2>6. CASE r # task.r \/ h = running[r]
      <3>1. running'[r] = running[r]
        BY <2>4, <2>6
      <3> QED
        BY <3>1
    <2> QED
      BY <2>5, <2>6
  <1>6. CASE StopNext
    BY <1>2, <1>6 DEF StopNext
  <1>7. CASE DestroyStops
    BY <1>2, <1>7 DEF DestroyStops
  <1>8. CASE Shutdown \/ Crash
    BY <1>8 DEF Shutdown, Crash, Abandoned
  <1>9. CASE UserNext \/ KernelNext \/ PostNext \/ Beat \/ GhostNext \/ UNCHANGED vars
    <2>1. running' = running
      BY <1>9 DEF UserNext, BeginUpdate, OpenForm, SubmitForm, SaveUpdate, Delete, SendForAll,
                  KernelNext, KernelPrints, KernelRefreshesCookie, KernelExits, PostNext, Post,
                  Beat, GhostNext, vars
    <2> QED
      BY <1>1, <2>1
  <1>10. CASE CallNext
    <2>1. running' = running
      BY <1>10 DEF CallNext, CallOnly, StopEnds, TerminateStale, ReadConfig, WriteConfig, StartFails
    <2> QED
      BY <1>1, <2>1
  <1>11. CASE TaskNext /\ ~ReadySeen /\ ~ExitSeen /\ ~BeatReads /\ ~StopNext
    <2>1. running' = running
      BY <1>11
      DEF TaskNext, TaskOnly, Take, ReadToDisable, SaveDisabled, Look, Reload, StartNext,
          EndReconcile, PidSeen, PidWritten, ReadyAnnounced, ExitSyncs, ExitReports, ExitEnds,
          Retry, BeatNext, BeatSyncs
    <2> QED
      BY <1>1, <2>1
  <1>12. CASE MainNext /\ ~DestroyStops /\ ~Shutdown
    <2>1. running' = running
      BY <1>12 DEF MainNext, Create, OnStartCommand, OnDestroy, StopEnds
    <2> QED
      BY <1>1, <2>1
  <1> QED
    BY <1>1, <1>3, <1>4, <1>5, <1>6, <1>7, <1>8, <1>9, <1>10, <1>11, <1>12
    DEF Next, SupervisorNext

\* A kernel is newly launched, or it was there; terminateStaleKernel meets only
\* those of the remote it works for.
LEMMA KernelsOfLaunches ==
  ASSUME TypeOK, [Next]_vars, NEW k \in kernels'
  PROVE  \/ k.id = used.kernels + 1
         \/ \E j \in kernels : /\ j.id = k.id /\ j.r = k.r
                               /\ k.stale = j.stale \/ (start # None /\ j.r = start.r)
  <1> USE DEF calls, service, user, files
  <1>0. kernels \subseteq Kernels
    BY DEF TypeOK, KernelsOK
  <1>1. CASE kernels' \subseteq kernels
    BY <1>1
  <1>2. ASSUME NEW t, NEW q, NEW sync, CallStop(t, q, sync)
        PROVE  kernels' \subseteq kernels
    BY <1>2 DEF CallStop
  <1>3. CASE KernelNext
    <2>1. PICK l \in kernels : KernelPrints(l) \/ KernelRefreshesCookie(l) \/ KernelExits(l)
      BY <1>3 DEF KernelNext
    <2>2. CASE KernelPrints(l) /\ k \notin kernels
      <3>1. k = [l EXCEPT !.lines = @ + 1]
        BY <2>2 DEF KernelPrints
      <3>2. k.id = l.id /\ k.r = l.r /\ k.stale = l.stale
        BY <1>0, <3>1 DEF Kernels
      <3> QED
        BY <3>2
    <2>3. CASE KernelRefreshesCookie(l) /\ k \notin kernels
      <3>1. PICK c : k = [l EXCEPT !.config = [@ EXCEPT !.cookie = c]]
        BY <2>3 DEF KernelRefreshesCookie
      <3>2. k.id = l.id /\ k.r = l.r /\ k.stale = l.stale
        BY <1>0, <3>1 DEF Kernels
      <3> QED
        BY <3>2
    <2>4. CASE KernelExits(l)
      BY <1>1, <2>4 DEF KernelExits
    <2> QED
      BY <2>1, <2>2, <2>3, <2>4
  <1>4. CASE TerminateStale /\ k \notin kernels
    <2>1. PICK l \in Stale(start.r) : k = [l EXCEPT !.stale = TRUE]
      BY <1>4 DEF TerminateStale
    <2>2. l \in kernels /\ l.r = start.r /\ start # None
      BY <1>4, <2>1 DEF Stale, TerminateStale
    <2>3. k.id = l.id /\ k.r = l.r
      BY <1>0, <2>1, <2>2 DEF Kernels
    <2> QED
      BY <2>2, <2>3
  <1>5. CASE Launch \/ GhostNext
    <2>1. k \in kernels \/ \E q, m, launcher : k = NewKernel(q, m, launcher)
      BY <1>5 DEF Launch, GhostNext, GhostLaunches, GhostWrites
    <2> QED
      BY <2>1 DEF NewKernel
  <1>6. CASE Shutdown \/ Crash
    <2>1. PICK l \in kernels :
              k = [l EXCEPT !.launcher = IF @ = "service" THEN "past" ELSE @]
      BY <1>6 DEF Shutdown, Crash, Abandoned
    <2>2. k.id = l.id /\ k.r = l.r /\ k.stale = l.stale
      BY <1>0, <2>1 DEF Kernels
    <2> QED
      BY <2>2
  <1>7. CASE StopNext
    BY <1>1, <1>2, <1>7 DEF StopNext
  <1>8. CASE DestroyStops
    BY <1>1, <1>2, <1>8 DEF DestroyStops
  <1>9. CASE UserNext \/ PostNext \/ Beat \/ UNCHANGED vars
    <2>1. kernels' = kernels
      BY <1>9 DEF UserNext, BeginUpdate, OpenForm, SubmitForm, SaveUpdate, Delete, SendForAll,
                  PostNext, Post, Beat, vars
    <2> QED
      BY <1>1, <2>1
  <1>10. CASE CallNext /\ ~TerminateStale /\ ~Launch
    <2>1. kernels' = kernels
      BY <1>10 DEF CallNext, CallOnly, StopEnds, ReadConfig, WriteConfig, StartFails
    <2> QED
      BY <1>1, <2>1
  <1>11. CASE TaskNext /\ ~StopNext
    <2>1. kernels' = kernels
      BY <1>11
      DEF TaskNext, TaskOnly, Take, ReadToDisable, SaveDisabled, Look, Reload, StartNext,
          EndReconcile, PidSeen, PidWritten, ReadySeen, ReadyAnnounced, ExitSeen, ExitSyncs,
          ExitReports, ExitEnds, Retry, BeatNext, BeatSyncs, BeatReads
    <2> QED
      BY <1>1, <2>1
  <1>12. CASE MainNext /\ ~DestroyStops /\ ~Shutdown
    <2>1. kernels' = kernels
      BY <1>12 DEF MainNext, Create, OnStartCommand, OnDestroy, StopEnds
    <2> QED
      BY <1>1, <2>1
  <1> QED
    BY <1>1, <1>3, <1>4, <1>5, <1>6, <1>7, <1>8, <1>9, <1>10, <1>11, <1>12
    DEF Next, SupervisorNext

\* terminateStaleKernel works for a remote without a holder, and a new kernel has
\* a number of its own.
LEMMA SparedKept ==
  ASSUME TypeOK, Control, Spared, [Next]_vars
  PROVE  Spared'
  <1> SUFFICES ASSUME NEW r \in Remotes, running'[r] # None, NEW k \in kernels',
                      k.id = running'[r].id
               PROVE  k.r = r /\ ~k.stale
    BY DEF Spared
  <1>0. /\ used.kernels \in Nat
        /\ \A q \in Remotes : running[q] # None => /\ running[q].id \in Nat
                                                 /\ running[q].id <= used.kernels
    BY DEF TypeOK, UserOK, HoldersOK, Held, Holders
  <1>1. CASE ~Launch
    <2>1. running[r] # None /\ running'[r].id = running[r].id
      BY <1>1, HoldersOfLaunches
    <2>2. k.id # used.kernels + 1
      BY <1>0, <2>1
    <2>3. PICK j \in kernels : /\ j.id = k.id /\ j.r = k.r
                               /\ k.stale = j.stale \/ (start # None /\ j.r = start.r)
      BY <2>2, KernelsOfLaunches
    <2>4. j.r = r /\ ~j.stale
      BY <2>1, <2>3 DEF Spared
    <2>5. start # None => running[start.r] = None
      BY DEF Control, CallsWait
    <2> QED
      BY <2>1, <2>3, <2>4, <2>5
  <1>2. CASE Launch
    <2> DEFINE n == NewKernel(start.r, start.m, "service")
               h == [id |-> n.id, config |-> n.config, ready |-> FALSE, adopted |-> FALSE]
    <2>1. /\ kernels' = kernels \union {n} /\ running' = [running EXCEPT ![start.r] = h]
          /\ start # None
      BY <1>2 DEF Launch
    <2>2. n.id = used.kernels + 1 /\ n.r = start.r /\ ~n.stale /\ h.id = used.kernels + 1
      BY DEF NewKernel
    <2> HIDE DEF n, h
    <2>3. \A j \in kernels : j.id \in Nat /\ j.id <= used.kernels
      BY DEF TypeOK, KernelsOK, Kernels
    <2>4. IF r = start.r THEN running'[r] = h ELSE running'[r] = running[r]
      BY <2>1 DEF TypeOK, HoldersOK
    <2>5. CASE r = start.r
      BY <1>0, <2>1, <2>2, <2>3, <2>4, <2>5
    <2>6. CASE r # start.r
      <3>1. k.id # used.kernels + 1
        BY <1>0, <2>4, <2>6
      <3> QED
        BY <2>1, <2>2, <2>4, <2>6, <3>1 DEF Spared
    <2> QED
      BY <2>5, <2>6
  <1> QED
    BY <1>1, <1>2

\* Every step of Next keeps what is known of the kernels.
LEMMA KernelInvKept ==
  ASSUME KernelInv, [Next]_vars
  PROVE  KernelInv'
  <1>1. CASE UNCHANGED vars
    BY <1>1 DEF vars, service, calls, KernelInv
  <1>2. CASE Next
    BY <1>2, KernelsKeep, TasksKeep, CallsKeep, MainKeeps, OthersKeep
    DEF Next, SupervisorNext
  <1> QED
    BY <1>1, <1>2

\* Two kernels of a remote run side by side only if terminateStaleKernel has met
\* one of them, which it kills and waits for one second, or an interrupted thread
\* launched it; and the one it meets is never the one the service supervises
\* (startProcess, QuarkDavService.kt:359-383).
THEOREM AlwaysOneKernel == Spec => []OneKernel
  <1>1. Init => TypeOK /\ Control /\ KernelInv /\ Spared
    <2>1. Init => Spared
      BY DEF Init, Spared
    <2> QED
      BY <2>1, TypesAtFirst, ControlInit, KernelInit
  <1>2. /\ TypeOK /\ Control /\ KernelInv /\ Spared
        /\ [Next]_vars
        => (TypeOK /\ Control /\ KernelInv /\ Spared)'
    BY StepsTyped, ControlKept, KernelInvKept, SparedKept
  <1>3. KernelInv /\ Spared => OneKernel
    BY DEF KernelInv, Holds, Single, Counts, Spared, OneKernel, Held
  <1> QED
    BY <1>1, <1>2, <1>3, PTL DEF Spec

----------------------------------------------------------------------------
(* What is still to be served *)

\* Up to the refreshes of the cookie, which need no restart.
Same(c, m) == c.port = m.port /\ c.cookie.login = m.cookie.login

\* A request not yet received, not yet taken, or not yet compared with what runs.
InInbox == \E i \in 1 .. Len(inbox) : inbox[i].msg = "start"
InQueue == \E i \in 1 .. Len(queue) : queue[i].op \in Requests
Asked == InInbox \/ InQueue \/ task.at \in {"stopRemote", "stopAll", "disable", "reconcile"}

\* ... or the reconcile has found this kernel and will stop it.
Waiting(r) == Asked \/ (task.at = "stop" /\ r \in task.todo)

\* Metadata and kernel agree, or the heartbeat is about to make them agree.
Matched(r) == \/ running[r].adopted
              \/ Same(running[r].config, meta[r])
              \/ task.at = "beatRead" /\ task.r = r

HeldAgrees(r) == running[r] # None => (Enabled(r) /\ Matched(r)) \/ Waiting(r)

StartAgrees(r) ==
  start # None /\ start.r = r =>
    (Enabled(r) /\ (start.at \in {"write", "launch"} => Same(start.m, meta[r]))) \/ Waiting(r)

TodoAgrees(r) == task.at = "start" /\ r \in task.todo => Enabled(r) \/ Waiting(r)

Agrees(r) == HeldAgrees(r) /\ StartAgrees(r) /\ TodoAgrees(r)

Agreement == svc = "up" => \A r \in Remotes \ unsent : Agrees(r)

\* A holder knows the configuration its kernel was launched with, until the
\* heartbeat has taken a new one for it.
HolderKnows ==
  \A r \in Held : \A k \in kernels :
    k.id = running[r].id /\ ~running[r].adopted => Same(k.config, running[r].config)

\* A remote that was off when the form was opened, or is being deleted, is off:
\* nobody but this operation switches one on.
FormIsOff ==
  ui # None => (ui.at = "delete" \/ (ui.at = "form" /\ ~ui.snap.enabled) => ~Enabled(ui.r))

ConvergedInv == Agreement /\ (svc = "up" => HolderKnows) /\ FormIsOff

\* At rest nothing waits, so what runs is what the metadata asks for.
LEMMA RestConverges ==
  ASSUME TypeOK, ConvergedInv
  PROVE  Converged
  <1> SUFFICES ASSUME AtRest, NEW r \in Held \ unsent
               PROVE  /\ Enabled(r)
                      /\ \A k \in kernels :
                            k.id = running[r].id /\ ~running[r].adopted =>
                                /\ k.config.port = meta[r].port
                                /\ k.config.cookie.login = meta[r].cookie.login
    BY DEF Converged
  <1>1. ~Waiting(r)
    BY DEF AtRest, Waiting, Asked, InInbox, InQueue, Idle
  <1>2. Enabled(r) /\ (running[r].adopted \/ Same(running[r].config, meta[r]))
    BY <1>1 DEF ConvergedInv, Agreement, Agrees, HeldAgrees, Matched, AtRest, Idle, Held
  <1> QED
    BY <1>2 DEF ConvergedInv, HolderKnows, Same, AtRest

\* Requests stay where they are until they are taken: what is added to the
\* inbox or to the queue, and what is taken from them.
LEMMA RequestsStay ==
  ASSUME TypeOK
  PROVE  /\ \A m : inbox' = Append(inbox, m) /\ InInbox => InInbox'
         /\ \A m : queue' = Append(queue, m) /\ InQueue => InQueue'
         /\ \A intent : Send(intent) /\ intent.msg = "start" => InInbox'
         /\ inbox # <<>> /\ inbox' = Tail(inbox) /\ InInbox => InInbox' \/ Head(inbox).msg = "start"
         /\ queue # <<>> /\ queue' = Tail(queue) /\ InQueue => InQueue' \/ Head(queue).op \in Requests
         /\ \A t : queue' = Append(queue, t) /\ t.op \in Requests => InQueue'
  <1>0. inbox \in Seq(Messages) /\ queue \in Seq(Tasks)
    BY DEF TypeOK, SystemOK, QueueOK
  <1>1. \A m : inbox' = Append(inbox, m) /\ InInbox => InInbox'
    BY <1>0 DEF InInbox
  <1>2. \A m : queue' = Append(queue, m) /\ InQueue => InQueue'
    BY <1>0 DEF InQueue
  <1>3. ASSUME NEW intent, Send(intent), intent.msg = "start" PROVE InInbox'
    <2> DEFINE before == inbox \o (IF up THEN <<>> ELSE <<Message("create")>>)
    <2>1. inbox' = before \o <<intent>>
      BY <1>3 DEF Send
    <2>2. \E S : before \in Seq(S)
      <3>1. inbox \in Seq(Messages \union {Message("create")})
        BY <1>0
      <3> QED
        BY <3>1
    <2> HIDE DEF before
    <2>3. PICK S : before \in Seq(S)
      BY <2>2
    <2>4. Len(inbox') = Len(before) + 1 /\ inbox'[Len(before) + 1] = intent /\ Len(before) \in Nat
      BY <2>1, <2>3
    <2> QED
      BY <1>3, <2>4 DEF InInbox
  <1>4. inbox # <<>> /\ inbox' = Tail(inbox) /\ InInbox => InInbox' \/ Head(inbox).msg = "start"
    <2> SUFFICES ASSUME inbox # <<>>, inbox' = Tail(inbox), Head(inbox).msg # "start",
                        NEW i \in 1 .. Len(inbox), inbox[i].msg = "start"
                 PROVE  InInbox'
      BY DEF InInbox
    <2>1. i > 1 /\ Len(inbox') = Len(inbox) - 1 /\ i - 1 \in 1 .. Len(inbox')
          /\ inbox'[i - 1] = inbox[i]
      BY <1>0
    <2> QED
      BY <2>1 DEF InInbox
  <1>5. queue # <<>> /\ queue' = Tail(queue) /\ InQueue => InQueue' \/ Head(queue).op \in Requests
    <2> SUFFICES ASSUME queue # <<>>, queue' = Tail(queue), Head(queue).op \notin Requests,
                        NEW i \in 1 .. Len(queue), queue[i].op \in Requests
                 PROVE  InQueue'
      BY DEF InQueue
    <2>1. i > 1 /\ Len(queue') = Len(queue) - 1 /\ i - 1 \in 1 .. Len(queue')
          /\ queue'[i - 1] = queue[i]
      BY <1>0
    <2> QED
      BY <2>1 DEF InQueue
  <1>6. ASSUME NEW t, queue' = Append(queue, t), t.op \in Requests PROVE InQueue'
    <2>1. Len(queue') = Len(queue) + 1 /\ queue'[Len(queue) + 1] = t /\ Len(queue) \in Nat
      BY <1>0, <1>6
    <2> QED
      BY <1>6, <2>1 DEF InQueue
  <1> QED
    BY <1>1, <1>2, <1>3, <1>4, <1>5, <1>6

\* A remote whose metadata, holder, launch and task are left alone agrees as
\* before, as long as no request is lost.
LEMMA AgreesStill ==
  ASSUME NEW r, Agrees(r), meta'[r] = meta[r], running'[r] = running[r],
         start' = start, task' = task, Waiting(r) => Waiting(r)'
  PROVE  Agrees(r)'
  BY DEF Agrees, HeldAgrees, StartAgrees, TodoAgrees, Enabled, Matched, Same

\* While a request waits, whatever runs is allowed to.
LEMMA WaitingAgrees ==
  ASSUME NEW r, Waiting(r)
  PROVE  Agrees(r)
  BY DEF Agrees, HeldAgrees, StartAgrees, TodoAgrees

\* No kernel, no call and no operation at first (Init).
LEMMA ConvergedInit == Init => ConvergedInv
  BY DEF Init, ConvergedInv, Agreement, HolderKnows, FormIsOff, Held

\* The user's process: it tells the service of every change, or says that it
\* could not (Request), except for a remote that was and stays off.
LEMMA ConvergedUser ==
  ASSUME TypeOK, Control, ConvergedInv, UserNext
  PROVE  ConvergedInv'
  <1> USE DEF service, user, calls, system, files
  <1>0. FilesOK /\ UserOK /\ FormIsOff /\ Agreement /\ (svc = "up" => HolderKnows)
    BY DEF TypeOK, ConvergedInv
  <1>1. UNCHANGED <<kernels, service>>
    BY DEF UserNext, BeginUpdate, OpenForm, SubmitForm, SaveUpdate, Delete, SendForAll
  <1>2. svc' = "up" => HolderKnows'
    BY <1>0, <1>1 DEF HolderKnows, Held, Same
  <1>3. ASSUME InInbox' PROVE Agreement'
    <2>1. \A r \in Remotes : Waiting(r)'
      BY <1>3 DEF Waiting, Asked
    <2>2. \A r \in Remotes : Agrees(r)'
      BY <2>1 DEF Agrees, HeldAgrees, StartAgrees, TodoAgrees
    <2> QED
      BY <2>2 DEF Agreement
  <1>4. ASSUME NEW q \in Remotes, \A r \in Remotes : r # q => meta'[r] = meta[r], inbox' = inbox,
               q \in unsent' \/ meta'[q] = meta[q] \/ ~Enabled(q),
               unsent \subseteq unsent'
        PROVE  Agreement'
    <2> SUFFICES ASSUME svc' = "up", NEW r \in Remotes \ unsent'
                 PROVE  Agrees(r)'
      BY DEF Agreement
    <2>1. Agrees(r)
      BY <1>0, <1>1, <1>4 DEF Agreement
    <2>2. Waiting(r)' <=> Waiting(r)
      BY <1>1, <1>4 DEF Waiting, Asked, InInbox, InQueue
    <2>3. CASE meta'[r] = meta[r]
      BY <1>1, <2>1, <2>2, <2>3, AgreesStill
    <2>4. CASE meta'[r] # meta[r]
      <3>1. ~Enabled(r)
        BY <1>4, <2>4
      <3> QED
        BY <1>1, <2>1, <2>2, <3>1 DEF Agrees, HeldAgrees, StartAgrees, TodoAgrees
    <2> QED
      BY <2>3, <2>4
  <1>5. ASSUME NEW op, Request(op, ui.r), ui # None, \A r \in Remotes : r # ui.r => meta'[r] = meta[r]
        PROVE  Agreement'
    <2>1. CASE Send(Intent(op, ui.r))
      <3>1. Intent(op, ui.r).msg = "start"
        BY DEF Intent
      <3> QED
        BY <1>3, <2>1, <3>1, RequestsStay
    <2>2. CASE unsent' = unsent \union {ui.r} /\ UNCHANGED system
      <3>1. ui.r \in Remotes
        BY <1>0, <1>5 DEF UserOK, Operations
      <3> QED
        BY <1>4, <1>5, <2>2, <3>1
    <2> QED
      BY <1>5, <2>1, <2>2 DEF Request
  <1>6. ASSUME NEW r \in Remotes, NEW want, BeginUpdate(r, want) \/ OpenForm(r)
        PROVE  Agreement' /\ FormIsOff'
    <2>1. /\ UNCHANGED <<meta, inbox, unsent>> /\ meta[r] # None
          /\ ui'.at \in {"save", "form"} /\ ui'.r = r /\ ui'.snap = meta[r]
      BY <1>6 DEF BeginUpdate, OpenForm, Operation
    <2>2. FormIsOff'
      BY <2>1 DEF FormIsOff, Enabled
    <2> QED
      BY <1>4, <2>1, <2>2
  <1>7. ASSUME NEW login, NEW port, NEW e \in BOOLEAN, SubmitForm(login, port, e)
        PROVE  Agreement' /\ FormIsOff'
    <2>1. ui # None /\ ui' = None /\ ui.r \in Remotes /\ ui.at = "form"
      BY <1>0, <1>7 DEF SubmitForm, UserOK, Operations
    <2>2. PICK c : meta' = [meta EXCEPT ![ui.r] = [cookie |-> c, port |-> port, enabled |-> e]]
      BY <1>7 DEF SubmitForm
    <2>3. \A r \in Remotes : r # ui.r => meta'[r] = meta[r]
      BY <1>0, <2>2 DEF FilesOK
    <2>4. CASE e \/ ui.snap.enabled
      <3>1. PICK op : Request(op, ui.r)
        BY <1>7, <2>4 DEF SubmitForm
      <3> QED
        BY <1>5, <2>1, <2>3, <3>1 DEF FormIsOff
    <2>5. CASE ~e /\ ~ui.snap.enabled
      <3>1. ~Enabled(ui.r)
        BY <1>0, <2>1, <2>5 DEF FormIsOff
      <3>3. UNCHANGED <<unsent, inbox>>
        BY <1>7, <2>5 DEF SubmitForm
      <3>4. Agreement'
        BY <1>4, <2>1, <2>3, <3>1, <3>3
      <3> QED
        BY <2>1, <3>4 DEF FormIsOff
    <2> QED
      BY <2>4, <2>5
  <1>8. ASSUME SaveUpdate
        PROVE  Agreement' /\ FormIsOff'
    <2>1. ui # None /\ ui.r \in Remotes /\ ui.snap \in Metadata /\ ui \in Operations
      BY <1>0, <1>8 DEF SaveUpdate, UserOK, Operations
    <2>2. ASSUME NEW e \in BOOLEAN, Switch(e),
                 ui' = None \/ (~e /\ ui' = [ui EXCEPT !.at = "delete"])
          PROVE  Agreement' /\ FormIsOff'
      <3>1. meta' = [meta EXCEPT ![ui.r] = [ui.snap EXCEPT !.enabled = e]]
        BY <2>2 DEF Switch
      <3>2. \A r \in Remotes : r # ui.r => meta'[r] = meta[r]
        BY <1>0, <3>1 DEF FilesOK
      <3>3. Agreement'
        BY <1>5, <2>1, <2>2, <3>2 DEF Switch
      <3>4. CASE ui' = None
        BY <3>3, <3>4 DEF FormIsOff
      <3>5. CASE ~e /\ ui' = [ui EXCEPT !.at = "delete"]
        <4>1. meta'[ui.r] = [ui.snap EXCEPT !.enabled = FALSE]
          BY <1>0, <2>1, <3>1, <3>5 DEF FilesOK
        <4>2. ~meta'[ui.r].enabled /\ ui'.r = ui.r
          BY <2>1, <3>5, <4>1 DEF Metadata, Operations
        <4> QED
          BY <3>3, <4>2 DEF FormIsOff, Enabled
      <3> QED
        BY <2>2, <3>4, <3>5
    <2>3. CASE ui.want = "rename"
      <3>1. /\ meta' = [meta EXCEPT ![ui.r] = ui.snap] /\ ui' = None /\ UNCHANGED inbox
            /\ unsent' = IF ui.snap = meta[ui.r] THEN unsent ELSE unsent \union {ui.r}
        BY <1>8, <2>3 DEF SaveUpdate
      <3>2. /\ \A r \in Remotes : r # ui.r => meta'[r] = meta[r]
            /\ ui.r \in unsent' \/ meta'[ui.r] = meta[ui.r]
            /\ unsent \subseteq unsent'
        BY <1>0, <2>1, <3>1 DEF FilesOK
      <3>3. Agreement'
        <4>1. ui.r \in Remotes /\ inbox' = inbox
          BY <2>1, <3>1
        <4> QED
          BY <1>4, <3>2, <4>1
      <3> QED
        BY <3>1, <3>3 DEF FormIsOff
    <2>4. CASE ui.want \in {"on", "off"} /\ Switch(ui.want = "on") /\ ui' = None
      <3>1. (ui.want = "on") \in BOOLEAN
        OBVIOUS
      <3> QED
        BY Zenon, <2>2, <2>4, <3>1
    <2>5. CASE Switch(FALSE) /\ ui' = [ui EXCEPT !.at = "delete"]
      BY Zenon, <2>2, <2>5
    <2> QED
      BY Zenon, <1>8, <2>3, <2>4, <2>5 DEF SaveUpdate
  <1>9. ASSUME Delete
        PROVE  Agreement' /\ FormIsOff'
    <2>1. /\ ui # None /\ ui.r \in Remotes /\ ui.at = "delete" /\ ui' = None
          /\ meta' = [meta EXCEPT ![ui.r] = None] /\ UNCHANGED <<inbox, unsent>>
      BY <1>0, <1>9 DEF Delete, UserOK, Operations
    <2>2. ~Enabled(ui.r) /\ meta'[ui.r] = None /\ \A r \in Remotes : r # ui.r => meta'[r] = meta[r]
      BY <1>0, <2>1 DEF FormIsOff, FilesOK
    <2>3. Agreement'
      <3>1. ui.r \in Remotes /\ inbox' = inbox /\ unsent \subseteq unsent'
        BY <2>1
      <3> QED
        BY <1>4, <2>2, <3>1
    <2> QED
      BY <2>1, <2>3 DEF FormIsOff
  <1>10. ASSUME NEW op, SendForAll(op)
         PROVE  Agreement' /\ FormIsOff'
    <2>1. Intent(op, None).msg = "start" /\ Send(Intent(op, None)) /\ UNCHANGED <<meta, ui>>
      BY <1>10 DEF Intent, SendForAll
    <2> QED
      BY <1>0, <1>3, <2>1, RequestsStay DEF FormIsOff, Enabled
  <1> QED
    BY <1>2, <1>6, <1>7, <1>8, <1>9, <1>10 DEF UserNext, ConvergedInv

\* Steps of others that leave the supervisor's work and the files alone.
LEMMA ConvergedFrame ==
  ASSUME ConvergedInv, UNCHANGED <<meta, running, start, task, inbox, svc, ui, unsent>>,
         InQueue => InQueue', svc' = "up" => HolderKnows'
  PROVE  ConvergedInv'
  <1>1. FormIsOff'
    BY DEF ConvergedInv, FormIsOff, Enabled
  <1>2. ASSUME svc' = "up", NEW r \in Remotes \ unsent' PROVE Agrees(r)'
    <2>1. Agrees(r) /\ (Waiting(r) => Waiting(r)')
      BY <1>2 DEF ConvergedInv, Agreement, Waiting, Asked, InInbox
    <2> QED
      BY <2>1, AgreesStill
  <1> QED
    BY <1>1, <1>2 DEF ConvergedInv, Agreement

\* Kernels refresh their cookie, say that they are ready and end; a thread left
\* over may launch one more.
LEMMA ConvergedKernels ==
  ASSUME TypeOK, ConvergedInv, KernelNext \/ GhostNext
  PROVE  ConvergedInv'
  <1> USE DEF service, user, calls, system, files
  <1>0. KernelsOK /\ HoldersOK /\ UserOK
    BY DEF TypeOK
  <1>1. UNCHANGED <<meta, running, start, task, inbox, svc, ui, unsent>>
    BY DEF KernelNext, KernelPrints, KernelRefreshesCookie, KernelExits, GhostNext
  <1>2. ASSUME svc = "up",
               \A l \in kernels' : l.id > used.kernels
                                   \/ \E k \in kernels : l.id = k.id /\ Same(k.config, l.config)
        PROVE  HolderKnows'
    <2>1. \A r \in Held : running[r].id <= used.kernels /\ running[r].id \in Nat
      BY <1>0 DEF HoldersOK, Held, Holders
    <2>2. used.kernels \in Nat
      BY <1>0 DEF UserOK
    <2> SUFFICES ASSUME NEW r \in Held, NEW l \in kernels', l.id = running[r].id, ~running[r].adopted
                 PROVE  Same(l.config, running[r].config)
      BY <1>1 DEF HolderKnows, Held, Same
    <2>3. PICK k \in kernels : l.id = k.id /\ Same(k.config, l.config)
      BY <1>2, <2>1, <2>2
    <2> QED
      BY ZenonT(40), <1>2, <2>3 DEF ConvergedInv, HolderKnows, Same
  <1>3. ASSUME svc = "up" PROVE HolderKnows'
    <2>1. ASSUME NEW k \in kernels, KernelPrints(k) PROVE HolderKnows'
      <3>1. k \in Kernels
        BY <1>0 DEF KernelsOK
      <3> DEFINE l == [k EXCEPT !.lines = @ + 1]
      <3>2. kernels' = (kernels \ {k}) \union {l} /\ l.id = k.id /\ l.config = k.config
        BY <2>1, <3>1 DEF KernelPrints, Kernels
      <3> HIDE DEF l
      <3> QED
        BY <1>2, <1>3, <3>2 DEF Same
    <2>2. ASSUME NEW k \in kernels, KernelRefreshesCookie(k) PROVE HolderKnows'
      <3>1. k \in Kernels /\ k.config \in Configs /\ k.config.cookie \in Cookies
        BY <1>0 DEF KernelsOK, Kernels, Configs
      <3> DEFINE c == [k.config.cookie EXCEPT !.fresh = @ + 1]
                 d == [k.config EXCEPT !.cookie = c]
                 l == [k EXCEPT !.config = d]
      <3>2. c.login = k.config.cookie.login
        BY <3>1 DEF Cookies
      <3>3. d.port = k.config.port /\ d.cookie.login = k.config.cookie.login
        BY <3>1, <3>2 DEF Configs
      <3>4. kernels' = (kernels \ {k}) \union {l} /\ l.id = k.id /\ l.config = d
        BY <2>2, <3>1 DEF KernelRefreshesCookie, Kernels
      <3> HIDE DEF c, d, l
      <3> QED
        BY <1>2, <1>3, <3>3, <3>4 DEF Same
    <2>3. ASSUME kernels' \subseteq kernels PROVE HolderKnows'
      BY <1>2, <1>3, <2>3 DEF Same
    <2>4. ASSUME NEW g, GhostLaunches(g) PROVE HolderKnows'
      <3>1. used.kernels \in Nat
        BY <1>0 DEF UserOK
      <3>2. \A l \in kernels' : l \in kernels \/ l.id = used.kernels + 1
        BY <2>4 DEF GhostLaunches, NewKernel
      <3> QED
        BY <1>2, <1>3, <3>1, <3>2 DEF Same
    <2> QED
      BY <2>1, <2>2, <2>3, <2>4 DEF KernelNext, KernelExits, GhostNext, GhostWrites
  <1>4. InQueue => InQueue'
    <2>1. queue' = queue \/ \E t : queue' = Append(queue, t)
      BY DEF KernelNext, KernelPrints, KernelRefreshesCookie, KernelExits, GhostNext, Enqueue
    <2>2. CASE queue' = queue
      BY <2>2 DEF InQueue
    <2> QED
      BY <2>1, <2>2, RequestsStay
  <1> QED
    BY <1>1, <1>3, <1>4, ConvergedFrame

\* Fewer kernels, or fewer holders, know as much.
LEMMA KnowsStill ==
  ASSUME HolderKnows, kernels' \subseteq kernels,
         \A r \in Remotes : running'[r] = None \/ running'[r] = running[r]
  PROVE  HolderKnows'
  BY DEF HolderKnows, Held, Same

\* The supervisor's requests: nothing is forgotten between the moment a request
\* is taken and the moment the kernels are compared with the metadata (Look).
LEMMA ConvergedRequests ==
  ASSUME TypeOK, Control, ConvergedInv, svc = "up",
         Take \/ ReadToDisable \/ SaveDisabled \/ Look \/ StopNext \/ Reload \/ StartNext
  PROVE  Agreement'
  <1> USE DEF calls, user, service, system, files
  <1>0. FilesOK /\ TaskOK /\ HoldersOK /\ QueueOK /\ \A r \in Remotes \ unsent : Agrees(r)
    BY DEF TypeOK, ConvergedInv, Agreement
  <1>1. UNCHANGED <<inbox, svc, unsent>>
    BY DEF Take, ReadToDisable, SaveDisabled, Look, StopNext, Reload, StartNext, TaskOnly
  <1>2. ASSUME Asked' PROVE Agreement'
    <2>1. \A r \in Remotes : Agrees(r)'
      BY <1>2 DEF Waiting, Agrees, HeldAgrees, StartAgrees, TodoAgrees
    <2> QED
      BY <2>1 DEF Agreement
  <1>3. CASE Take
    <2>1. queue # <<>> /\ queue' = Tail(queue) /\ task = Idle /\ start = None
          /\ UNCHANGED <<running, meta, start>>
      BY <1>3 DEF Take, Returned
    <2>2. Head(queue) \in Tasks
      BY <1>0, <2>1 DEF QueueOK
    <2>3. task'.at = IF Head(queue).op = "boot" THEN "reconcile" ELSE Head(queue).op
      BY <1>3 DEF Take
    <2>4. CASE Head(queue).op \in Requests
      <3>1. Asked'
        BY <2>3, <2>4 DEF Asked, Requests
      <3> QED
        BY <1>2, <3>1
    <2>5. CASE Head(queue).op \notin Requests
      <3>1. task'.at \in {"pid", "ready", "exit", "retry", "beat"}
        BY <2>2, <2>3, <2>5 DEF Tasks, Requests
      <3>2. Asked => Asked'
        BY <1>1, <2>1, <2>5, RequestsStay DEF Asked, InInbox, Idle
      <3>3. ASSUME NEW r \in Remotes \ unsent PROVE Agrees(r)'
        <4>1. Agrees(r)
          BY <1>0
        <4> QED
          BY <2>1, <3>1, <3>2, <4>1
          DEF Agrees, HeldAgrees, StartAgrees, TodoAgrees, Waiting, Matched, Enabled, Idle, Same
      <3> QED
        BY <1>1, <3>3 DEF Agreement
    <2> QED
      BY <2>4, <2>5
  <1>4. CASE ReadToDisable \/ SaveDisabled
    <2>1. task'.at \in {"disable", "reconcile"}
      BY <1>0, <1>4 DEF ReadToDisable, SaveDisabled, At, TaskOK
    <2> QED
      BY <1>2, <2>1 DEF Asked
  <1>5. CASE Look
    <2>1. /\ task'.at = "stop" /\ task'.todo = Mismatched(task.op) /\ start' = None
          /\ UNCHANGED <<running, meta>>
      BY <1>0, <1>5 DEF Look, TaskOK, At, Returned, TaskOnly
    <2>2. ASSUME NEW r \in Remotes \ unsent PROVE Agrees(r)'
      <3>1. CASE r \in Mismatched(task.op)
        BY <2>1, <3>1 DEF Agrees, HeldAgrees, StartAgrees, TodoAgrees, Waiting
      <3>2. CASE r \notin Mismatched(task.op)
        <4>1. running[r] # None => Enabled(r) /\ running[r].config = Config(meta[r])
          BY <3>2 DEF Mismatched, Held, Wanted
        <4>2. running[r] # None => Same(running[r].config, meta[r])
          BY <4>1 DEF Same, Config
        <4> QED
          BY <2>1, <4>1, <4>2
          DEF Agrees, HeldAgrees, StartAgrees, TodoAgrees, Matched, Enabled, Same
      <3> QED
        BY <3>1, <3>2
    <2> QED
      BY <1>1, <2>2 DEF Agreement
  <1>6. CASE StopNext
    <2>1. PICK q \in task.todo : /\ CallStop("supervisor", q, task.seen[q])
                                 /\ task' = [task EXCEPT !.todo = @ \ {q}]
      BY <1>6 DEF StopNext
    <2>2. q \in Remotes /\ UNCHANGED <<meta, queue, start>> /\ start = None /\ task.at = "stop"
      BY <1>0, <1>6 DEF TaskOK, StopNext, At, Returned
    <2>3. /\ \A r \in Remotes : running'[r] = IF r = q THEN None ELSE running[r]
          /\ task'.at = "stop" /\ task'.todo = task.todo \ {q}
      <3>1. running \in [Remotes -> Holders \union {None}]
        BY <1>0 DEF HoldersOK
      <3>2. \A r \in Remotes : running'[r] = IF r = q THEN None ELSE running[r]
        <4>1. \/ running' = [running EXCEPT ![q] = None]
              \/ running' = running /\ running[q] = None
          BY <2>1 DEF CallStop
        <4> QED
          BY <2>2, <3>1, <4>1
      <3>3. task'.at = "stop" /\ task'.todo = task.todo \ {q}
        BY <1>0, <2>1, <2>2 DEF TaskOK
      <3> QED
        BY <3>2, <3>3
    <2>4. ASSUME NEW r \in Remotes \ unsent PROVE Agrees(r)'
      <3>1. CASE r = q
        BY <2>2, <2>3, <3>1 DEF Agrees, HeldAgrees, StartAgrees, TodoAgrees
      <3>2. CASE r # q
        <4>1. Agrees(r) /\ (Waiting(r) => Waiting(r)')
          BY <1>0, <1>1, <2>2, <2>3, <3>2 DEF Waiting, Asked, InInbox, InQueue
        <4> QED
          BY <2>2, <2>3, <3>2, <4>1
          DEF Agrees, HeldAgrees, StartAgrees, TodoAgrees, Matched, Enabled, Same
      <3> QED
        BY <3>1, <3>2
    <2> QED
      BY <1>1, <2>4 DEF Agreement
  <1>7. CASE Reload
    <2>1. /\ task.at = "stop" /\ task.todo = {} /\ start' = None /\ UNCHANGED <<running, meta, queue>>
          /\ task'.at = "start" /\ task'.todo = Wanted(task.op)
      BY <1>0, <1>7 DEF Reload, TaskOK, At, Returned, TaskOnly
    <2>2. ASSUME NEW r \in Remotes \ unsent PROVE Agrees(r)'
      <3>1. Agrees(r) /\ (Waiting(r) => Waiting(r)')
        BY <1>0, <1>1, <2>1 DEF Waiting, Asked, InInbox, InQueue
      <3>2. r \in Wanted(task.op) => Enabled(r)
        BY DEF Wanted
      <3> QED
        BY <2>1, <3>1, <3>2
        DEF Agrees, HeldAgrees, StartAgrees, TodoAgrees, Matched, Enabled, Same
    <2> QED
      BY <1>1, <2>2 DEF Agreement
  <1>8. CASE StartNext
    <2>1. PICK q \in task.todo :
              /\ task' = [task EXCEPT !.todo = @ \ {q}]
              /\ start' = IF running[q] = None
                          THEN [at |-> "stale", r |-> q, m |-> task.seen[q]] ELSE None
      BY <1>8 DEF StartNext
    <2>2. /\ task.at = "start" /\ task'.at = "start" /\ task'.todo = task.todo \ {q}
          /\ UNCHANGED <<running, meta, queue>>
          /\ start' # None => start'.r = q /\ start'.at = "stale"
      BY <1>0, <1>8, <2>1 DEF TaskOK, StartNext, At
    <2>3. ASSUME NEW r \in Remotes \ unsent PROVE Agrees(r)'
      <3>1. Agrees(r) /\ (Waiting(r) => Waiting(r)')
        BY <1>0, <1>1, <2>2 DEF Waiting, Asked, InInbox, InQueue
      <3> QED
        BY <2>1, <2>2, <3>1
        DEF Agrees, HeldAgrees, StartAgrees, TodoAgrees, Matched, Enabled, Same
    <2> QED
      BY <1>1, <2>3 DEF Agreement
  <1> QED
    BY <1>3, <1>4, <1>5, <1>6, <1>7, <1>8

\* The tasks that take no request and end none of its waiting.
LEMMA WaitsStill ==
  ASSUME TypeOK, queue' = queue, inbox' = inbox \/ inbox' = Append(inbox, Message("destroy")),
         task.at \notin {"stopRemote", "stopAll", "disable", "reconcile", "stop"}
  PROVE  \A r : Waiting(r) => Waiting(r)'
  <1>1. InInbox => InInbox'
    BY RequestsStay DEF InInbox
  <1>2. InQueue => InQueue'
    BY DEF InQueue
  <1> QED
    BY <1>1, <1>2 DEF Waiting, Asked

\* The tail of a reconcile, and a kernel that says it is ready or exits.
LEMMA ConvergedReports ==
  ASSUME TypeOK, Control, ConvergedInv, svc = "up",
         \/ EndReconcile \/ PidSeen \/ PidWritten \/ ReadySeen \/ ReadyAnnounced
         \/ ExitSeen \/ ExitSyncs \/ ExitReports \/ ExitEnds \/ Retry
  PROVE  Agreement'
  <1> USE DEF calls, user, service, system, files
  <1>0. FilesOK /\ TaskOK /\ HoldersOK /\ \A r \in Remotes \ unsent : Agrees(r)
    BY DEF TypeOK, ConvergedInv, Agreement
  <1>1. UNCHANGED <<svc, unsent, queue>>
    BY DEF EndReconcile, PidSeen, PidWritten, ReadySeen, ReadyAnnounced, ExitSeen, ExitSyncs,
           ExitReports, ExitEnds, Retry, TaskOnly
  <1>2. \A r : Waiting(r) => Waiting(r)'
    <2>1. inbox' = inbox \/ inbox' = Append(inbox, Message("destroy"))
      BY DEF EndReconcile, PidSeen, PidWritten, ReadySeen, ReadyAnnounced, ExitSeen, ExitSyncs,
             ExitReports, ExitEnds, Retry, TaskOnly, StopSelf
    <2>2. task.at \notin {"stopRemote", "stopAll", "disable", "reconcile", "stop"}
      BY DEF EndReconcile, PidSeen, PidWritten, ReadySeen, ReadyAnnounced, ExitSeen, ExitSyncs,
             ExitReports, ExitEnds, Retry, At
    <2> QED
      BY <1>1, <2>1, <2>2, WaitsStill
  <1>3. ASSUME meta' = meta, start' = None, task'.at \in {"idle", "pidWrite", "announce",
                                                          "exitSync", "exitReport", "exitEnd"},
               task.at # "beatRead",
               \A r \in Remotes : \/ running'[r] = None \/ running'[r] = running[r]
                                  \/ /\ running[r] # None
                                     /\ running'[r].config = running[r].config
                                     /\ running'[r].adopted = running[r].adopted
        PROVE  Agreement'
    <2>1. ASSUME NEW r \in Remotes \ unsent PROVE Agrees(r)'
      BY <1>0, <1>2, <1>3, <2>1
      DEF Agrees, HeldAgrees, StartAgrees, TodoAgrees, Matched, Enabled, Same
    <2> QED
      BY <1>1, <2>1 DEF Agreement
  <1>4. CASE EndReconcile \/ PidWritten \/ ReadyAnnounced \/ ExitEnds
    BY <1>3, <1>4 DEF EndReconcile, PidWritten, ReadyAnnounced, ExitEnds, At, Returned, Idle
  <1>10. CASE PidSeen
    <2>1. /\ start' = None /\ meta' = meta /\ running' = running /\ task.at = "pid"
          /\ task' = Idle \/ \E c : task' = [task EXCEPT !.at = "pidWrite", !.seen = c]
      BY <1>10 DEF PidSeen, At, Returned, TaskOnly
    <2>3. ASSUME NEW c, task' = [task EXCEPT !.at = "pidWrite", !.seen = c]
          PROVE  task'.at = "pidWrite"
      BY <1>0, <2>3 DEF TaskOK
    <2>4. task'.at \in {"idle", "pidWrite"}
      <3>1. task' = Idle => task'.at = "idle"
        BY DEF Idle
      <3> QED
        BY <2>1, <2>3, <3>1
    <2> QED
      BY <1>3, <2>1, <2>4
  <1>5. CASE ReadySeen
    <2>1. start' = None /\ meta' = meta /\ task.at = "ready" /\ task.r \in Remotes
          /\ task'.at \in {"idle", "announce"}
      <3>1. start' = None /\ meta' = meta /\ task.at = "ready"
        BY <1>5 DEF ReadySeen, At, Returned
      <3>2. task'.at \in {"idle", "announce"}
        <4>1. task' = Idle \/ \E c : task' = [task EXCEPT !.at = "announce", !.seen = c]
          BY <1>5 DEF ReadySeen
        <4>2. CASE task' = Idle
          BY <4>2 DEF Idle
        <4>3. ASSUME NEW c, task' = [task EXCEPT !.at = "announce", !.seen = c]
              PROVE  task'.at = "announce"
          BY <1>0, <4>3 DEF TaskOK
        <4> QED
          BY <4>1, <4>2, <4>3
      <3> QED
        BY <1>0, <3>1, <3>2 DEF TaskOK
    <2>2. \A r \in Remotes : \/ running'[r] = None \/ running'[r] = running[r]
                             \/ /\ running[r] # None
                                /\ running'[r].config = running[r].config
                                /\ running'[r].adopted = running[r].adopted
      <3>1. CASE running' = running
        BY <3>1
      <3>2. CASE running' # running
        <4>1. /\ running' = [running EXCEPT ![task.r].ready = TRUE] /\ running[task.r] # None
              /\ running[task.r] \in Holders
          BY <1>0, <1>5, <2>1, <3>2 DEF ReadySeen, Supervised, HoldersOK
        <4>2. /\ [running[task.r] EXCEPT !.ready = TRUE].config = running[task.r].config
              /\ [running[task.r] EXCEPT !.ready = TRUE].adopted = running[task.r].adopted
          BY <4>1 DEF Holders
        <4>3. \A r \in Remotes : running'[r] = IF r = task.r THEN [running[task.r] EXCEPT !.ready = TRUE]
                                                            ELSE running[r]
          BY <1>0, <2>1, <4>1 DEF HoldersOK
        <4> QED
          BY <4>1, <4>2, <4>3
      <3> QED
        BY <3>1, <3>2
    <2> QED
      BY <1>3, <2>1, <2>2
  <1>6. CASE ExitSeen
    <2>1. /\ start' = None /\ meta' = meta /\ task.at = "exit" /\ task.r \in Remotes
          /\ task'.at \in {"idle", "exitSync", "exitReport"}
          /\ running' = running \/ running' = [running EXCEPT ![task.r] = None]
      BY <1>0, <1>6 DEF ExitSeen, At, Returned, Idle, TaskOK
    <2>2. \A r \in Remotes : running'[r] = None \/ running'[r] = running[r]
      BY <1>0, <2>1 DEF HoldersOK
    <2> QED
      BY <1>3, <2>1, <2>2
  <1>7. CASE ExitSyncs
    <2>1. /\ task.r \in Remotes /\ running[task.r] = None /\ UNCHANGED <<running, start>>
          /\ meta' = SyncRuntimeCookie(task.r) /\ start = None
          /\ task'.at = "exitReport" /\ task.at = "exitSync"
      BY <1>0, <1>7 DEF ExitSyncs, At, Returned, TaskOK, TaskOnly, Control, TaskSeesHolders
    <2>2. \A r \in Remotes : r # task.r => meta'[r] = meta[r]
      BY <1>0, <2>1, SyncTyped
    <2>3. ASSUME NEW r \in Remotes \ unsent PROVE Agrees(r)'
      BY <1>0, <1>2, <2>1, <2>2, <2>3
      DEF Agrees, HeldAgrees, StartAgrees, TodoAgrees, Matched, Enabled, Same
    <2> QED
      BY <1>1, <2>3 DEF Agreement
  <1>8. CASE ExitReports
    <2>1. task'.at = "exitEnd"
      BY <1>0, <1>8 DEF ExitReports, TaskOK
    <2> QED
      BY <1>3, <1>8, <2>1 DEF ExitReports, At, Returned
  <1>9. CASE Retry
    <2>1. /\ task'.at = "idle" /\ task.at = "retry" /\ UNCHANGED <<running, meta>>
          /\ start' # None => Enabled(task.r) /\ start'.r = task.r /\ start'.at = "stale"
      BY <1>9 DEF Retry, At, Idle
    <2>2. ASSUME NEW r \in Remotes \ unsent PROVE Agrees(r)'
      BY <1>0, <1>2, <2>1, <2>2
      DEF Agrees, HeldAgrees, StartAgrees, TodoAgrees, Matched, Enabled, Same
    <2> QED
      BY <1>1, <2>2 DEF Agreement
  <1> QED
    BY <1>4, <1>5, <1>6, <1>7, <1>8, <1>9, <1>10

\* The heartbeat takes the metadata for what the kernel was run with; where it
\* was not, the holder says so from then on.
LEMMA ConvergedBeats ==
  ASSUME TypeOK, Control, ConvergedInv, svc = "up", BeatNext \/ BeatSyncs \/ BeatReads
  PROVE  Agreement' /\ HolderKnows'
  <1> USE DEF calls, user, service, system, files
  <1>0. /\ FilesOK /\ TaskOK /\ HoldersOK /\ HolderKnows
        /\ \A r \in Remotes \ unsent : Agrees(r)
    BY DEF TypeOK, ConvergedInv, Agreement
  <1>1. UNCHANGED <<svc, unsent, queue, inbox, kernels, start>> /\ start = None
    BY DEF BeatNext, BeatSyncs, BeatReads, TaskOnly, At, Returned
  <1>2. \A r : Waiting(r) => Waiting(r)'
    <2>1. task.at \notin {"stopRemote", "stopAll", "disable", "reconcile", "stop"}
      BY DEF BeatNext, BeatSyncs, BeatReads, At
    <2> QED
      BY <1>1, <2>1, WaitsStill
  <1>3. CASE BeatNext
    <2>1. UNCHANGED <<running, meta>> /\ task.at = "beat"
      BY <1>3 DEF BeatNext, At
    <2>2. task'.at # "start"
      <3>1. task' = Idle \/ \E r \in task.todo : \/ task' = [task EXCEPT !.r = r, !.at = "beatSync"]
                                                \/ task' = [task EXCEPT !.todo = @ \ {r}]
        BY <1>3 DEF BeatNext
      <3> QED
        <4>1. CASE task' = Idle
          BY <4>1 DEF Idle
        <4>2. ASSUME NEW r, \/ task' = [task EXCEPT !.r = r, !.at = "beatSync"]
                            \/ task' = [task EXCEPT !.todo = @ \ {r}]
              PROVE  task'.at # "start"
          <5>1. task = [op |-> task.op, r |-> task.r, id |-> task.id, at |-> task.at,
                        todo |-> task.todo, seen |-> task.seen]
            BY <1>0 DEF TaskOK
          <5> QED
            BY <2>1, <4>2, <5>1
        <4> QED
          BY <3>1, <4>1, <4>2
    <2>3. ASSUME NEW r \in Remotes \ unsent PROVE Agrees(r)'
      BY <1>0, <1>1, <1>2, <2>1, <2>2, <2>3
      DEF Agrees, HeldAgrees, StartAgrees, TodoAgrees, Matched, Enabled, Same
    <2> QED
      BY <1>0, <1>1, <2>1, <2>3, KnowsStill DEF Agreement
  <1>4. CASE BeatSyncs
    <2>1. /\ task.r \in Remotes /\ UNCHANGED running /\ meta' = SyncRuntimeCookie(task.r)
          /\ task'.at = "beatRead" /\ task'.r = task.r /\ task.at = "beatSync"
      BY <1>0, <1>4 DEF BeatSyncs, At, TaskOK, TaskOnly
    <2>2. \A r \in Remotes : /\ r # task.r => meta'[r] = meta[r]
                             /\ meta'[r] = None <=> meta[r] = None
                             /\ meta[r] # None => meta'[r].enabled = meta[r].enabled
      BY <1>0, <2>1, SyncTyped
    <2>3. ASSUME NEW r \in Remotes \ unsent PROVE Agrees(r)'
      BY <1>0, <1>1, <1>2, <2>1, <2>2, <2>3
      DEF Agrees, HeldAgrees, StartAgrees, TodoAgrees, Matched, Enabled, Same
    <2> QED
      BY <1>0, <1>1, <2>1, <2>3, KnowsStill DEF Agreement
  <1>5. CASE BeatReads
    <2>1. /\ task.r \in Remotes /\ task.at = "beatRead" /\ meta' = meta
          /\ task'.at = "beat"
      BY <1>0, <1>5 DEF TaskOK, BeatReads, At
    <2> DEFINE read ==
            IF meta[task.r] = None \/ running[task.r] = None THEN running[task.r]
            ELSE [running[task.r] EXCEPT !.config = Config(meta[task.r]),
                     !.adopted = @ \/ meta[task.r].port # running[task.r].config.port
                                   \/ meta[task.r].cookie.login # running[task.r].config.cookie.login]
    <2>2. running' = [running EXCEPT ![task.r] = read]
      BY Zenon, <1>5 DEF BeatReads
    <2>3. /\ meta[task.r] # None /\ running[task.r] # None => Same(read.config, meta[task.r])
          /\ read.adopted \/ Same(running[task.r].config, read.config)
             \/ running[task.r] = None \/ read = running[task.r]
          /\ running[task.r] # None /\ running[task.r].adopted => read.adopted
          /\ running[task.r] = None => read = None
          /\ running[task.r] # None => read.id = running[task.r].id
      <3>1. CASE meta[task.r] = None \/ running[task.r] = None
        BY <3>1 DEF Same
      <3>2. CASE ~(meta[task.r] = None \/ running[task.r] = None)
        <4>1. running[task.r] \in Holders
          BY <1>0, <2>1, <3>2 DEF HoldersOK
        <4> DEFINE a == running[task.r].adopted \/ meta[task.r].port # running[task.r].config.port
                        \/ meta[task.r].cookie.login # running[task.r].config.cookie.login
        <4>2. /\ read.config = Config(meta[task.r]) /\ read.id = running[task.r].id
              /\ read.adopted = a
          BY <3>2, <4>1 DEF Holders
        <4>3. a \/ Same(running[task.r].config, Config(meta[task.r]))
          BY DEF Same, Config
        <4>4. Same(Config(meta[task.r]), meta[task.r])
          BY DEF Same, Config
        <4>5. running[task.r].adopted => a
          OBVIOUS
        <4> HIDE DEF read, a
        <4> QED
          BY <3>2, <4>2, <4>3, <4>4, <4>5
      <3> QED
        BY <3>1, <3>2
    <2> HIDE DEF read
    <2>4. \A r \in Remotes : running'[r] = IF r = task.r THEN read ELSE running[r]
      BY <1>0, <2>1, <2>2 DEF HoldersOK
    <2>5. ASSUME NEW r \in Remotes \ unsent PROVE Agrees(r)'
      <3>1. Agrees(r) /\ (Waiting(r) => Waiting(r)')
        BY <1>0, <1>2
      <3>2. CASE r = task.r
        BY <1>1, <2>1, <2>3, <2>4, <3>1, <3>2
        DEF Agrees, HeldAgrees, StartAgrees, TodoAgrees, Matched, Enabled, Same
      <3>3. CASE r # task.r
        BY <1>1, <2>1, <2>4, <3>1, <3>3
        DEF Agrees, HeldAgrees, StartAgrees, TodoAgrees, Matched, Enabled, Same
      <3> QED
        BY <3>2, <3>3
    <2>6. HolderKnows'
      BY <1>0, <1>1, <2>1, <2>3, <2>4 DEF HolderKnows, Held, Same
    <2> QED
      BY <1>1, <2>5, <2>6 DEF Agreement
  <1> QED
    BY <1>3, <1>4, <1>5

\* startProcess reads the metadata it launches the kernel with (ReadConfig);
\* what changes after that is followed by a request.
LEMMA ConvergedCalls ==
  ASSUME TypeOK, Control, ConvergedInv, svc = "up", CallNext \/ StopEnds("main")
  PROVE  Agreement' /\ HolderKnows'
  <1> USE DEF user, system, files
  <1>0. /\ FilesOK /\ CallsOK /\ HoldersOK /\ KernelsOK /\ UserOK /\ HolderKnows /\ CallsWait
        /\ \A r \in Remotes \ unsent : Agrees(r)
    BY DEF TypeOK, Control, ConvergedInv, Agreement
  <1>1. UNCHANGED <<svc, unsent, queue, inbox, task>>
    BY DEF CallNext, CallOnly, StopEnds, TerminateStale, ReadConfig, WriteConfig, Launch,
           StartFails
  <1>2. \A r : Waiting(r) => Waiting(r)'
    BY <1>1 DEF Waiting, Asked, InInbox, InQueue
  <1>3. ~StopEnds("main")
    BY <1>0 DEF StopEnds, CallsWait
  <1>4. CASE StopEnds("supervisor")
    <2>1. /\ Sup.r \in Remotes /\ running[Sup.r] = None /\ start = None
          /\ UNCHANGED <<running, start, kernels>>
      BY <1>0, <1>4 DEF StopEnds, CallsOK, Stops, CallsWait, Sup
    <2>2. \A r \in Remotes : r # Sup.r => meta'[r] = meta[r]
      BY <1>0, <1>4, <2>1, SyncTyped DEF StopEnds, Sup
    <2>3. task.at = "stop"
      BY <1>0, <1>4 DEF StopEnds, CallsWait, Sup
    <2>4. ASSUME NEW r \in Remotes \ unsent PROVE Agrees(r)'
      BY <1>0, <1>1, <1>2, <2>1, <2>2, <2>3, <2>4
      DEF Agrees, HeldAgrees, StartAgrees, TodoAgrees, Matched, Enabled, Same
    <2> QED
      BY <1>0, <1>1, <2>1, <2>4, KnowsStill DEF Agreement
  <1>5. ASSUME start # None
        PROVE  /\ start \in Starts /\ start.r \in Remotes /\ running[start.r] = None
               /\ task.at \in {"idle", "start"}
    BY <1>0, <1>5 DEF CallsOK, Starts, CallsWait
  <1>6. CASE TerminateStale
    <2>1. /\ start # None /\ start.at = "stale" /\ start' = [start EXCEPT !.at = "config"]
          /\ meta' = meta \/ meta' = SyncRuntimeCookie(start.r)
          /\ running' = running
      BY <1>6 DEF TerminateStale
    <2>2. start'.r = start.r /\ start'.at = "config"
      BY <1>5, <2>1 DEF Starts
    <2>3. \A r \in Remotes : /\ r # start.r => meta'[r] = meta[r]
                             /\ meta'[r] = None <=> meta[r] = None
                             /\ meta[r] # None => meta'[r].enabled = meta[r].enabled
      BY <1>0, <1>5, <2>1, SyncTyped
    <2>4. ASSUME NEW r \in Remotes \ unsent PROVE Agrees(r)'
      BY <1>0, <1>1, <1>2, <1>5, <2>1, <2>2, <2>3, <2>4
      DEF Agrees, HeldAgrees, StartAgrees, TodoAgrees, Matched, Enabled, Same
    <2>5. \A l \in kernels' : \E k \in kernels : l.id = k.id /\ l.config = k.config
      <3>1. ASSUME NEW k \in kernels, NEW l, l = [k EXCEPT !.stale = TRUE]
            PROVE  l.id = k.id /\ l.config = k.config
        BY <1>0, <3>1 DEF KernelsOK, Kernels
      <3>2. \A l \in kernels' : \E k \in kernels : l = k \/ l = [k EXCEPT !.stale = TRUE]
        BY <1>6 DEF TerminateStale, Stale
      <3> QED
        BY <3>1, <3>2
    <2>6. HolderKnows'
      <3> SUFFICES ASSUME NEW r \in Held, NEW l \in kernels', l.id = running[r].id,
                          ~running[r].adopted
                   PROVE  Same(l.config, running[r].config)
        BY <2>1 DEF HolderKnows, Held, Same
      <3>1. PICK k \in kernels : l.id = k.id /\ l.config = k.config
        BY <2>5
      <3> QED
        BY <1>0, <3>1 DEF HolderKnows
    <2> QED
      BY <1>1, <2>4, <2>6 DEF Agreement
  <1>7. CASE ReadConfig
    <2>1. PICK m : /\ m = IF meta[start.r] = None THEN start.m ELSE meta[start.r]
                   /\ start' = [start EXCEPT !.at = "write", !.m = m]
      BY <1>7 DEF ReadConfig
    <2>2. start # None /\ UNCHANGED <<meta, running, kernels>>
      BY <1>7 DEF CallOnly, ReadConfig
    <2>3. start'.r = start.r /\ start'.m = m
      BY <1>5, <2>1, <2>2 DEF Starts
    <2>4. ASSUME NEW r \in Remotes \ unsent PROVE Agrees(r)'
      BY <1>0, <1>1, <1>2, <1>5, <2>1, <2>2, <2>3, <2>4
      DEF Agrees, HeldAgrees, StartAgrees, TodoAgrees, Matched, Enabled, Same
    <2> QED
      BY <1>0, <1>1, <2>2, <2>4, KnowsStill DEF Agreement
  <1>10. CASE WriteConfig
    <2>1. /\ start # None /\ start.at = "write" /\ start' = [start EXCEPT !.at = "launch"]
          /\ UNCHANGED <<meta, running, kernels>>
      BY <1>10 DEF CallOnly, WriteConfig
    <2>2. start'.r = start.r /\ start'.m = start.m
      BY <1>5, <2>1 DEF Starts
    <2>3. ASSUME NEW r \in Remotes \ unsent PROVE Agrees(r)'
      BY <1>0, <1>1, <1>2, <1>5, <2>1, <2>2, <2>3
      DEF Agrees, HeldAgrees, StartAgrees, TodoAgrees, Matched, Enabled, Same
    <2> QED
      BY <1>0, <1>1, <2>1, <2>3, KnowsStill DEF Agreement
  <1>8. CASE Launch
    <2> DEFINE k == NewKernel(start.r, start.m, "service")
               h == [id |-> k.id, config |-> k.config, ready |-> FALSE, adopted |-> FALSE]
    <2>1. /\ kernels' = kernels \union {k} /\ running' = [running EXCEPT ![start.r] = h]
          /\ start # None /\ start.at = "launch" /\ start' = None /\ meta' = meta
      BY <1>8 DEF Launch
    <2>2. k.id = used.kernels + 1 /\ h.id = k.id /\ h.config = k.config /\ Same(h.config, start.m)
      BY DEF NewKernel, Config, Same
    <2> HIDE DEF k, h
    <2>3. \A r \in Remotes : running'[r] = IF r = start.r THEN h ELSE running[r]
      BY <1>0, <2>1 DEF HoldersOK
    <2>4. ASSUME NEW r \in Remotes \ unsent PROVE Agrees(r)'
      BY <1>0, <1>1, <1>2, <1>5, <2>1, <2>2, <2>3, <2>4
      DEF Agrees, HeldAgrees, StartAgrees, TodoAgrees, Matched, Enabled, Same
    <2>5. /\ used.kernels \in Nat
          /\ \A j \in kernels : j.id <= used.kernels /\ j.id \in Nat
          /\ \A r \in Held : running[r].id <= used.kernels /\ running[r].id \in Nat
      BY <1>0 DEF UserOK, KernelsOK, Kernels, HoldersOK, Held, Holders
    <2>6. ASSUME NEW r \in Remotes, running'[r] # None, NEW j \in kernels',
                 j.id = running'[r].id, ~running'[r].adopted
          PROVE  Same(j.config, running'[r].config)
      <3>1. CASE r = start.r
        <4>1. j = k
          BY <2>1, <2>2, <2>3, <2>5, <2>6, <3>1
        <4> QED
          BY <2>2, <2>3, <3>1, <4>1 DEF Same
      <3>2. CASE r # start.r
        <4>1. running'[r] = running[r] /\ r \in Held
          BY <2>3, <2>6, <3>2 DEF Held
        <4>2. j \in kernels
          BY <2>1, <2>2, <2>5, <2>6, <4>1
        <4> QED
          BY <1>0, <2>6, <4>1, <4>2 DEF HolderKnows
      <3> QED
        BY <3>1, <3>2
    <2>7. HolderKnows'
      BY <2>6 DEF HolderKnows, Held, Same
    <2> QED
      BY <1>1, <2>4, <2>7 DEF Agreement
  <1>9. CASE StartFails
    <2>1. start' = None /\ UNCHANGED <<meta, running, kernels>>
      BY <1>9 DEF StartFails
    <2>2. ASSUME NEW r \in Remotes \ unsent PROVE Agrees(r)'
      BY <1>0, <1>1, <1>2, <2>1, <2>2
      DEF Agrees, HeldAgrees, StartAgrees, TodoAgrees, Matched, Enabled, Same
    <2> QED
      BY <1>0, <1>1, <2>1, <2>2, KnowsStill DEF Agreement
  <1> QED
    BY <1>3, <1>4, <1>6, <1>7, <1>8, <1>9, <1>10 DEF CallNext

\* The supervisor's steps: when the service is being closed only what the
\* holders know still counts.
LEMMA ConvergedSupervisor ==
  ASSUME TypeOK, Control, ConvergedInv, SupervisorNext \/ StopEnds("main")
  PROVE  ConvergedInv'
  <1> USE DEF calls, user, service, system, files
  <1>0. FilesOK /\ TaskOK /\ CallsOK /\ HoldersOK /\ FormIsOff
    BY DEF TypeOK, ConvergedInv
  <1>1. UNCHANGED <<svc, ui>>
    BY DEF SupervisorNext, TaskNext, CallNext, Take, ReadToDisable, SaveDisabled, Look, StopNext,
           Reload, StartNext, EndReconcile, PidSeen, PidWritten, ReadySeen, ReadyAnnounced,
           ExitSeen, ExitSyncs, ExitReports, ExitEnds, Retry, BeatNext, BeatSyncs, BeatReads,
           TaskOnly, CallOnly, StopEnds, TerminateStale, ReadConfig, WriteConfig, Launch, StartFails
  <1>2. FormIsOff'
    <2>1. ASSUME \A r \in Remotes : Enabled(r)' => Enabled(r)
          PROVE  FormIsOff'
      <3>1. ui # None => ui.r \in Remotes
        BY DEF TypeOK, UserOK, Operations
      <3> QED
        BY <1>0, <1>1, <2>1, <3>1 DEF FormIsOff
    <2>2. ASSUME NEW q \in Remotes, meta' = SyncRuntimeCookie(q)
          PROVE  FormIsOff'
      BY <1>0, <2>1, <2>2, SyncTyped DEF Enabled
    <2>3. CASE meta' = meta
      BY <2>1, <2>3 DEF Enabled
    <2>4. CASE SaveDisabled
      <3>1. ASSUME NEW q \in task.todo,
                   meta' = [meta EXCEPT ![q] = [task.seen[q] EXCEPT !.enabled = FALSE]]
            PROVE  FormIsOff'
        <4>1. q \in Remotes /\ task.seen[q] \in Metadata
          BY <1>0, <2>4 DEF TaskOK, SaveDisabled, At
        <4>2. ~meta'[q].enabled /\ \A r \in Remotes : r # q => meta'[r] = meta[r]
          BY <1>0, <3>1, <4>1 DEF FilesOK, Metadata
        <4> QED
          BY <2>1, <4>2 DEF Enabled
      <3> QED
        BY <2>3, <2>4, <3>1 DEF SaveDisabled
    <2>5. CASE ExitSyncs \/ BeatSyncs
      <3>1. task.r \in Remotes /\ meta' = SyncRuntimeCookie(task.r)
        BY <1>0, <2>5 DEF ExitSyncs, BeatSyncs, TaskOK, At
      <3> QED
        BY <2>2, <3>1
    <2>6. CASE TerminateStale
      <3>1. start.r \in Remotes
        BY <1>0, <2>6 DEF TerminateStale, CallsOK, Starts
      <3> QED
        BY <2>2, <2>3, <2>6, <3>1 DEF TerminateStale
    <2>7. ASSUME NEW t \in {"supervisor", "main"}, StopEnds(t)
          PROVE  FormIsOff'
      <3>1. stop[t].r \in Remotes
        BY <1>0, <2>7 DEF StopEnds, CallsOK, Stops
      <3> QED
        BY <2>2, <2>3, <2>7, <3>1 DEF StopEnds
    <2>8. CASE ~SaveDisabled /\ ~ExitSyncs /\ ~BeatSyncs /\ ~TerminateStale
               /\ ~StopEnds("main") /\ ~StopEnds("supervisor")
      <3>1. meta' = meta
        BY <2>8
        DEF SupervisorNext, TaskNext, CallNext, Take, ReadToDisable, Look, StopNext, Reload,
            StartNext, EndReconcile, PidSeen, PidWritten, ReadySeen, ReadyAnnounced, ExitSeen,
            ExitReports, ExitEnds, Retry, BeatNext, BeatReads, TaskOnly, CallOnly, ReadConfig,
            WriteConfig, Launch, StartFails
      <3> QED
        BY <2>3, <3>1
    <2> QED
      BY <2>4, <2>5, <2>6, <2>7, <2>8
  <1>3. ASSUME svc = "up" PROVE Agreement' /\ HolderKnows'
    <2>1. CASE BeatNext \/ BeatSyncs \/ BeatReads \/ CallNext \/ StopEnds("main")
      BY <1>3, <2>1, ConvergedBeats, ConvergedCalls
    <2>2. CASE \/ Take \/ ReadToDisable \/ SaveDisabled \/ Look \/ StopNext \/ Reload \/ StartNext
               \/ EndReconcile \/ PidSeen \/ PidWritten \/ ReadySeen \/ ReadyAnnounced
               \/ ExitSeen \/ ExitSyncs \/ ExitReports \/ ExitEnds \/ Retry
      <3>1. Agreement'
        BY <1>3, <2>2, ConvergedRequests, ConvergedReports
      <3>2. HolderKnows
        BY <1>3 DEF ConvergedInv
      <3>3. CASE ~ReadySeen
        <4>1. kernels' \subseteq kernels
          BY <2>2, <3>3, CallStopRemoves
          DEF Take, ReadToDisable, SaveDisabled, Look, StopNext, Reload, StartNext, EndReconcile,
              PidSeen, PidWritten, ReadyAnnounced, ExitSeen, ExitSyncs, ExitReports, ExitEnds, Retry, TaskOnly
        <4>2. \A r \in Remotes : running'[r] = None \/ running'[r] = running[r]
          <5>1. CASE StopNext
            <6>1. PICK q \in task.todo : CallStop("supervisor", q, task.seen[q])
              BY <5>1 DEF StopNext
            <6>2. q \in Remotes
              BY <1>0, <6>1 DEF TaskOK
            <6> QED
              BY <1>0, <6>1, <6>2 DEF CallStop, HoldersOK
          <5>2. CASE ExitSeen
            BY <1>0, <5>2 DEF ExitSeen, HoldersOK
          <5>3. CASE ~StopNext /\ ~ExitSeen
            BY <2>2, <3>3, <5>3
            DEF Take, ReadToDisable, SaveDisabled, Look, Reload, StartNext, EndReconcile,
                PidSeen, PidWritten, ReadyAnnounced, ExitSyncs, ExitReports, ExitEnds, Retry, TaskOnly
          <5> QED
            BY <5>1, <5>2, <5>3
        <4> QED
          BY <3>1, <3>2, <4>1, <4>2, KnowsStill
      <3>4. CASE ReadySeen
        <4>1. kernels' = kernels
          BY <3>4 DEF ReadySeen
        <4>2. CASE running' = running
          BY <3>1, <3>2, <4>1, <4>2, KnowsStill
        <4>3. CASE running' # running
          <5>1. /\ running' = [running EXCEPT ![task.r].ready = TRUE] /\ running[task.r] # None
                /\ running[task.r] \in Holders /\ task.r \in Remotes
            BY <1>0, <3>4, <4>3 DEF ReadySeen, Supervised, HoldersOK, TaskOK, At
          <5> DEFINE h == [running[task.r] EXCEPT !.ready = TRUE]
          <5>2. /\ h.config = running[task.r].config /\ h.adopted = running[task.r].adopted
                /\ h.id = running[task.r].id
            BY <5>1 DEF Holders
          <5>3. \A r \in Remotes : running'[r] = IF r = task.r THEN h ELSE running[r]
            BY <1>0, <5>1 DEF HoldersOK
          <5> HIDE DEF h
          <5> QED
            BY <3>1, <3>2, <4>1, <5>1, <5>2, <5>3 DEF HolderKnows, Held, Same
        <4> QED
          BY <4>2, <4>3
      <3> QED
        BY <3>3, <3>4
    <2> QED
      BY <2>1, <2>2 DEF SupervisorNext, TaskNext
  <1>4. CASE svc # "up"
    BY <1>1, <1>2, <1>4 DEF ConvergedInv, Agreement
  <1> QED
    BY <1>2, <1>3, <1>4 DEF ConvergedInv

\* The queue's other writers, and the main thread: a service that is created
\* has no kernels yet, and one that is closed promises nothing more.
LEMMA ConvergedOthers ==
  ASSUME TypeOK, Control, ConvergedInv,
         \/ PostNext \/ Beat \/ Create \/ OnStartCommand \/ OnDestroy \/ DestroyStops
         \/ Shutdown \/ Crash \/ UNCHANGED vars
  PROVE  ConvergedInv'
  <1> USE DEF calls, user, service, files
  <1>0. FormIsOff /\ CallsWait
    BY DEF ConvergedInv, Control
  <1>1. UNCHANGED <<meta, ui>>
    BY DEF PostNext, Post, Beat, Create, OnStartCommand, OnDestroy, DestroyStops, Shutdown, Crash, vars
  <1>2. FormIsOff'
    BY <1>0, <1>1 DEF FormIsOff, Enabled
  <1>3. CASE PostNext \/ Beat
    <2>1. UNCHANGED <<meta, running, start, task, inbox, svc, ui, unsent, kernels>>
      BY <1>3 DEF PostNext, Post, Beat, system
    <2>2. InQueue => InQueue'
      BY <1>3, RequestsStay DEF PostNext, Post, Beat, Enqueue
    <2>3. svc' = "up" => HolderKnows'
      BY <2>1 DEF ConvergedInv, HolderKnows, Held, Same
    <2> QED
      BY <2>1, <2>2, <2>3, ConvergedFrame
  <1>4. CASE Create
    <2>1. /\ Held = {} /\ task.at = "idle" /\ start = None
          /\ UNCHANGED <<running, start, task>>
      BY <1>4 DEF Create, TypeOK, NothingLeft, Idle
    <2>2. HolderKnows' /\ Agreement'
      BY <2>1 DEF HolderKnows, Held, Agreement, Agrees, HeldAgrees, StartAgrees, TodoAgrees
    <2> QED
      BY <1>2, <2>2 DEF ConvergedInv
  <1>5. CASE OnStartCommand
    <2>1. /\ svc = "up" /\ svc' = "up" /\ inbox # <<>> /\ inbox' = Tail(inbox)
          /\ Head(inbox).msg = "start"
          /\ queue' = Append(queue, Task(Head(inbox).op, Head(inbox).r, 0))
          /\ UNCHANGED <<running, start, task, kernels, unsent>>
      BY <1>5 DEF OnStartCommand, Receives, Enqueue
    <2>2. Head(inbox) \in Messages
      BY <2>1 DEF TypeOK, SystemOK
    <2>3. Task(Head(inbox).op, Head(inbox).r, 0).op \in Requests
      BY <2>1, <2>2 DEF Task, Messages
    <2>4. InQueue'
      BY <2>1, <2>3, RequestsStay
    <2>5. Agreement'
      BY <2>4 DEF Agreement, Agrees, HeldAgrees, StartAgrees, TodoAgrees, Waiting, Asked
    <2>6. HolderKnows'
      BY <2>1 DEF ConvergedInv, HolderKnows, Held, Same
    <2> QED
      BY <1>2, <2>5, <2>6 DEF ConvergedInv
  <1>6. CASE OnDestroy \/ DestroyStops \/ Shutdown \/ Crash
    <2>1. CASE OnDestroy \/ Shutdown \/ Crash
      <3>1. svc' # "up"
        BY <2>1 DEF OnDestroy, Shutdown, Crash, Abandoned
      <3> QED
        BY <1>2, <3>1 DEF ConvergedInv, Agreement
    <2>2. CASE DestroyStops
      <3>1. svc' # "up"
        BY <1>0, <2>2 DEF DestroyStops, CallsWait
      <3> QED
        BY <1>2, <3>1 DEF ConvergedInv, Agreement
    <2> QED
      BY <1>6, <2>1, <2>2
  <1>7. CASE UNCHANGED vars
    <2>1. UNCHANGED <<meta, running, start, task, inbox, svc, ui, unsent, kernels, queue>>
      BY <1>7 DEF vars, system
    <2>2. svc' = "up" => HolderKnows'
      BY <2>1 DEF ConvergedInv, HolderKnows, Held, Same
    <2> QED
      BY <2>1, <2>2, ConvergedFrame DEF InQueue
  <1> QED
    BY <1>3, <1>4, <1>5, <1>6, <1>7

\* At rest, every kernel the service supervises is one of an enabled remote and
\* runs with the cookie and the port of its metadata (reconcileInternal,
\* heartbeat): no order of edits, requests, exits, restarts of the service and
\* tasks under way leaves a kernel behind with another configuration, but for
\* the exceptions Converged names.
THEOREM AlwaysConverged == Spec => []Converged
  <1>1. Init => TypeOK /\ Control /\ ConvergedInv
    BY TypesAtFirst, ControlInit, ConvergedInit
  <1>2. TypeOK /\ Control /\ ConvergedInv /\ [Next]_vars => (TypeOK /\ Control /\ ConvergedInv)'
    <2> SUFFICES ASSUME TypeOK, Control, ConvergedInv, [Next]_vars
                 PROVE  (TypeOK /\ Control /\ ConvergedInv)'
      OBVIOUS
    <2>1. TypeOK' /\ Control'
      BY StepsTyped, ControlKept
    <2>2. ConvergedInv'
      BY ConvergedUser, ConvergedKernels, ConvergedSupervisor, ConvergedOthers
      DEF Next, MainNext
    <2> QED
      BY <2>1, <2>2
  <1>3. TypeOK /\ ConvergedInv => Converged
    BY RestConverges
  <1> QED
    BY <1>1, <1>2, <1>3, PTL DEF Spec
=============================================================================
