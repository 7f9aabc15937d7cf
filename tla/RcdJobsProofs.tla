--------------------------- MODULE RcdJobsProofs ---------------------------
(***************************************************************************)
(* Proofs about RcdJobs: the monitor loses sight of no running job while   *)
(* it lives, and a trim of memory between two of its passes kills none,    *)
(* for every number of jobs, daemons, errors and messages.                 *)
(***************************************************************************)
EXTENDS RcdJobs, TLAPS

\* What the monitor holds at each of its steps.
MonitorTyped ==
  /\ monitor = [at |-> monitor.at, now |-> monitor.now, kept |-> monitor.kept]
  /\ monitor.at \in {"none", "dead", "take", "addBack", "check", "ask", "delay"}
  /\ monitor.at \in {"addBack", "ask"} => monitor.now \in Jobs
  /\ monitor.at \notin {"addBack", "ask"} => monitor.now = None
  /\ monitor.at \notin {"check", "ask"} => monitor.kept = <<>>
  /\ monitor.kept \in Seq(Jobs)

TrackTyped ==
  /\ job \in [Jobs -> JobStates]
  /\ caller \in [Jobs -> CallerSteps]
  /\ queue \in Seq(Jobs)
  /\ MonitorTyped

\* Only a submission makes a job run.
RunningIsSubmitted == \A j \in Jobs : job[j] = "running" => caller[j] # "idle"

TrackInv == TrackTyped /\ RunningIsSubmitted /\ JobsAreTracked

----------------------------------------------------------------------------
(* Sequences *)

\* Putting an id at the end keeps what was there (pendingJobs.add).
LEMMA ToSetAppend ==
  ASSUME NEW S, NEW s \in Seq(S), NEW e \in S
  PROVE  ToSet(Append(s, e)) = ToSet(s) \union {e}
  <1>1. DOMAIN Append(s, e) = 1 .. Len(s) + 1 /\ DOMAIN s = 1 .. Len(s) /\ Len(s) \in Nat
    OBVIOUS
  <1>2. \A i \in 1 .. Len(s) : Append(s, e)[i] = s[i]
    OBVIOUS
  <1>3. Append(s, e)[Len(s) + 1] = e
    OBVIOUS
  <1>4. 1 .. Len(s) + 1 = (1 .. Len(s)) \union {Len(s) + 1}
    BY <1>1
  <1> HIDE DEF ToSet
  <1> QED
    BY <1>1, <1>2, <1>3, <1>4 DEF ToSet

\* Taking the first id away loses no other (pendingJobs.take, remove).
LEMMA ToSetTail ==
  ASSUME NEW S, NEW s \in Seq(S), s # <<>>
  PROVE  /\ Head(s) \in S /\ Tail(s) \in Seq(S)
         /\ ToSet(s) \subseteq {Head(s)} \union ToSet(Tail(s))
  <1>1. Len(s) \in Nat /\ Len(s) > 0 /\ Len(Tail(s)) = Len(s) - 1 /\ Tail(s) \in Seq(S)
    OBVIOUS
  <1>2. ASSUME NEW i \in 1 .. Len(s)
        PROVE  s[i] \in {Head(s)} \union ToSet(Tail(s))
    <2>1. CASE i = 1
      BY <2>1
    <2>2. CASE i # 1
      <3>1. i - 1 \in 1 .. Len(Tail(s)) /\ Tail(s)[i - 1] = s[i]
        BY <1>1, <2>2
      <3>2. DOMAIN Tail(s) = 1 .. Len(Tail(s))
        BY <1>1
      <3> QED
        BY <3>1, <3>2 DEF ToSet
    <2> QED
      BY <2>1, <2>2
  <1> QED
    BY <1>1, <1>2 DEF ToSet

----------------------------------------------------------------------------
(* The steps *)

\* A monitor that holds nothing (between passes, or gone).
LEMMA HoldingNothing ==
  ASSUME NEW at \in {"none", "dead", "take", "check", "delay"}, monitor' = MonitorAt(at)
  PROVE  MonitorTyped'
  <1>1. monitor' = [at |-> at, now |-> None, kept |-> <<>>]
    BY DEF MonitorAt
  <1>2. monitor'.at = at /\ monitor'.now = None /\ monitor'.kept = <<>>
    BY <1>1
  <1>3. monitor'.kept \in Seq(Jobs)
    BY <1>2
  <1> QED
    BY <1>1, <1>2, <1>3 DEF MonitorTyped

\* Whatever takes the daemon away takes its running jobs with it.
LEMMA NoneRunning ==
  ASSUME job \in [Jobs -> JobStates], LoseJobs
  PROVE  job' \in [Jobs -> JobStates] /\ \A j \in Jobs : job'[j] # "running"
  BY DEF LoseJobs, JobStates

\* The service replaces or stops the daemon (getLocalRcd, shutdown).
LEMMA ServiceKeeps ==
  ASSUME ConstantsAssumption, TrackInv, ServiceStep
  PROVE  TrackInv'
  <1> USE DEF TrackInv
  <1>1. CASE GetLocalRcd \/ TrimMemory \/ StopAll
    <2>1. LoseJobs /\ queue' = <<>> /\ monitor' \in {MonitorAt("take"), MonitorAt("none")}
          /\ caller' = [j \in Jobs |-> IF Submitting(j) THEN "done" ELSE caller[j]]
      BY <1>1 DEF GetLocalRcd, TrimMemory, StopAll, Shutdown, Abandon
    <2>2. job' \in [Jobs -> JobStates] /\ \A j \in Jobs : job'[j] # "running"
      BY <2>1, NoneRunning DEF TrackTyped
    <2>3. caller' \in [Jobs -> CallerSteps]
      BY <2>1 DEF TrackTyped, CallerSteps
    <2>4. MonitorTyped'
      BY <2>1, HoldingNothing
    <2> QED
      BY <2>1, <2>2, <2>3, <2>4 DEF TrackTyped, RunningIsSubmitted, JobsAreTracked
  <1>2. CASE GraceEnds \/ OnNotifyUse \/ OnStartCommand
    BY <1>2 DEF GraceEnds, OnNotifyUse, OnStartCommand, TrackTyped, MonitorTyped, RunningIsSubmitted,
       JobsAreTracked, MonitorLives, Queued, Storing, Tracked
  <1> QED
    BY <1>1, <1>2 DEF ServiceStep

\* In the daemon a job can only stop running (external).
LEMMA DaemonKeeps ==
  ASSUME TrackInv, DaemonStep
  PROVE  TrackInv'
  <1> USE DEF TrackInv
  <1>1. job' \in [Jobs -> JobStates] /\ \A j \in Jobs : job'[j] = "running" => job[j] = "running"
    <2>1. CASE DaemonDies
      BY <2>1, NoneRunning DEF DaemonDies, TrackTyped
    <2>2. CASE \E j \in Jobs : JobFinishes(j) \/ JobForgotten(j)
      BY <2>2 DEF JobFinishes, JobForgotten, TrackTyped, JobStates
    <2> QED
      BY <2>1, <2>2 DEF DaemonStep
  <1>2. UNCHANGED <<caller, queue, monitor>>
    BY DEF DaemonStep, DaemonDies, JobFinishes, JobForgotten
  <1> QED
    BY <1>1, <1>2 DEF TrackTyped, MonitorTyped, RunningIsSubmitted, JobsAreTracked,
       MonitorLives, Queued, Storing, Tracked

\* A submission: the job runs before its id is on the queue, and counts as
\* queued from the moment it is (sync, copy, ..., moveFile).
LEMMA SubmitKeeps ==
  ASSUME TrackInv, NEW j \in Jobs, StartJob(j) \/ Submit(j)
  PROVE  TrackInv'
  <1> USE DEF TrackInv
  <1>1. CASE StartJob(j)
    <2>1. /\ job' = [job EXCEPT ![j] = "running"] /\ caller' = [caller EXCEPT ![j] = "started"]
          /\ UNCHANGED <<queue, monitor>>
      BY <1>1 DEF StartJob
    <2>2. \A k \in Jobs : Queued(k)' /\ job'[k] = "running" => Queued(k) /\ job[k] = "running"
      BY <2>1 DEF Queued, Storing, TrackTyped
    <2> QED
      BY <2>1, <2>2 DEF TrackTyped, MonitorTyped, JobStates, CallerSteps, RunningIsSubmitted,
         JobsAreTracked, MonitorLives, Tracked
  <1>2. CASE StoreBegins(j) \/ StoreEnds(j)
    <2>1. UNCHANGED <<job, queue, monitor>>
      BY <1>2 DEF StoreBegins, StoreEnds
    <2>2. caller' \in [Jobs -> CallerSteps] /\ \A k \in Jobs : caller'[k] = "idle" => caller[k] = "idle"
      BY <1>2 DEF StoreBegins, StoreEnds, TrackTyped, CallerSteps
    <2>3. \A k \in Jobs : Queued(k)' => Queued(k)
      BY <1>2 DEF StoreBegins, StoreEnds, TrackTyped, CallerSteps, Queued, Storing
    <2> QED
      BY <2>1, <2>2, <2>3 DEF TrackTyped, MonitorTyped, RunningIsSubmitted, JobsAreTracked,
         MonitorLives, Tracked
  <1>3. CASE Enqueue(j)
    <2>1. /\ queue' = Append(queue, j)
          /\ caller' = [caller EXCEPT ![j] = IF j \in Moves THEN "queued" ELSE "done"]
          /\ UNCHANGED <<job, monitor>>
      BY <1>3 DEF Enqueue
    <2>2. queue' \in Seq(Jobs) /\ ToSet(queue') = ToSet(queue) \union {j}
      BY <2>1, ToSetAppend DEF TrackTyped
    <2>3. caller' \in [Jobs -> CallerSteps]
      BY <2>1 DEF TrackTyped, CallerSteps
    <2>4. \A k \in Jobs \ {j} : Queued(k)' => Queued(k)
      BY <2>1 DEF Queued, Storing, TrackTyped
    <2> QED
      BY <2>1, <2>2, <2>3, <2>4 DEF TrackTyped, MonitorTyped, RunningIsSubmitted,
         JobsAreTracked, MonitorLives, Tracked
  <1> QED
    BY <1>1, <1>2, <1>3 DEF Submit

\* The monitor moves ids between the queue, its hand and what it keeps; it
\* drops one only when the daemon has said that the job does not run.
LEMMA MonitorMoves ==
  ASSUME TrackInv, Monitor, MonitorLives'
  PROVE  /\ queue' \in Seq(Jobs) /\ MonitorTyped' /\ MonitorLives
         /\ \A j \in Jobs : Tracked(j) /\ job[j] = "running" => Tracked(j)'
  <1> USE DEF TrackInv, TrackTyped
  <1>1. CASE Take \/ RemoveNext
    <2>1. queue # <<>> /\ queue' = Tail(queue) /\ monitor.at \in {"take", "check"}
          /\ monitor' = [monitor EXCEPT !.at = IF monitor.at = "take" THEN "addBack" ELSE "ask",
                                        !.now = Head(queue)]
      BY <1>1 DEF Take, RemoveNext
    <2>2. monitor' = [at |-> IF monitor.at = "take" THEN "addBack" ELSE "ask",
                      now |-> Head(queue), kept |-> monitor.kept]
      BY <2>1 DEF MonitorTyped
    <2>3. /\ Head(queue) \in Jobs /\ Tail(queue) \in Seq(Jobs)
          /\ ToSet(queue) \subseteq {Head(queue)} \union ToSet(Tail(queue))
      BY <2>1, ToSetTail
    <2>4. monitor.now = None
      BY <2>1 DEF MonitorTyped
    <2>5. monitor'.now = Head(queue) /\ monitor'.kept = monitor.kept
      BY <2>2
    <2>6. ASSUME NEW j \in Jobs, Tracked(j)
          PROVE  Tracked(j)'
      <3>1. j \in ToSet(queue) \/ j \in ToSet(monitor.kept)
        BY <2>4, <2>6, ConstantsAssumption DEF Tracked
      <3>2. j = Head(queue) \/ j \in ToSet(Tail(queue)) \/ j \in ToSet(monitor.kept)
        BY <3>1, <2>3
      <3> QED
        BY <3>2, <2>1, <2>5 DEF Tracked
    <2> QED
      BY <2>1, <2>2, <2>3, <2>6 DEF MonitorTyped, MonitorLives
  <1>2. CASE AddBack
    <2>1. /\ monitor.at = "addBack" /\ queue' = Append(queue, monitor.now)
          /\ monitor' = MonitorAt("check") /\ monitor.now \in Jobs
          /\ monitor.kept = <<>>
      BY <1>2 DEF AddBack, MonitorTyped
    <2>2. queue' \in Seq(Jobs) /\ ToSet(queue') = ToSet(queue) \union {monitor.now}
      BY <2>1, ToSetAppend
    <2> QED
      BY <2>1, <2>2 DEF MonitorTyped, MonitorLives, MonitorAt, Tracked
  <1>3. CASE AnswerRunning
    <2>1. /\ monitor.at = "ask" /\ queue' = queue
          /\ monitor' = Checked(Append(monitor.kept, monitor.now)) /\ monitor.now \in Jobs
      BY <1>3 DEF AnswerRunning, Asked, MonitorTyped
    <2>2. ToSet(Append(monitor.kept, monitor.now)) = ToSet(monitor.kept) \union {monitor.now}
      BY <2>1, ToSetAppend DEF MonitorTyped
    <2>3. Append(monitor.kept, monitor.now) \in Seq(Jobs)
      BY <2>1 DEF MonitorTyped
    <2> QED
      BY <2>1, <2>2, <2>3 DEF MonitorTyped, MonitorLives, Checked, Tracked
  <1>4. CASE AnswerFinished \/ AnswerNotFound
    BY <1>4 DEF AnswerFinished, AnswerNotFound, Asked, MonitorTyped, MonitorLives, Checked, Tracked
  <1>5. CASE AskFails
    BY <1>5 DEF AskFails, MonitorAt, MonitorLives
  <1>6. CASE EndPass
    <2>1. /\ monitor.at = "check" /\ queue = <<>> /\ queue' = monitor.kept
          /\ monitor' = MonitorAt("delay") /\ monitor.now = None
      BY <1>6 DEF EndPass, MonitorTyped
    <2>2. ToSet(queue) = {}
      BY <2>1 DEF ToSet
    <2> QED
      BY <2>1, <2>2 DEF MonitorTyped, MonitorLives, MonitorAt, Tracked
  <1>7. CASE SecondPasses
    BY <1>7 DEF SecondPasses, MonitorAt, MonitorTyped, MonitorLives, Tracked
  <1> QED
    BY <1>1, <1>2, <1>3, <1>4, <1>5, <1>6, <1>7 DEF Monitor

\* The monitor's steps keep the invariant; the one that fails leaves no monitor to track jobs.
LEMMA MonitorKeeps ==
  ASSUME TrackInv, Monitor
  PROVE  TrackInv'
  <1>1. UNCHANGED <<job, caller>>
    BY DEF Monitor, Take, AddBack, RemoveNext, AnswerRunning, AnswerFinished, AnswerNotFound,
       AskFails, EndPass, SecondPasses
  <1>2. CASE MonitorLives'
    BY <1>1, <1>2, MonitorMoves
    DEF TrackInv, TrackTyped, RunningIsSubmitted, JobsAreTracked, Queued, Storing
  <1>3. CASE ~MonitorLives'
    <2>1. AskFails
      <3>1. CASE AddBack \/ EndPass \/ SecondPasses
        BY <1>3, <3>1 DEF AddBack, EndPass, SecondPasses, MonitorLives, MonitorAt
      <3>2. CASE Take \/ RemoveNext
        <4>1. monitor'.at \in {"addBack", "ask"}
          BY <3>2 DEF Take, RemoveNext, TrackInv, TrackTyped, MonitorTyped
        <4> QED
          BY <1>3, <4>1 DEF MonitorLives
      <3>3. CASE AnswerRunning \/ AnswerFinished \/ AnswerNotFound
        BY <1>3, <3>3 DEF AnswerRunning, AnswerFinished, AnswerNotFound, MonitorLives, Checked
      <3> QED
        BY <3>1, <3>2, <3>3 DEF Monitor
    <2>2. queue' = queue /\ MonitorTyped'
      BY <2>1, HoldingNothing DEF AskFails
    <2> QED
      BY <1>1, <1>3, <2>2 DEF TrackInv, TrackTyped, RunningIsSubmitted, JobsAreTracked
  <1> QED
    BY <1>2, <1>3

\* The queue, the monitor and the daemon agree in every state.
LEMMA TrackInvariant == Spec => []TrackInv
  <1>1. Init => TrackInv
    BY DEF Init, TrackInv, TrackTyped, MonitorTyped, MonitorAt, JobStates, CallerSteps,
       RunningIsSubmitted, JobsAreTracked, MonitorLives
  <1>2. TrackInv /\ [Next]_vars => TrackInv'
    <2> SUFFICES ASSUME TrackInv, [Next]_vars
                 PROVE  TrackInv'
      OBVIOUS
    <2>1. CASE UNCHANGED vars \/ RunPosted
      BY <2>1 DEF vars, RunPosted, TrackInv, TrackTyped, MonitorTyped, RunningIsSubmitted,
         JobsAreTracked, MonitorLives, Queued, Storing, Tracked
    <2>2. CASE Next
      BY <2>1, <2>2, ConstantsAssumption, ServiceKeeps, DaemonKeeps, SubmitKeeps, MonitorKeeps
      DEF Next
    <2> QED
      BY <2>1, <2>2
  <1> QED
    BY <1>1, <1>2, PTL DEF Spec

\* While the monitor lives, every queued job that runs is on the queue or in
\* its hands (PendingRcloneJobs).
THEOREM RunningJobsAreTracked == Spec => []JobsAreTracked
  <1>1. TrackInv => JobsAreTracked
    BY DEF TrackInv
  <1> QED
    BY <1>1, TrackInvariant, PTL

\* Between two passes, with no submission under way, a trim of memory kills no
\* running job (shutdownIfPossible).
THEOREM TrimsSpareRunningJobs == Spec => TrimSparesRunning
  <1> DEFINE Quiet == /\ monitor.at \in {"take", "delay"}
                      /\ \A j \in Jobs : ~Submitting(j)
  <1>1. TrackInv /\ [Next]_vars => [Quiet => trimmed' = trimmed]_trimmed
    <2> SUFFICES ASSUME TrackInv, [Next]_vars, Quiet, trimmed' # trimmed
                 PROVE  FALSE
      OBVIOUS
    <2>1. TrimMemory
      BY DEF vars, Next, ServiceStep, GetLocalRcd, StopAll, GraceEnds, OnNotifyUse, OnStartCommand, DaemonStep,
         DaemonDies, JobFinishes, JobForgotten, RunPosted, Monitor, Take, AddBack, RemoveNext,
         AnswerRunning, AnswerFinished, AnswerNotFound, AskFails, EndPass, SecondPasses,
         StartJob, Submit, StoreBegins, StoreEnds, Enqueue
    <2>2. PICK j \in Jobs : job[j] = "running"
      BY <2>1 DEF TrimMemory
    <2>3. Queued(j)
      BY <2>2 DEF TrackInv, RunningIsSubmitted, Submitting, Queued
    <2>4. Tracked(j)
      BY <2>2, <2>3 DEF TrackInv, JobsAreTracked, MonitorLives
    <2>5. queue = <<>> /\ monitor.kept = <<>> /\ monitor.now = None
      BY <2>1 DEF TrimMemory, HasPendingJobs, TrackInv, TrackTyped, MonitorTyped
    <2>6. ToSet(queue) = {} /\ ToSet(monitor.kept) = {}
      BY <2>5 DEF ToSet
    <2> QED
      BY <2>4, <2>5, <2>6, ConstantsAssumption DEF Tracked
  <1> QED
    BY <1>1, TrackInvariant, PTL DEF Spec, TrimSparesRunning
=============================================================================
