------------------------------- MODULE RcdJobs -------------------------------
(***************************************************************************)
(* The jobs of the rclone remote control daemon: the threads of the        *)
(* document provider that submit them, the monitor thread that polls their *)
(* status (RcloneRcd.java, PendingRcloneJobs), the main thread that runs   *)
(* their handlers, and the service that stops the daemon under memory      *)
(* pressure when it knows of no job (RcdService.java).                     *)
(*                                                                         *)
(* The queue of pending ids is drained and refilled by every pass of the   *)
(* monitor; whoever asks for its size in between sees what is left of it.  *)
(***************************************************************************)
EXTENDS Naturals, Sequences, FiniteSets, SequencesExt

CONSTANTS Jobs,         \* the jobs submitted, each by a thread of its own
          Moves,        \* those submitted by moveFile
          MaxInstances, \* bound: daemons started
          MaxErrors,    \* bound: status calls answered by another error
          MaxPosted,    \* bound: messages waiting when a pass may begin
          None

ASSUME ConstantsAssumption ==
    /\ Moves \subseteq Jobs
    /\ MaxInstances \in Nat /\ MaxErrors \in Nat /\ MaxPosted \in Nat
    /\ None \notin Jobs

VARIABLES daemon,   \* "none", "alive" or "dead"
          job,      \* what the daemon knows of each job
          caller,   \* the thread submitting each job
          handlers, \* jobsHandlers: whose handler is filed under each job
          queue,    \* pendingJobs
          monitor,  \* the monitor thread: at, the id in hand, the ids kept
          main,     \* messages posted to the main thread
          handled,  \* how often the handler of each job has run (history)
          service,  \* RcdService: shutdown, recently used
          trimmed,  \* jobs killed by a trim of memory (history)
          used      \* counters that bound the model

vars == <<daemon, job, caller, handlers, queue, monitor, main, handled, service,
          trimmed, used>>

----------------------------------------------------------------------------
(* Data *)

JobStates == {"new", "running", "finished", "forgotten", "killed"}

CallerSteps == {"idle", "started", "storing", "racing", "stored", "queued", "done"}

\* In the middle of jobsHandlers.append, alone or not.
Storing(j) == caller[j] \in {"storing", "racing"}

Submitting(j) == caller[j] \notin {"idle", "done"}

\* The thread has put the id on the queue.
Queued(j) == caller[j] = "done" \/ (j \in Moves /\ (caller[j] = "queued" \/ Storing(j)))

\* With its process go the daemon's jobs and what it knew of those that ended.
LoseJobs == job' = [j \in Jobs |-> CASE job[j] = "running" -> "killed"
                                   [] job[j] = "finished" -> "forgotten"
                                   [] OTHER -> job[j]]

NoHandlers == [j \in Jobs |-> None]

MonitorAt(at) == [at |-> at, now |-> None, kept |-> <<>>]

\* Mutant: a single pending job is overlooked.
HasManyPendingJobs == Len(queue) > 1

HasPendingJobs == queue # <<>>

\* The id is on the queue or in the monitor's hands.
Tracked(j) == \/ j \in ToSet(queue)
              \/ j = monitor.now
              \/ j \in ToSet(monitor.kept)

Handler(j) == [op |-> "handler", j |-> j]

Update == [op |-> "update", j |-> None]

Init ==
    /\ daemon = "none"
    /\ job = [j \in Jobs |-> "new"]
    /\ caller = [j \in Jobs |-> "idle"]
    /\ handlers = NoHandlers
    /\ queue = <<>>
    /\ monitor = MonitorAt("none")
    /\ main = <<>>
    /\ handled = [j \in Jobs |-> 0]
    /\ service = [shutdown |-> TRUE, recent |-> FALSE]
    /\ trimmed = {}
    /\ used = [instances |-> 0, errors |-> 0]

----------------------------------------------------------------------------
(* The service, on the main thread *)

\* What is left of an instance nobody refers to any more: the submissions
\* under way end on it, its daemon and the jobs in it are gone.  Nobody cancels
\* its monitor, but a pass that has no call left to make posts its update and no
\* more: every further call fails at a port where nobody listens and ends the
\* task, or the task waits for an id for good.
Abandon ==
    /\ main' \in {main} \union (IF monitor.at = "check" /\ queue = <<>>
                                THEN {Append(main, Update)} ELSE {})
    /\ LoseJobs
    /\ caller' = [j \in Jobs |-> IF Submitting(j) THEN "done" ELSE caller[j]]

\* getLocalRcd, for a client that has bound: no daemon, or one that has died, is
\* replaced.  Queue, handlers and monitor are the new instance's.
GetLocalRcd ==
    /\ daemon # "alive"
    /\ used.instances < MaxInstances
    /\ used' = [used EXCEPT !.instances = @ + 1]
    /\ daemon' = "alive"
    /\ Abandon
    /\ handlers' = NoHandlers /\ queue' = <<>>
    /\ monitor' = MonitorAt("take")
    /\ UNCHANGED <<handled, service, trimmed>>

\* onStartCommand, or onCreate, which is a use as well (OnNotifyUse): a service
\* that is started again takes back its shutdown.
OnStartCommand ==
    /\ service.shutdown
    /\ service' = [service EXCEPT !.shutdown = FALSE]
    /\ UNCHANGED <<daemon, job, caller, handlers, queue, monitor, main, handled, trimmed, used>>

\* shutdown: the daemon is destroyed and the monitor interrupted.
Shutdown ==
    /\ daemon' = "none"
    /\ Abandon
    /\ monitor' = MonitorAt("none")
    /\ service' = [service EXCEPT !.shutdown = TRUE]
    /\ handlers' = NoHandlers /\ queue' = <<>>

\* onTrimMemory after the grace period: only a service without jobs goes.
TrimMemory ==
    /\ ~service.shutdown /\ ~service.recent
    /\ daemon # "none"
    /\ ~HasPendingJobs
    /\ Shutdown
    /\ trimmed' = trimmed \union {j \in Jobs : job[j] = "running"}
    /\ UNCHANGED <<handled, used>>

\* The notification's button, or onDestroy; neither asks anything.
StopAll ==
    /\ daemon # "none" \/ ~service.shutdown
    /\ Shutdown
    /\ UNCHANGED <<handled, trimmed, used>>

\* 30 s without a use.  Every pass of the monitor is a use, so this needs a
\* pass that takes as long, no jobs to watch, or no monitor.
GraceEnds ==
    /\ service.recent
    /\ monitor.at # "delay"
    /\ Update \notin ToSet(main)
    /\ service' = [service EXCEPT !.recent = FALSE]
    /\ UNCHANGED <<daemon, job, caller, handlers, queue, monitor, main, handled, trimmed, used>>

\* The document provider reports a use, or binds (onNotifyUse, onBind, onRebind).
OnNotifyUse ==
    /\ ~service.recent
    /\ service' = [service EXCEPT !.recent = TRUE]
    /\ UNCHANGED <<daemon, job, caller, handlers, queue, monitor, main, handled, trimmed, used>>

\* The main thread runs what was posted: a handler, or onRcdJobsUpdate, which
\* counts as a use and takes back a shutdown.
RunPosted ==
    /\ main # <<>>
    /\ main' = Tail(main)
    /\ \/ /\ Head(main).op = "handler"
          /\ handled' = [handled EXCEPT ![Head(main).j] = @ + 1]
          /\ service' = service
       \/ /\ Head(main).op = "update"
          /\ service' = [shutdown |-> FALSE, recent |-> TRUE]
          /\ handled' = handled
    /\ UNCHANGED <<daemon, job, caller, handlers, queue, monitor, trimmed, used>>

----------------------------------------------------------------------------
(* The daemon (external): rclone rcd *)

JobFinishes(j) ==
    /\ job[j] = "running"
    /\ job' = [job EXCEPT ![j] = "finished"]
    /\ UNCHANGED <<daemon, caller, handlers, queue, monitor, main, handled, service,
                   trimmed, used>>

\* Finished jobs expire after a while.
JobForgotten(j) ==
    /\ job[j] = "finished"
    /\ job' = [job EXCEPT ![j] = "forgotten"]
    /\ UNCHANGED <<daemon, caller, handlers, queue, monitor, main, handled, service,
                   trimmed, used>>

DaemonDies ==
    /\ daemon = "alive"
    /\ daemon' = "dead"
    /\ LoseJobs
    /\ UNCHANGED <<caller, handlers, queue, monitor, main, handled, service, trimmed, used>>

----------------------------------------------------------------------------
(* Submitting a job: sync, copy, copyFile, move, deleteFile, purge, moveFile *)

StartJob(j) ==
    /\ caller[j] = "idle" /\ daemon = "alive"
    /\ job' = [job EXCEPT ![j] = "running"]
    /\ caller' = [caller EXCEPT ![j] = "started"]
    /\ UNCHANGED <<daemon, handlers, queue, monitor, main, handled, service, trimmed, used>>

\* jobsHandlers.append, without a lock.
StoreBegins(j) ==
    /\ caller[j] = IF j \in Moves THEN "queued" ELSE "started"
    /\ caller' = [k \in Jobs |-> IF (k = j \/ Storing(k)) /\ \E i \in Jobs \ {j} : Storing(i)
                                 THEN "racing"
                                 ELSE IF k = j THEN "storing" ELSE caller[k]]
    /\ UNCHANGED <<daemon, job, handlers, queue, monitor, main, handled, service, trimmed, used>>

\* The handler is filed under its job.  Of two appends that overlapped one
\* may be lost, or file its handler under the other's job.
StoreEnds(j) ==
    /\ Storing(j)
    /\ \/ handlers' = [handlers EXCEPT ![j] = j]
       \/ /\ caller[j] = "racing"
          /\ \/ handlers' = handlers
             \/ \E k \in Jobs \ {j} : caller[k] \notin {"idle", "started"}
                                     /\ handlers' = [handlers EXCEPT ![k] = j]
    /\ caller' = [caller EXCEPT ![j] = IF j \in Moves THEN "done" ELSE "stored"]
    /\ UNCHANGED <<daemon, job, queue, monitor, main, handled, service, trimmed, used>>

\* pendingJobs.add: moveFile does it first, every other operation last.
Enqueue(j) ==
    /\ caller[j] = IF j \in Moves THEN "started" ELSE "stored"
    /\ queue' = Append(queue, j)
    /\ caller' = [caller EXCEPT ![j] = IF j \in Moves THEN "queued" ELSE "done"]
    /\ UNCHANGED <<daemon, job, handlers, monitor, main, handled, service, trimmed, used>>

----------------------------------------------------------------------------
(* The monitor: one pass of PendingRcloneJobs, and the second after it *)

\* Mutant: the wait looks at the head of the queue without removing it.
TakeByPeek ==
    /\ monitor.at = "take" /\ queue # <<>>
    /\ monitor' = [monitor EXCEPT !.at = "addBack", !.now = Head(queue)]
    /\ UNCHANGED <<daemon, job, caller, handlers, queue, main, handled, service, trimmed, used>>

\* Blocks until there is an id, and puts it back behind the others.
Take ==
    /\ monitor.at = "take" /\ queue # <<>>
    /\ monitor' = [monitor EXCEPT !.at = "addBack", !.now = Head(queue)]
    /\ queue' = Tail(queue)
    /\ UNCHANGED <<daemon, job, caller, handlers, main, handled, service, trimmed, used>>

\* Mutant: the id that woke the monitor is not put back.
AddNothingBack ==
    /\ monitor.at = "addBack"
    /\ queue' = queue
    /\ monitor' = MonitorAt("check")
    /\ UNCHANGED <<daemon, job, caller, handlers, main, handled, service, trimmed, used>>

AddBack ==
    /\ monitor.at = "addBack"
    /\ queue' = Append(queue, monitor.now)
    /\ monitor' = MonitorAt("check")
    /\ UNCHANGED <<daemon, job, caller, handlers, main, handled, service, trimmed, used>>

RemoveNext ==
    /\ monitor.at = "check" /\ queue # <<>>
    /\ monitor' = [monitor EXCEPT !.at = "ask", !.now = Head(queue)]
    /\ queue' = Tail(queue)
    /\ UNCHANGED <<daemon, job, caller, handlers, main, handled, service, trimmed, used>>

Asked == monitor.at = "ask" /\ daemon = "alive"

Checked(kept) == [at |-> "check", now |-> None, kept |-> kept]

AnswerRunning ==
    /\ Asked /\ job[monitor.now] = "running"
    /\ monitor' = Checked(Append(monitor.kept, monitor.now))
    /\ UNCHANGED <<daemon, job, caller, handlers, queue, main, handled, service, trimmed, used>>

\* Mutant: a finished job stays among those kept for the next pass.
AnswerFinishedKept ==
    /\ Asked /\ job[monitor.now] = "finished"
    /\ main' = IF handlers[monitor.now] = None THEN main
                ELSE Append(main, Handler(handlers[monitor.now]))
    /\ monitor' = Checked(Append(monitor.kept, monitor.now))
    /\ UNCHANGED <<daemon, job, caller, handlers, queue, handled, service, trimmed, used>>

\* Without a handler in the map the answer goes to nobody.
AnswerFinished ==
    /\ Asked /\ job[monitor.now] = "finished"
    /\ main' = IF handlers[monitor.now] = None THEN main
                ELSE Append(main, Handler(handlers[monitor.now]))
    /\ monitor' = Checked(monitor.kept)
    /\ UNCHANGED <<daemon, job, caller, handlers, queue, handled, service, trimmed, used>>

\* Mutant: a job the daemon does not know is asked for again.
AnswerNotFoundKept ==
    /\ Asked /\ job[monitor.now] = "forgotten"
    /\ monitor' = Checked(Append(monitor.kept, monitor.now))
    /\ UNCHANGED <<daemon, job, caller, handlers, queue, main, handled, service, trimmed, used>>

\* "job not found": dropped.
AnswerNotFound ==
    /\ Asked /\ job[monitor.now] = "forgotten"
    /\ monitor' = Checked(monitor.kept)
    /\ UNCHANGED <<daemon, job, caller, handlers, queue, main, handled, service, trimmed, used>>

\* Another error leaves no response, and the null pointer ends the periodic
\* task; so does the exception of a call that reaches no daemon.
AskFails ==
    /\ monitor.at = "ask"
    /\ \/ /\ daemon = "alive" /\ used.errors < MaxErrors
          /\ used' = [used EXCEPT !.errors = @ + 1]
       \/ /\ daemon = "dead"
          /\ used' = used
    /\ monitor' = MonitorAt("dead")
    /\ UNCHANGED <<daemon, job, caller, handlers, queue, main, handled, service, trimmed>>

\* Mutant: the ids kept are dropped when the pass ends.
EndPassDroppingKept ==
    /\ monitor.at = "check" /\ queue = <<>>
    /\ main' = Append(main, Update)
    /\ monitor' = MonitorAt("delay")
    /\ UNCHANGED <<daemon, job, caller, handlers, queue, handled, service, trimmed, used>>

\* The ids kept go back to the queue, and the service hears of the pass.
EndPass ==
    /\ monitor.at = "check" /\ queue = <<>>
    /\ queue' = monitor.kept
    /\ main' = Append(main, Update)
    /\ monitor' = MonitorAt("delay")
    /\ UNCHANGED <<daemon, job, caller, handlers, handled, service, trimmed, used>>

\* The fixed delay of a second.
SecondPasses ==
    /\ monitor.at = "delay"
    /\ Len(main) < MaxPosted
    /\ monitor' = MonitorAt("take")
    /\ UNCHANGED <<daemon, job, caller, handlers, queue, main, handled, service, trimmed, used>>

----------------------------------------------------------------------------
(* Specification *)

ServiceStep == GetLocalRcd \/ TrimMemory \/ StopAll \/ GraceEnds \/ OnNotifyUse
               \/ OnStartCommand

DaemonStep == DaemonDies \/ \E j \in Jobs : JobFinishes(j) \/ JobForgotten(j)

Submit(j) == StoreBegins(j) \/ StoreEnds(j) \/ Enqueue(j)

Monitor ==
    \/ Take \/ AddBack \/ RemoveNext
    \/ AnswerRunning \/ AnswerFinished \/ AnswerNotFound \/ AskFails
    \/ EndPass \/ SecondPasses

Next ==
    \/ ServiceStep \/ DaemonStep \/ RunPosted \/ Monitor
    \/ \E j \in Jobs : StartJob(j) \/ Submit(j)

Spec == Init /\ [][Next]_vars

\* The threads of the app run: the monitor (every status call is answered or
\* fails), the main thread, and a submission once the daemon has accepted it.
\* Nothing is assumed of the daemon, the system or the user.
Fairness ==
    /\ WF_vars(Monitor)
    /\ WF_vars(RunPosted)
    /\ \A j \in Jobs : WF_vars(Submit(j))

FairSpec == Spec /\ Fairness

----------------------------------------------------------------------------
(* Properties *)

Message == [op : {"handler"}, j : Jobs] \union {Update}

\* The monitor goes through the ids of the queue one by one while submissions
\* add to it: none is ever in two places, and it is held only at the step that
\* asks for it (PendingRcloneJobs).
TypeOK ==
    /\ daemon \in {"none", "alive", "dead"}
    /\ job \in [Jobs -> JobStates]
    /\ caller \in [Jobs -> CallerSteps]
    /\ handlers \in [Jobs -> Jobs \union {None}]
    /\ monitor.at \in {"none", "dead", "take", "addBack", "check", "ask", "delay"}
    /\ (monitor.now # None) <=> monitor.at \in {"addBack", "ask"}
    /\ LET held == queue \o monitor.kept \o IF monitor.now = None THEN <<>> ELSE <<monitor.now>>
       IN held \in Seq(Jobs) /\ IsInjective(held)
    /\ \A i \in DOMAIN main : main[i] \in Message
    /\ handled \in [Jobs -> Nat]
    /\ service \in [shutdown : BOOLEAN, recent : BOOLEAN]
    /\ trimmed \subseteq Jobs

\* The provider's listener revokes grants and drops cache entries of one
\* operation: whatever the monitor, the races of append and the restarts of the
\* daemon do, it runs at most once.
HandledAtMostOnce == \A j \in Jobs :
    handled[j] + Cardinality({i \in DOMAIN main : main[i] = Handler(j)}) <= 1

MonitorLives == monitor.at \notin {"none", "dead"}

\* A job that runs in the daemon and was queued is on the queue or in the
\* monitor's hands, at every step of a pass, as long as the monitor lives.
JobsAreTracked == MonitorLives =>
    \A j \in Jobs : Queued(j) /\ job[j] = "running" => Tracked(j)

\* Memory pressure stops no daemon that is running a job (shutdownIfPossible:
\* "No running jobs, killing service"), provided that the monitor lives and is
\* between two passes and that no submission is under way.  Within a pass, or
\* before the id is queued, the queue says less than that.
TrimSparesRunning ==
    [][/\ monitor.at \in {"take", "delay"}
       /\ \A j \in Jobs : ~Submitting(j)
       => trimmed' = trimmed]_trimmed

\* The handler of a job that was filed before the job was seen to be finished,
\* and that no append still under way can displace, runs in the end, unless the
\* monitor has died, the daemon has forgotten the job or the service was shut
\* down.
FinishedIsHandled == \A j \in Jobs :
    (handlers[j] = j /\ Tracked(j) /\ job[j] = "finished" /\ \A k \in Jobs : ~Storing(k))
        ~> (handled[j] = 1 \/ ~MonitorLives \/ job[j] # "finished")

\* Once no job runs and nobody submits one, the queue empties, so that the
\* service can be stopped: a job that failed, ended or was forgotten is not
\* polled for ever.
QueueDrains ==
    (MonitorLives /\ daemon = "alive"
     /\ \A j \in Jobs : job[j] # "running" /\ ~Submitting(j))
        ~> \/ monitor.at \in {"take", "delay"} /\ ~HasPendingJobs
           \/ ~MonitorLives \/ daemon # "alive"
           \/ \E j \in Jobs : Submitting(j)
=============================================================================
