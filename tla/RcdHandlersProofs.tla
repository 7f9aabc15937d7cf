-------------------------- MODULE RcdHandlersProofs --------------------------
(***************************************************************************)
(* Proofs about RcdJobs: no id is ever in two places, and no handler runs  *)
(* twice, whatever the races of jobsHandlers.append and the restarts of    *)
(* the daemon, for every number of jobs, daemons, errors and messages.     *)
(***************************************************************************)
EXTENDS RcdJobsProofs, FiniteSetTheorems

\* No id is twice among those on the queue, in the monitor's hand and kept by it.
HeldOnce ==
  /\ IsInjective(queue) /\ IsInjective(monitor.kept)
  /\ ToSet(queue) \intersect ToSet(monitor.kept) = {}
  /\ monitor.now \notin ToSet(queue) \union ToSet(monitor.kept)

\* What is held was put on the queue, which a thread does once for its job.
HeldIsQueued == \A j \in Jobs : Tracked(j) => Queued(j)

\* The rest of TypeOK.
MainTyped ==
  /\ daemon \in {"none", "alive", "dead"}
  /\ handlers \in [Jobs -> Jobs \union {None}]
  /\ main \in Seq(Message)
  /\ handled \in [Jobs -> Nat]
  /\ service \in [shutdown : BOOLEAN, recent : BOOLEAN]
  /\ trimmed \subseteq Jobs

TypeInv == TrackInv /\ MainTyped /\ HeldOnce /\ HeldIsQueued

\* The append of the job's handler is over.
Stored(j) == caller[j] = "done" \/ (j \notin Moves /\ caller[j] = "stored")

\* A handler is filed once and in one place, though perhaps under another job.
FiledOnce == \A j, k \in Jobs : handlers[k] = j =>
  Stored(j) /\ \A l \in Jobs : handlers[l] = j => l = k

\* The handler has run or waits on the main thread.
Answered(j) == handled[j] = 1 \/ \E i \in DOMAIN main : main[i] = Handler(j)

\* A handler that was posted is filed under no job that will be asked for again.
AnswerIsFinal == \A j \in Jobs : Answered(j) =>
  Stored(j) /\ \A k \in Jobs : handlers[k] = j => Queued(k) /\ ~Tracked(k)

\* It has run and waits no more, or waits in one message.
OneAnswer == \A j \in Jobs :
  /\ handled[j] \in {0, 1}
  /\ \A i \in DOMAIN main : main[i] = Handler(j) =>
       handled[j] = 0 /\ \A n \in DOMAIN main : main[n] = Handler(j) => n = i

HandlerInv == FiledOnce /\ AnswerIsFinal /\ OneAnswer

----------------------------------------------------------------------------
(* Sequences without repetitions *)

\* A new id at the end is no second one (pendingJobs.add).
LEMMA InjectiveAppend ==
  ASSUME NEW S, NEW s \in Seq(S), NEW e \in S, IsInjective(s), e \notin ToSet(s)
  PROVE  IsInjective(Append(s, e))
  <1>1. Len(s) \in Nat /\ DOMAIN s = 1 .. Len(s) /\ DOMAIN Append(s, e) = 1 .. Len(s) + 1
    OBVIOUS
  <1>2. \A i \in DOMAIN s : Append(s, e)[i] = s[i] /\ s[i] # e
    BY <1>1 DEF ToSet
  <1>3. Append(s, e)[Len(s) + 1] = e
    OBVIOUS
  <1>4. \A i \in DOMAIN Append(s, e) : i \in DOMAIN s \/ i = Len(s) + 1
    BY <1>1
  <1> QED
    BY <1>2, <1>3, <1>4 DEF IsInjective

\* The first id, once taken, is not among the rest (pendingJobs.take, remove).
LEMMA InjectiveTail ==
  ASSUME NEW S, NEW s \in Seq(S), s # <<>>, IsInjective(s)
  PROVE  /\ IsInjective(Tail(s)) /\ Head(s) \notin ToSet(Tail(s))
         /\ Head(s) \in ToSet(s) /\ ToSet(Tail(s)) \subseteq ToSet(s)
  <1>1. /\ Len(s) \in Nat /\ Len(s) > 0 /\ DOMAIN s = 1 .. Len(s)
        /\ DOMAIN Tail(s) = 1 .. Len(s) - 1 /\ Head(s) = s[1]
    OBVIOUS
  <1>2. \A i \in DOMAIN Tail(s) : Tail(s)[i] = s[i + 1] /\ i + 1 \in DOMAIN s /\ i + 1 # 1
    BY <1>1
  <1>3. 1 \in DOMAIN s
    BY <1>1
  <1>4. \A i, n \in DOMAIN Tail(s) : Tail(s)[i] = Tail(s)[n] => i = n
    <2> SUFFICES ASSUME NEW i \in DOMAIN Tail(s), NEW n \in DOMAIN Tail(s),
                        Tail(s)[i] = Tail(s)[n]
                 PROVE  i = n
      OBVIOUS
    <2>1. i + 1 = n + 1
      BY <1>2 DEF IsInjective
    <2> QED
      BY <1>1, <2>1
  <1>5. \A i \in DOMAIN Tail(s) : Tail(s)[i] # s[1]
    BY <1>2, <1>3 DEF IsInjective
  <1> QED
    BY <1>1, <1>2, <1>3, <1>4, <1>5 DEF IsInjective, ToSet

\* Two sequences that share nothing, one after the other.
LEMMA InjectiveConcat ==
  ASSUME NEW S, NEW s \in Seq(S), NEW t \in Seq(S), IsInjective(s), IsInjective(t),
         ToSet(s) \intersect ToSet(t) = {}
  PROVE  s \o t \in Seq(S) /\ IsInjective(s \o t) /\ ToSet(s \o t) = ToSet(s) \union ToSet(t)
  <1> DEFINE c == s \o t
  <1>1. /\ c \in Seq(S) /\ Len(s) \in Nat /\ Len(t) \in Nat /\ DOMAIN c = 1 .. Len(s) + Len(t)
        /\ DOMAIN s = 1 .. Len(s) /\ DOMAIN t = 1 .. Len(t)
    OBVIOUS
  <1>2. \A i \in DOMAIN c : i \notin DOMAIN s => i - Len(s) \in DOMAIN t
    BY <1>1
  <1>3. \A i \in DOMAIN c : c[i] = IF i \in DOMAIN s THEN s[i] ELSE t[i - Len(s)]
    BY <1>1
  <1>4. /\ \A i \in DOMAIN s : i \in DOMAIN c /\ c[i] = s[i]
        /\ \A i \in DOMAIN t : i + Len(s) \in DOMAIN c /\ c[i + Len(s)] = t[i]
    BY <1>1
  <1>5. \A i \in DOMAIN s, n \in DOMAIN t : s[i] # t[n]
    BY DEF ToSet
  <1>6. ASSUME NEW i \in DOMAIN c, NEW n \in DOMAIN c, c[i] = c[n]
        PROVE  i = n
    <2>1. CASE i \in DOMAIN s /\ n \in DOMAIN s
      BY <1>3, <1>6, <2>1 DEF IsInjective
    <2>2. CASE i \notin DOMAIN s /\ n \notin DOMAIN s
      <3>1. i - Len(s) = n - Len(s)
        BY <1>2, <1>3, <1>6, <2>2 DEF IsInjective
      <3> QED
        BY <1>1, <3>1
    <2> QED
      BY <1>2, <1>3, <1>5, <1>6, <2>1, <2>2
  <1>7. ToSet(c) = ToSet(s) \union ToSet(t)
    <2>1. ToSet(c) \subseteq ToSet(s) \union ToSet(t)
      BY <1>2, <1>3 DEF ToSet
    <2>2. ToSet(s) \subseteq ToSet(c) /\ ToSet(t) \subseteq ToSet(c)
      BY <1>4 DEF ToSet
    <2> QED
      BY <2>1, <2>2
  <1> HIDE DEF c
  <1>8. IsInjective(c)
    BY <1>6 DEF IsInjective
  <1> QED
    BY <1>1, <1>7, <1>8 DEF c

----------------------------------------------------------------------------
(* One place for every id *)

\* Nothing is held (between two daemons, or at first).
LEMMA EmptyHolds ==
  ASSUME ConstantsAssumption, queue' = <<>>, monitor'.kept = <<>>, monitor'.now = None
  PROVE  HeldOnce' /\ HeldIsQueued'
  <1>1. ToSet(<<>>) = {} /\ IsInjective(<<>>)
    BY DEF ToSet, IsInjective
  <1>2. \A j \in Jobs : ~Tracked(j)'
    BY <1>1 DEF Tracked
  <1> QED
    BY <1>1, <1>2 DEF HeldOnce, HeldIsQueued

\* A thread that submits (sync, copy, ..., moveFile) puts its own id on the queue, once.
LEMMA SubmitHolds ==
  ASSUME TrackInv, HeldOnce, HeldIsQueued, NEW j \in Jobs, StartJob(j) \/ Submit(j)
  PROVE  HeldOnce' /\ HeldIsQueued' /\ \A k \in Jobs : Queued(k) => Queued(k)'
  <1>1. caller \in [Jobs -> CallerSteps] /\ queue \in Seq(Jobs) /\ monitor.kept \in Seq(Jobs)
    BY DEF TrackInv, TrackTyped, MonitorTyped
  <1>2. CASE StartJob(j) \/ StoreBegins(j) \/ StoreEnds(j)
    <2>1. UNCHANGED <<queue, monitor>>
      BY <1>2 DEF StartJob, StoreBegins, StoreEnds
    <2>2. \A k \in Jobs : Queued(k) => Queued(k)'
      BY <1>1, <1>2 DEF StartJob, StoreBegins, StoreEnds, Queued, Storing
    <2> QED
      BY <2>1, <2>2 DEF HeldOnce, HeldIsQueued, Tracked
  <1>3. CASE Enqueue(j)
    <2>1. /\ queue' = Append(queue, j) /\ monitor' = monitor
          /\ caller' = [caller EXCEPT ![j] = IF j \in Moves THEN "queued" ELSE "done"]
          /\ caller[j] = IF j \in Moves THEN "started" ELSE "stored"
      BY <1>3 DEF Enqueue
    <2>2. ~Queued(j)
      BY <2>1 DEF Queued, Storing
    <2>3. Queued(j)' /\ \A k \in Jobs : Queued(k) => Queued(k)'
      BY <1>1, <2>1 DEF Queued, Storing
    <2>4. ~Tracked(j)
      BY <2>2 DEF HeldIsQueued
    <2>5. ToSet(queue') = ToSet(queue) \union {j}
      BY <1>1, <2>1, ToSetAppend
    <2>6. IsInjective(queue')
      BY <1>1, <2>1, <2>4, InjectiveAppend DEF HeldOnce, Tracked
    <2> QED
      BY <2>1, <2>3, <2>4, <2>5, <2>6 DEF HeldOnce, HeldIsQueued, Tracked
  <1> QED
    BY <1>2, <1>3 DEF Submit

\* A pass of the monitor moves ids about and brings in none (PendingRcloneJobs).
LEMMA MonitorHolds ==
  ASSUME ConstantsAssumption, TrackInv, HeldOnce, Monitor
  PROVE  HeldOnce' /\ \A j \in Jobs : Tracked(j)' => Tracked(j)
  <1>1. queue \in Seq(Jobs) /\ monitor.kept \in Seq(Jobs) /\ MonitorTyped
    BY DEF TrackInv, TrackTyped, MonitorTyped
  <1>2. ToSet(<<>>) = {} /\ IsInjective(<<>>)
    BY DEF ToSet, IsInjective
  <1>3. None \notin ToSet(queue) \union ToSet(monitor.kept)
    BY <1>1, ConstantsAssumption DEF ToSet
  <1>4. CASE Take \/ RemoveNext
    <2>1. queue # <<>> /\ queue' = Tail(queue) /\ monitor.at \in {"take", "check"}
          /\ monitor' = [monitor EXCEPT !.at = IF monitor.at = "take" THEN "addBack" ELSE "ask",
                                        !.now = Head(queue)]
      BY <1>4 DEF Take, RemoveNext
    <2>2. monitor'.now = Head(queue) /\ monitor'.kept = monitor.kept
      BY <1>1, <2>1 DEF MonitorTyped
    <2>3. /\ IsInjective(Tail(queue)) /\ Head(queue) \notin ToSet(Tail(queue))
          /\ Head(queue) \in ToSet(queue) /\ ToSet(Tail(queue)) \subseteq ToSet(queue)
      BY <1>1, <2>1, InjectiveTail DEF HeldOnce
    <2> QED
      BY <2>1, <2>2, <2>3 DEF HeldOnce, Tracked
  <1>5. CASE AddBack
    <2>1. /\ queue' = Append(queue, monitor.now) /\ monitor.now \in Jobs
          /\ monitor'.now = None /\ monitor'.kept = <<>>
      BY <1>1, <1>5 DEF AddBack, MonitorTyped, MonitorAt
    <2>2. ToSet(queue') = ToSet(queue) \union {monitor.now} /\ IsInjective(queue')
      BY <1>1, <2>1, ToSetAppend, InjectiveAppend DEF HeldOnce
    <2> QED
      BY <1>2, <1>3, <2>1, <2>2, ConstantsAssumption DEF HeldOnce, Tracked
  <1>6. CASE AnswerRunning
    <2>1. /\ queue' = queue /\ monitor.now \in Jobs
          /\ monitor'.now = None /\ monitor'.kept = Append(monitor.kept, monitor.now)
      BY <1>1, <1>6 DEF AnswerRunning, Asked, MonitorTyped, Checked
    <2>2. /\ ToSet(monitor'.kept) = ToSet(monitor.kept) \union {monitor.now}
          /\ IsInjective(monitor'.kept)
      BY <1>1, <2>1, ToSetAppend, InjectiveAppend DEF HeldOnce
    <2> QED
      BY <1>3, <2>1, <2>2, ConstantsAssumption DEF HeldOnce, Tracked
  <1>7. CASE AnswerFinished \/ AnswerNotFound
    <2>1. queue' = queue /\ monitor'.now = None /\ monitor'.kept = monitor.kept
      BY <1>7 DEF AnswerFinished, AnswerNotFound, Checked
    <2> QED
      BY <1>3, <2>1, ConstantsAssumption DEF HeldOnce, Tracked
  <1>8. CASE AskFails \/ SecondPasses
    <2>1. queue' = queue /\ monitor'.now = None /\ monitor'.kept = <<>>
      BY <1>8 DEF AskFails, SecondPasses, MonitorAt
    <2> QED
      BY <1>2, <1>3, <2>1, ConstantsAssumption DEF HeldOnce, Tracked
  <1>9. CASE EndPass
    <2>1. queue' = monitor.kept /\ monitor'.now = None /\ monitor'.kept = <<>>
      BY <1>9 DEF EndPass, MonitorAt
    <2> QED
      BY <1>2, <1>3, <2>1, ConstantsAssumption DEF HeldOnce, Tracked
  <1> QED
    BY <1>4, <1>5, <1>6, <1>7, <1>8, <1>9 DEF Monitor

\* The steps that leave the ids and the threads alone.
LEMMA OthersHold ==
  ASSUME HeldOnce, HeldIsQueued, UNCHANGED <<queue, monitor, caller>>
  PROVE  HeldOnce' /\ HeldIsQueued'
  BY DEF HeldOnce, HeldIsQueued, Tracked, Queued, Storing

\* Every step keeps each id in one place.
LEMMA AllHold ==
  ASSUME ConstantsAssumption, TrackInv, HeldOnce, HeldIsQueued, [Next]_vars
  PROVE  HeldOnce' /\ HeldIsQueued'
  <1>1. CASE GetLocalRcd \/ TrimMemory \/ StopAll
    BY <1>1, EmptyHolds DEF GetLocalRcd, TrimMemory, StopAll, Shutdown, MonitorAt
  <1>2. CASE GraceEnds \/ OnNotifyUse \/ OnStartCommand \/ DaemonStep \/ RunPosted \/ UNCHANGED vars
    BY <1>2, OthersHold DEF GraceEnds, OnNotifyUse, OnStartCommand, DaemonStep, DaemonDies, JobFinishes,
       JobForgotten, RunPosted, vars
  <1>3. CASE Monitor
    <2>1. caller' = caller
      BY <1>3 DEF Monitor, Take, AddBack, RemoveNext, AnswerRunning, AnswerFinished,
         AnswerNotFound, AskFails, EndPass, SecondPasses
    <2> QED
      BY <1>3, <2>1, MonitorHolds DEF HeldIsQueued, Queued, Storing
  <1>4. CASE \E j \in Jobs : StartJob(j) \/ Submit(j)
    BY <1>4, SubmitHolds
  <1> QED
    BY <1>1, <1>2, <1>3, <1>4 DEF Next, ServiceStep

----------------------------------------------------------------------------
(* Typing *)

\* A message put at the end of the main thread's is one of the two kinds.
LEMMA MessageTyped ==
  ASSUME NEW j \in Jobs
  PROVE  Update \in Message /\ Handler(j) \in Message
  BY DEF Message, Update, Handler

\* The service's flags.
LEMMA ServiceTyped ==
  ASSUME MainTyped, ServiceStep
  PROVE  service' \in [shutdown : BOOLEAN, recent : BOOLEAN]
  <1> DEFINE T == [shutdown : BOOLEAN, recent : BOOLEAN]
  <1>1. service \in T
    BY DEF MainTyped
  <1>2. \/ service' = service
        \/ service' = [service EXCEPT !.shutdown = TRUE]
        \/ service' = [service EXCEPT !.shutdown = FALSE]
        \/ service' = [service EXCEPT !.recent = FALSE]
        \/ service' = [service EXCEPT !.recent = TRUE]
    BY DEF ServiceStep, GetLocalRcd, TrimMemory, StopAll, Shutdown, GraceEnds, OnNotifyUse, OnStartCommand
  <1>3. /\ [service EXCEPT !.shutdown = TRUE] \in T
        /\ [service EXCEPT !.shutdown = FALSE] \in T
        /\ [service EXCEPT !.recent = FALSE] \in T
        /\ [service EXCEPT !.recent = TRUE] \in T
    BY <1>1
  <1> QED
    BY <1>1, <1>2, <1>3

\* Every step keeps the types.
LEMMA MainKeeps ==
  ASSUME ConstantsAssumption, TrackInv, MainTyped, [Next]_vars
  PROVE  MainTyped'
  <1> USE DEF MainTyped
  <1>1. CASE ServiceStep
    <2>1. service' \in [shutdown : BOOLEAN, recent : BOOLEAN]
      BY <1>1, ServiceTyped
    <2>2. /\ daemon' \in {daemon, "none", "alive"} /\ handlers' \in {handlers, NoHandlers}
          /\ main' \in {main, Append(main, Update)} /\ handled' = handled
          /\ trimmed' \subseteq trimmed \union Jobs
      BY <1>1 DEF ServiceStep, GetLocalRcd, TrimMemory, StopAll, Shutdown, Abandon,
         GraceEnds, OnNotifyUse, OnStartCommand
    <2>3. NoHandlers \in [Jobs -> Jobs \union {None}]
      BY DEF NoHandlers
    <2>4. Append(main, Update) \in Seq(Message)
      BY DEF Message
    <2> QED
      BY <2>1, <2>2, <2>3, <2>4
  <1>2. CASE DaemonStep
    BY <1>2 DEF DaemonStep, DaemonDies, JobFinishes, JobForgotten
  <1>3. CASE RunPosted
    <2>1. Tail(main) \in Seq(Message) /\ Head(main) \in Message
      BY <1>3 DEF RunPosted
    <2>2. CASE Head(main).op = "handler" /\ handled' = [handled EXCEPT ![Head(main).j] = @ + 1]
               /\ service' = service
      <3>1. Head(main).j \in Jobs
        BY <2>1, <2>2 DEF Message, Update
      <3>2. handled' \in [Jobs -> Nat]
        BY <2>2, <3>1
      <3> QED
        BY <1>3, <2>1, <2>2, <3>2 DEF RunPosted
    <2>3. CASE service' = [shutdown |-> FALSE, recent |-> TRUE] /\ handled' = handled
      BY <1>3, <2>1, <2>3 DEF RunPosted
    <2> QED
      BY <1>3, <2>2, <2>3 DEF RunPosted
  <1>4. CASE Monitor
    <2>1. UNCHANGED <<daemon, handlers, handled, service, trimmed>>
      BY <1>4 DEF Monitor, Take, AddBack, RemoveNext, AnswerRunning, AnswerFinished,
         AnswerNotFound, AskFails, EndPass, SecondPasses
    <2>2. CASE AnswerFinished
      <3>1. main' = main \/ \E j \in Jobs : main' = Append(main, Handler(j))
        BY <2>2 DEF AnswerFinished, Asked, TrackInv, TrackTyped, MonitorTyped
      <3>2. \A j \in Jobs : Append(main, Handler(j)) \in Seq(Message)
        BY MessageTyped
      <3> QED
        BY <2>1, <3>1, <3>2
    <2>3. CASE ~AnswerFinished
      <3>1. main' = main \/ main' = Append(main, Update)
        BY <1>4, <2>3 DEF Monitor, Take, AddBack, RemoveNext, AnswerRunning, AnswerNotFound,
           AskFails, EndPass, SecondPasses
      <3>2. Append(main, Update) \in Seq(Message)
        BY DEF Message
      <3> QED
        BY <2>1, <3>1, <3>2
    <2> QED
      BY <2>2, <2>3
  <1>5. CASE \E j \in Jobs : StartJob(j) \/ Submit(j)
    BY <1>5 DEF StartJob, Submit, StoreBegins, StoreEnds, Enqueue
  <1>6. CASE UNCHANGED vars
    BY <1>6 DEF vars
  <1> QED
    BY <1>1, <1>2, <1>3, <1>4, <1>5, <1>6 DEF Next

\* The types and the places of the ids hold in every state.
LEMMA TypeInvariant == Spec => []TypeInv
  <1>1. Init => MainTyped
    BY DEF Init, MainTyped, NoHandlers
  <1>2. Init => HeldOnce /\ HeldIsQueued
    <2>1. ToSet(<<>>) = {} /\ IsInjective(<<>>)
      BY DEF ToSet, IsInjective
    <2> QED
      BY <2>1, ConstantsAssumption DEF Init, MonitorAt, HeldOnce, HeldIsQueued, Tracked
  <1>3. TrackInv /\ MainTyped /\ HeldOnce /\ HeldIsQueued /\ [Next]_vars
          => MainTyped' /\ HeldOnce' /\ HeldIsQueued'
    BY ConstantsAssumption, MainKeeps, AllHold
  <1> QED
    BY <1>1, <1>2, <1>3, TrackInvariant, PTL DEF Spec, TypeInv

\* The monitor goes through the queue while submissions add to it, and no id is
\* ever in two places (PendingRcloneJobs).
THEOREM IdsInOnePlace == Spec => []TypeOK
  <1> DEFINE hand == IF monitor.now = None THEN <<>> ELSE <<monitor.now>>
             held == (queue \o monitor.kept) \o hand
  <1>1. ASSUME TypeInv
        PROVE  held \in Seq(Jobs) /\ IsInjective(held)
    <2>1. /\ queue \in Seq(Jobs) /\ monitor.kept \in Seq(Jobs)
          /\ monitor.now = None \/ monitor.now \in Jobs
      BY <1>1 DEF TypeInv, TrackInv, TrackTyped, MonitorTyped
    <2>2. /\ queue \o monitor.kept \in Seq(Jobs) /\ IsInjective(queue \o monitor.kept)
          /\ ToSet(queue \o monitor.kept) = ToSet(queue) \union ToSet(monitor.kept)
      BY <1>1, <2>1, InjectiveConcat DEF TypeInv, HeldOnce
    <2>3. hand \in Seq(Jobs) /\ IsInjective(hand) /\ ToSet(hand) \subseteq {monitor.now}
      BY <2>1 DEF IsInjective, ToSet
    <2>4. ToSet(queue \o monitor.kept) \intersect ToSet(hand) = {}
      BY <1>1, <2>2, <2>3 DEF TypeInv, HeldOnce
    <2> HIDE DEF hand
    <2> QED
      BY <2>2, <2>3, <2>4, InjectiveConcat
  <1>2. ASSUME TypeInv
        PROVE  (monitor.now # None) <=> monitor.at \in {"addBack", "ask"}
    BY <1>2, ConstantsAssumption DEF TypeInv, TrackInv, TrackTyped, MonitorTyped
  <1>3. ASSUME TypeInv
        PROVE  \A i \in DOMAIN main : main[i] \in Message
    BY <1>3 DEF TypeInv, MainTyped
  <1>4. TypeInv => TypeOK
    <2> HIDE DEF hand
    <2> QED
      BY <1>1, <1>2, <1>3 DEF hand, TypeOK, TypeInv, MainTyped, TrackInv, TrackTyped, MonitorTyped
  <1> QED
    BY <1>4, TypeInvariant, PTL

----------------------------------------------------------------------------
(* One answer for every handler: the messages of the main thread *)

\* A handler's message is not an update, nor that of another handler.
LEMMA HandlersDiffer ==
  ASSUME NEW j, NEW k
  PROVE  Handler(j) # Update /\ (Handler(j) = Handler(k) => j = k)
  BY DEF Handler, Update

\* Where the messages are once one is put at the end.
LEMMA Posting ==
  ASSUME main \in Seq(Message), NEW m \in Message, main' = Append(main, m)
  PROVE  /\ DOMAIN main' = DOMAIN main \union {Len(main) + 1}
         /\ Len(main) + 1 \notin DOMAIN main
         /\ main'[Len(main) + 1] = m
         /\ \A i \in DOMAIN main : main'[i] = main[i]
  <1>1. Len(main) \in Nat /\ DOMAIN main = 1 .. Len(main)
    OBVIOUS
  <1>2. DOMAIN main' = 1 .. Len(main) + 1
    OBVIOUS
  <1>3. main'[Len(main) + 1] = m /\ \A i \in 1 .. Len(main) : main'[i] = main[i]
    OBVIOUS
  <1> QED
    BY <1>1, <1>2, <1>3

\* Nothing is posted, or an update (EndPass, Abandon): no handler is answered by it.
LEMMA UpdatePosted ==
  ASSUME OneAnswer, main \in Seq(Message), main' \in {main, Append(main, Update)},
         handled' = handled
  PROVE  OneAnswer' /\ \A j \in Jobs : Answered(j)' => Answered(j)
  <1>1. \A i \in DOMAIN main', j \in Jobs : main'[i] = Handler(j) =>
          i \in DOMAIN main /\ main[i] = Handler(j)
    <2>1. CASE main' = main
      BY <2>1
    <2>2. CASE main' = Append(main, Update)
      <3>1. Update \in Message
        BY DEF Message
      <3> QED
        BY <2>2, <3>1, Posting, HandlersDiffer
    <2> QED
      BY <2>1, <2>2
  <1> QED
    BY <1>1 DEF OneAnswer, Answered

\* A handler is posted that was neither run nor posted before (AnswerFinished).
LEMMA HandlerPosted ==
  ASSUME OneAnswer, main \in Seq(Message), NEW j \in Jobs, ~Answered(j),
         main' = Append(main, Handler(j)), handled' = handled
  PROVE  OneAnswer' /\ \A k \in Jobs : Answered(k)' => k = j \/ Answered(k)
  <1>1. Handler(j) \in Message
    BY MessageTyped
  <1>2. /\ DOMAIN main' = DOMAIN main \union {Len(main) + 1}
        /\ main'[Len(main) + 1] = Handler(j)
        /\ \A i \in DOMAIN main : main'[i] = main[i]
    BY <1>1, Posting
  <1>3. \A i \in DOMAIN main : main[i] # Handler(j)
    BY DEF Answered
  <1>4. handled[j] = 0
    BY DEF Answered, OneAnswer
  <1>5. \A i \in DOMAIN main', k \in Jobs : main'[i] = Handler(k) =>
          \/ k = j /\ i = Len(main) + 1
          \/ k # j /\ i \in DOMAIN main /\ main[i] = Handler(k)
    BY <1>2, <1>3, HandlersDiffer
  <1>6. \A i \in DOMAIN main', k \in Jobs : main'[i] = Handler(k) =>
          /\ handled[k] = 0
          /\ \A n \in DOMAIN main' : main'[n] = Handler(k) => n = i
    BY <1>4, <1>5 DEF OneAnswer
  <1> QED
    BY <1>5, <1>6 DEF OneAnswer, Answered

\* The main thread runs the first of its messages (onRcdJobsUpdate, a handler).
LEMMA FirstRun ==
  ASSUME OneAnswer, main \in Seq(Message), handled \in [Jobs -> Nat], RunPosted
  PROVE  OneAnswer' /\ \A j \in Jobs : Answered(j)' => Answered(j)
  <1>1. /\ Len(main) \in Nat /\ Len(main) > 0 /\ DOMAIN main = 1 .. Len(main)
        /\ main' = Tail(main) /\ Head(main) = main[1] /\ DOMAIN main' = 1 .. Len(main) - 1
    BY DEF RunPosted
  <1>2. \A i \in DOMAIN main' : i + 1 \in DOMAIN main /\ i + 1 # 1 /\ main'[i] = main[i + 1]
    BY <1>1
  <1>3. \A i, n \in DOMAIN main' : i + 1 = n + 1 => i = n
    BY <1>1
  <1>4. 1 \in DOMAIN main /\ main[1] \in Message
    BY <1>1
  <1>5. ASSUME NEW j \in Jobs, handled'[j] = handled[j]
        PROVE  /\ Answered(j)' => Answered(j)
               /\ handled'[j] \in {0, 1}
               /\ \A i \in DOMAIN main' : main'[i] = Handler(j) =>
                    handled'[j] = 0 /\ \A n \in DOMAIN main' : main'[n] = Handler(j) => n = i
    <2>1. \A i \in DOMAIN main' : main'[i] = Handler(j) => main[i + 1] = Handler(j)
      BY <1>2
    <2> QED
      BY <1>2, <1>3, <1>5, <2>1 DEF OneAnswer, Answered
  <1>6. ASSUME NEW j \in Jobs, main[1] = Handler(j), handled'[j] = handled[j] + 1
        PROVE  Answered(j) /\ handled'[j] = 1 /\ \A i \in DOMAIN main' : main'[i] # Handler(j)
    <2>1. handled[j] = 0
      BY <1>4, <1>6 DEF OneAnswer
    <2>2. \A i \in DOMAIN main : main[i] = Handler(j) => i = 1
      BY <1>4, <1>6 DEF OneAnswer
    <2> QED
      BY <1>2, <1>4, <1>6, <2>1, <2>2 DEF Answered
  <1>7. \A j \in Jobs : handled'[j] = handled[j]
          \/ (main[1] = Handler(j) /\ handled'[j] = handled[j] + 1)
    <2>1. CASE handled' = handled
      BY <2>1
    <2>2. CASE Head(main).op = "handler" /\ handled' = [handled EXCEPT ![Head(main).j] = @ + 1]
      <3>1. main[1].j \in Jobs /\ main[1] = Handler(main[1].j)
        BY <1>1, <1>4, <2>2 DEF Message, Update, Handler
      <3>2. handled' = [handled EXCEPT ![main[1].j] = handled[main[1].j] + 1]
        BY <1>1, <2>2
      <3> QED
        BY <3>1, <3>2
    <2> QED
      BY <2>1, <2>2 DEF RunPosted
  <1>8. \A j \in Jobs : Answered(j)' => Answered(j)
    BY <1>5, <1>6, <1>7
  <1>9. OneAnswer'
    BY <1>5, <1>6, <1>7 DEF OneAnswer
  <1> QED
    BY <1>8, <1>9

----------------------------------------------------------------------------
(* One answer for every handler: where it is filed *)

\* A thread that has filed its handler, or queued its job, does not do so again.
LEMMA NothingUndone ==
  ASSUME TypeInv, [Next]_vars, NEW j \in Jobs
  PROVE  (Stored(j) => Stored(j)') /\ (Queued(j) => Queued(j)')
  <1>1. caller \in [Jobs -> CallerSteps]
    BY DEF TypeInv, TrackInv, TrackTyped
  <1>2. CASE caller' = caller
    BY <1>2 DEF Stored, Queued, Storing
  <1>3. CASE caller' = [k \in Jobs |-> IF Submitting(k) THEN "done" ELSE caller[k]]
    BY <1>3 DEF Stored, Queued, Storing, Submitting
  <1>4. CASE \E k \in Jobs : StartJob(k) \/ Submit(k)
    <2> PICK k \in Jobs : StartJob(k) \/ Submit(k)
      BY <1>4
    <2>1. Queued(j) => Queued(j)'
      BY SubmitHolds DEF TypeInv
    <2>2. Stored(j) => Stored(j)'
      BY <1>1 DEF StartJob, Submit, StoreBegins, StoreEnds, Enqueue, Stored, Storing
    <2> QED
      BY <2>1, <2>2
  <1> QED
    BY <1>2, <1>3, <1>4 DEF Next, vars, ServiceStep, GetLocalRcd, TrimMemory, StopAll, Shutdown,
       Abandon, GraceEnds, OnNotifyUse, OnStartCommand, DaemonStep, DaemonDies, JobFinishes, JobForgotten,
       RunPosted, Monitor, Take, AddBack, RemoveNext, AnswerRunning, AnswerFinished,
       AnswerNotFound, AskFails, EndPass, SecondPasses

\* Nothing is filed: what is known of a handler's one place and of its answer
\* needs only that no id comes back to the queue and that no handler is answered.
LEMMA NothingFiled ==
  ASSUME TypeInv, HandlerInv, [Next]_vars, handlers' \in {handlers, NoHandlers},
         \A j \in Jobs : Answered(j)' => Answered(j),
         \A k \in Jobs : Queued(k) /\ ~Tracked(k) => ~Tracked(k)' \/ handlers'[k] = None
  PROVE  FiledOnce' /\ AnswerIsFinal'
  <1>1. \A j, k \in Jobs : handlers'[k] = j => handlers[k] = j
    BY ConstantsAssumption DEF NoHandlers
  <1>2. FiledOnce'
    BY <1>1, NothingUndone DEF HandlerInv, FiledOnce
  <1>3. AnswerIsFinal'
    BY <1>1, NothingUndone, ConstantsAssumption DEF HandlerInv, AnswerIsFinal
  <1> QED
    BY <1>2, <1>3

\* The end of an append, which may lose the handler or file it under another
\* job when two overlap (jobsHandlers.append).
LEMMA StoreFiles ==
  ASSUME TypeInv, HandlerInv, NEW j \in Jobs, StoreEnds(j)
  PROVE  HandlerInv'
  <1>1. /\ caller \in [Jobs -> CallerSteps] /\ handlers \in [Jobs -> Jobs \union {None}]
        /\ ~Stored(j) /\ Stored(j)'
    BY DEF TypeInv, TrackInv, TrackTyped, MainTyped, StoreEnds, Stored, Storing
  <1>2. ~Answered(j) /\ \A k \in Jobs : handlers[k] # j
    BY <1>1 DEF HandlerInv, FiledOnce, AnswerIsFinal
  <1>3. handlers' = handlers \/ \E k \in Jobs : handlers' = [handlers EXCEPT ![k] = j]
    BY DEF StoreEnds
  <1>4. \A i, k \in Jobs : i # j /\ handlers'[k] = i => handlers[k] = i
    BY <1>1, <1>3
  <1>5. \A k, l \in Jobs : handlers'[k] = j /\ handlers'[l] = j => k = l
    BY <1>1, <1>2, <1>3
  <1>6. UNCHANGED <<queue, monitor, main, handled>>
    BY DEF StoreEnds
  <1>7. [Next]_vars
    BY DEF Next, Submit
  <1>8. \A i \in Jobs : (Stored(i) => Stored(i)') /\ (Queued(i) => Queued(i)')
    BY <1>7, NothingUndone
  <1>9. FiledOnce'
    BY <1>1, <1>4, <1>5, <1>8 DEF HandlerInv, FiledOnce
  <1>10. AnswerIsFinal'
    <2>1. \A i \in Jobs : Answered(i)' => Answered(i) /\ i # j
      BY <1>2, <1>6 DEF Answered
    <2>2. \A k \in Jobs : Tracked(k)' => Tracked(k)
      BY <1>6 DEF Tracked
    <2> QED
      BY <1>4, <1>8, <2>1, <2>2 DEF HandlerInv, AnswerIsFinal
  <1>11. OneAnswer'
    BY <1>6 DEF HandlerInv, OneAnswer
  <1> QED
    BY <1>9, <1>10, <1>11 DEF HandlerInv

\* The steps of a submission that file nothing; an id that is queued is not queued again.
LEMMA SubmitFilesNothing ==
  ASSUME TypeInv, HandlerInv, NEW j \in Jobs, StartJob(j) \/ StoreBegins(j) \/ Enqueue(j)
  PROVE  HandlerInv'
  <1>1. UNCHANGED <<handlers, main, handled>> /\ [Next]_vars
    BY DEF StartJob, StoreBegins, Enqueue, Next, Submit
  <1>2. \A k \in Jobs : Queued(k) /\ ~Tracked(k) => ~Tracked(k)'
    <2>1. CASE UNCHANGED <<queue, monitor>>
      BY <2>1 DEF Tracked
    <2>2. CASE Enqueue(j)
      <3>1. ~Queued(j)
        BY <2>2 DEF Enqueue, Queued, Storing
      <3>2. monitor' = monitor /\ ToSet(queue') = ToSet(queue) \union {j}
        BY <2>2, ToSetAppend DEF Enqueue, TypeInv, TrackInv, TrackTyped
      <3> QED
        BY <3>1, <3>2 DEF Tracked
    <2> QED
      BY <2>1, <2>2 DEF StartJob, StoreBegins
  <1>3. \A k \in Jobs : Answered(k)' => Answered(k)
    BY <1>1 DEF Answered
  <1>4. OneAnswer'
    BY <1>1 DEF HandlerInv, OneAnswer
  <1> QED
    BY <1>1, <1>2, <1>3, <1>4, NothingFiled DEF HandlerInv

\* A finished job's handler, which may be another job's, is posted; the id is
\* let go and never asked for again (AnswerFinished).
LEMMA FinishedAnswers ==
  ASSUME TypeInv, HandlerInv, AnswerFinished
  PROVE  HandlerInv'
  <1>0. PICK k \in Jobs : k = monitor.now
    BY DEF TypeInv, TrackInv, TrackTyped, MonitorTyped, AnswerFinished, Asked
  <1>1. /\ Tracked(k) /\ handlers' = handlers /\ handled' = handled
        /\ handlers \in [Jobs -> Jobs \union {None}] /\ main \in Seq(Message)
        /\ caller' = caller
    BY <1>0 DEF TypeInv, MainTyped, AnswerFinished, Tracked
  <1>2. [Next]_vars
    BY DEF Next, Monitor
  <1>3. \A l \in Jobs : Tracked(l)' => Tracked(l)
    BY <1>2, MonitorHolds, ConstantsAssumption DEF TypeInv, Monitor
  <1>4. CASE handlers[k] = None
    <2>1. main' = main
      BY <1>0, <1>4 DEF AnswerFinished
    <2>2. \A j \in Jobs : Answered(j)' => Answered(j)
      BY <1>1, <2>1 DEF Answered
    <2>3. OneAnswer'
      BY <1>1, <2>1 DEF HandlerInv, OneAnswer
    <2> QED
      BY <1>1, <1>2, <1>3, <2>2, <2>3, NothingFiled DEF HandlerInv
  <1>5. CASE handlers[k] # None
    <2>0. PICK j \in Jobs : j = handlers[k]
      BY <1>1, <1>5
    <2>1. main' = Append(main, Handler(j))
      BY <1>0, <1>5, <2>0 DEF AnswerFinished
    <2>2. ~Answered(j)
      BY <1>1, <2>0 DEF HandlerInv, AnswerIsFinal
    <2>3. Stored(j) /\ \A l \in Jobs : handlers[l] = j => l = k
      BY <2>0 DEF HandlerInv, FiledOnce
    <2>4. Queued(k) /\ ~Tracked(k)'
      <3>1. queue' = queue /\ monitor'.now = None /\ monitor'.kept = monitor.kept
        BY DEF AnswerFinished, Checked
      <3> QED
        BY <1>0, <1>1, <3>1, ConstantsAssumption DEF TypeInv, HeldOnce, HeldIsQueued, Tracked
    <2>5. OneAnswer' /\ \A i \in Jobs : Answered(i)' => i = j \/ Answered(i)
      BY <1>1, <2>1, <2>2, HandlerPosted DEF HandlerInv
    <2>6. \A i \in Jobs : (Stored(i) => Stored(i)') /\ (Queued(i) => Queued(i)')
      BY <1>2, NothingUndone
    <2>7. FiledOnce'
      BY <1>1, <2>6 DEF HandlerInv, FiledOnce
    <2>8. AnswerIsFinal'
      BY <1>1, <1>3, <2>1, <2>3, <2>4, <2>5, <2>6 DEF HandlerInv, AnswerIsFinal
    <2> QED
      BY <2>5, <2>7, <2>8 DEF HandlerInv
  <1> QED
    BY <1>4, <1>5

\* All other steps: no handler is filed, none answered, no id comes back.
LEMMA OthersFileNothing ==
  ASSUME ConstantsAssumption, TypeInv, HandlerInv, [Next]_vars,
         ServiceStep \/ DaemonStep \/ RunPosted \/ (Monitor /\ ~AnswerFinished) \/ UNCHANGED vars
  PROVE  HandlerInv'
  <1>1. main \in Seq(Message) /\ handled \in [Jobs -> Nat]
    BY DEF TypeInv, MainTyped
  <1>2. OneAnswer' /\ \A j \in Jobs : Answered(j)' => Answered(j)
    <2>1. CASE RunPosted
      BY <1>1, <2>1, FirstRun DEF HandlerInv
    <2>2. CASE ~RunPosted
      <3>1. main' \in {main, Append(main, Update)} /\ handled' = handled
        BY <2>2 DEF vars, ServiceStep, GetLocalRcd, TrimMemory, StopAll, Shutdown, Abandon,
           GraceEnds, OnNotifyUse, OnStartCommand, DaemonStep, DaemonDies, JobFinishes, JobForgotten, Monitor,
           Take, AddBack, RemoveNext, AnswerRunning, AnswerNotFound, AskFails, EndPass,
           SecondPasses
      <3> QED
        BY <1>1, <3>1, UpdatePosted DEF HandlerInv
    <2> QED
      BY <2>1, <2>2
  <1>3. CASE GetLocalRcd \/ TrimMemory \/ StopAll
    <2>1. handlers' = NoHandlers
      BY <1>3 DEF GetLocalRcd, TrimMemory, StopAll, Shutdown
    <2> QED
      BY <1>2, <2>1, NothingFiled DEF HandlerInv, NoHandlers
  <1>4. CASE ~(GetLocalRcd \/ TrimMemory \/ StopAll)
    <2>1. handlers' = handlers
      BY <1>4 DEF vars, ServiceStep, GraceEnds, OnNotifyUse, OnStartCommand, DaemonStep, DaemonDies,
         JobFinishes, JobForgotten, RunPosted, Monitor, Take, AddBack, RemoveNext,
         AnswerRunning, AnswerNotFound, AskFails, EndPass, SecondPasses
    <2>2. \A k \in Jobs : Tracked(k)' => Tracked(k)
      <3>1. CASE Monitor
        BY <3>1, MonitorHolds DEF TypeInv
      <3>2. CASE ~Monitor
        <4>1. UNCHANGED <<queue, monitor>>
          BY <1>4, <3>2 DEF vars, ServiceStep, GraceEnds, OnNotifyUse, OnStartCommand, DaemonStep, DaemonDies,
             JobFinishes, JobForgotten, RunPosted
        <4> QED
          BY <4>1 DEF Tracked
      <3> QED
        BY <3>1, <3>2
    <2> QED
      BY <1>2, <2>1, <2>2, NothingFiled DEF HandlerInv
  <1> QED
    BY <1>3, <1>4

\* Every handler's place and answer are as they should in every state.
LEMMA HandlerInvariant == Spec => []HandlerInv
  <1>1. Init => HandlerInv
    BY ConstantsAssumption DEF Init, NoHandlers, HandlerInv, FiledOnce, AnswerIsFinal, OneAnswer,
       Answered
  <1>2. TypeInv /\ HandlerInv /\ [Next]_vars => HandlerInv'
    <2> SUFFICES ASSUME TypeInv, HandlerInv, [Next]_vars
                 PROVE  HandlerInv'
      OBVIOUS
    <2>1. CASE \E j \in Jobs : StartJob(j) \/ Submit(j)
      BY <2>1, StoreFiles, SubmitFilesNothing DEF Submit
    <2>2. CASE AnswerFinished
      BY <2>2, FinishedAnswers
    <2>3. CASE ServiceStep \/ DaemonStep \/ RunPosted \/ (Monitor /\ ~AnswerFinished)
               \/ UNCHANGED vars
      BY <2>3, ConstantsAssumption, OthersFileNothing
    <2> QED
      BY <2>1, <2>2, <2>3 DEF Next
  <1> QED
    BY <1>1, <1>2, TypeInvariant, PTL DEF Spec

\* Whatever the monitor, the races of append and the restarts of the daemon do,
\* the handler of a job runs, or waits to run, at most once (VirtualContentProvider's
\* listeners).
THEOREM HandlersRunOnce == Spec => []HandledAtMostOnce
  <1>1. HandlerInv => HandledAtMostOnce
    <2> SUFFICES ASSUME HandlerInv, NEW j \in Jobs
                 PROVE  handled[j] + Cardinality({i \in DOMAIN main : main[i] = Handler(j)}) <= 1
      BY DEF HandledAtMostOnce
    <2> DEFINE P == {i \in DOMAIN main : main[i] = Handler(j)}
    <2>1. CASE P = {}
      <3>1. Cardinality(P) = 0 /\ handled[j] \in {0, 1}
        BY <2>1, FS_EmptySet DEF HandlerInv, OneAnswer
      <3> QED
        BY <3>1
    <2>2. CASE P # {}
      <3>1. PICK i \in DOMAIN main : main[i] = Handler(j)
        BY <2>2
      <3>2. P = {i} /\ handled[j] = 0
        BY <3>1 DEF HandlerInv, OneAnswer
      <3>3. Cardinality(P) = 1
        BY <3>2, FS_Singleton
      <3> QED
        BY <3>2, <3>3
    <2> QED
      BY <2>1, <2>2
  <1> QED
    BY <1>1, HandlerInvariant, PTL
=============================================================================
