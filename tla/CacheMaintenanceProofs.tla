----------------------- MODULE CacheMaintenanceProofs -----------------------
(***************************************************************************)
(* Proofs about CacheMaintenance, for any files, sizes and limits and any  *)
(* number of changes and process deaths: trims are coalesced without       *)
(* losing one, every variable has its type, what is published is true of   *)
(* the directory, and a trim takes the oldest files it can delete and not  *)
(* one too many.                                                           *)
(***************************************************************************)
EXTENDS CacheMaintenance, FiniteSetTheorems, WellFoundedInduction, TLAPS

-----------------------------------------------------------------------------
(* Trims.  The argument is about the counters and flags; the directory       *)
(* plays no part.                                                            *)

\* The part of the types the argument needs.
TrimTyped ==
  /\ requests \in Nat /\ handled \in Nat
  /\ scheduled \in [trim : BOOLEAN, refresh : BOOLEAN]
  /\ jobs \in [trim : Nat, refresh : Nat, clear : Nat]
  /\ main = [pc |-> main.pc, callback |-> main.callback, snapshot |-> main.snapshot]
  /\ maint = [pc |-> maint.pc, then |-> maint.then, gen |-> maint.gen, stats |-> maint.stats]
  /\ maint.then \in {"idle", "trimDone", "refreshDone"}

\* What a task is to continue with, by where the maintenance thread is: only
\* between the start and the end of a task does it remember one.
Where ==
  /\ maint.pc \in {"boot", "idle", "look", "compare", "returned", "measure", "import"} => maint.then = "idle"
  /\ maint.pc \in {"trim", "sort", "sweep"} => maint.then \in {"idle", "trimDone"}
  /\ maint.pc \in {"trimDone", "trimAgain"} => maint.then = "trimDone"
  /\ maint.pc \in {"refreshDone", "refreshOver", "refreshAgain"} => maint.then = "refreshDone"
  /\ maint.pc = "calculate" => maint.then = "refreshDone"

TrimInv == TrimTyped /\ Where /\ NoTrimLost

\* Nothing is requested and nothing is queued when the process starts (Init).
LEMMA TrimInit == Init => TrimInv
  BY DEF Init, TrimInv, TrimTyped, Where, NoTrimLost, TrimRunning, At, BootMaint, IdleMaint, IdleMain

\* Enqueueing a trim leaves one in the queue, or one that runs (EnqueueTrim).
LEMMA EnqueueTrimEffect ==
  ASSUME TrimInv, EnqueueTrim
  PROVE  /\ scheduled' \in [trim : BOOLEAN, refresh : BOOLEAN]
         /\ jobs' \in [trim : Nat, refresh : Nat, clear : Nat]
         /\ scheduled'.trim
         /\ jobs'.trim = 1 \/ TrimRunning
         /\ jobs'.trim \in {0, 1} /\ ~(jobs'.trim = 1 /\ TrimRunning)
  <1>1. CASE scheduled.trim
    BY <1>1 DEF EnqueueTrim, TrimInv, TrimTyped, NoTrimLost, queueVars
  <1>2. CASE ~scheduled.trim
    <2>1. /\ scheduled' = [scheduled EXCEPT !.trim = TRUE]
          /\ jobs' = [jobs EXCEPT !.trim = @ + 1]
      BY <1>2 DEF EnqueueTrim
    <2>2. jobs.trim = 0 /\ ~TrimRunning
      BY <1>2 DEF TrimInv, NoTrimLost
    <2>3. scheduled' \in [trim : BOOLEAN, refresh : BOOLEAN] /\ scheduled'.trim
      BY <2>1 DEF TrimInv, TrimTyped
    <2>4. jobs' \in [trim : Nat, refresh : Nat, clear : Nat] /\ jobs'.trim = 1
      BY <2>1, <2>2 DEF TrimInv, TrimTyped
    <2> QED
      BY <2>2, <2>3, <2>4
  <1> QED
    BY <1>1, <1>2

\* Enqueueing a refresh leaves the trims alone (EnqueueRefresh).
LEMMA EnqueueRefreshEffect ==
  ASSUME TrimInv, EnqueueRefresh
  PROVE  /\ scheduled' \in [trim : BOOLEAN, refresh : BOOLEAN]
         /\ jobs' \in [trim : Nat, refresh : Nat, clear : Nat]
         /\ scheduled'.trim = scheduled.trim /\ jobs'.trim = jobs.trim
  <1>1. CASE scheduled.refresh
    BY <1>1 DEF EnqueueRefresh, TrimInv, TrimTyped, queueVars
  <1>2. CASE ~scheduled.refresh
    <2>1. /\ scheduled' = [scheduled EXCEPT !.refresh = TRUE]
          /\ jobs' = [jobs EXCEPT !.refresh = @ + 1]
      BY <1>2 DEF EnqueueRefresh
    <2>2. scheduled' \in [trim : BOOLEAN, refresh : BOOLEAN] /\ scheduled'.trim = scheduled.trim
      BY <2>1 DEF TrimInv, TrimTyped
    <2>3. jobs' \in [trim : Nat, refresh : Nat, clear : Nat] /\ jobs'.trim = jobs.trim
      BY <2>1 DEF TrimInv, TrimTyped
    <2> QED
      BY <2>2, <2>3
  <1> QED
    BY <1>1, <1>2

\* The workers: a write is counted, and its request enqueues a trim.
LEMMA WorkerKeeps ==
  ASSUME TrimInv,
         \/ \E f \in Thumbs : WriteThumbnail(f) \/ DeleteThumbnail(f) \/ Touch(f)
         \/ WorkerStep
  PROVE  TrimInv'
  <1> USE DEF TrimInv, trimVars, queueVars
  <1>1. CASE RequestTrimAfterWrite
    BY <1>1, EnqueueTrimEffect
    DEF RequestTrimAfterWrite, TrimTyped, Where, NoTrimLost, TrimRunning, At
  <1>2. CASE CountWrite \/ CountDelete
    BY <1>2 DEF CountWrite, CountDelete, TrimTyped, Where, NoTrimLost, TrimRunning, At
  <1>3. ASSUME NEW f \in Thumbs, WriteThumbnail(f) \/ DeleteThumbnail(f) \/ Touch(f)
        PROVE  TrimInv'
    BY <1>3 DEF WriteThumbnail, DeleteThumbnail, Touch, DiskLockFree, TrimTyped, Where,
                NoTrimLost, TrimRunning, At
  <1> QED
    BY <1>1, <1>2, <1>3 DEF WorkerStep

\* The main thread: a changed limit requests a trim, statistics a refresh.
LEMMA MainKeeps ==
  ASSUME TrimInv,
         \/ \E l \in Limits : ChangeLimit(l)
         \/ \E c \in Callbacks : AskStatistics(c)
         \/ RequestClear \/ MainStep
  PROVE  TrimInv'
  <1> USE DEF TrimInv, trimVars, queueVars
  <1>1. CASE RequestTrimAfterChange
    BY <1>1, EnqueueTrimEffect
    DEF RequestTrimAfterChange, IdleMain, TrimTyped, Where, NoTrimLost, TrimRunning, At
  <1>2. CASE RequestRefresh
    BY <1>2, EnqueueRefreshEffect
    DEF RequestRefresh, IdleMain, TrimTyped, Where, NoTrimLost, TrimRunning, At
  <1>3. CASE CompareGenerations \/ AwaitStatistics
    BY <1>3 DEF CompareGenerations, AwaitStatistics, IdleMain, TrimTyped, Where, NoTrimLost,
                TrimRunning, At
  <1>4. ASSUME NEW l \in Limits, ChangeLimit(l) PROVE TrimInv'
    BY <1>4 DEF ChangeLimit, TrimTyped, Where, NoTrimLost, TrimRunning, At
  <1>5. ASSUME NEW c \in Callbacks, AskStatistics(c) PROVE TrimInv'
    BY <1>5 DEF AskStatistics, TrimTyped, Where, NoTrimLost, TrimRunning, At
  <1>6. CASE RequestClear
    BY <1>6 DEF RequestClear, TrimTyped, Where, NoTrimLost, TrimRunning, At
  <1> QED
    BY <1>1, <1>2, <1>3, <1>4, <1>5, <1>6 DEF MainStep

\* The maintenance thread: a trim forgets the requests it started from, and
\* looks for later ones after it has given up its place.
LEMMA MaintenanceKeeps ==
  ASSUME TrimInv,
         \/ MaintenanceStep
         \/ StartImport
         \/ \E f \in Thumbs, i \in 0..Len(disk) : ImportEntry(f, i)
  PROVE  TrimInv'
  <1> USE DEF TrimInv, trimVars, queueVars, At, Goto, IdleMaint
  <1>1. CASE StartTrim
    <2>1. /\ jobs.trim = 1 /\ maint.pc = "idle" /\ maint.then = "idle" /\ scheduled.trim
          /\ UNCHANGED <<requests, scheduled>> /\ handled' = requests
      BY <1>1 DEF StartTrim, Run, TrimTyped, Where, NoTrimLost, trimVars
    <2>2. jobs' = [jobs EXCEPT !.trim = 0]
      BY <1>1, <2>1 DEF StartTrim, TrimTyped
    <2>3. jobs' \in [trim : Nat, refresh : Nat, clear : Nat] /\ jobs'.trim = 0
      BY <2>2 DEF TrimTyped
    <2>4. /\ maint'.pc = "trim" /\ maint'.then = "trimDone" /\ UNCHANGED main
          /\ maint' = [pc |-> "trim", then |-> "trimDone", gen |-> maint.gen, stats |-> maint.stats]
      BY <1>1 DEF StartTrim, TrimTyped
    <2> QED
      BY <2>1, <2>3, <2>4 DEF TrimTyped, Where, NoTrimLost, TrimRunning
  <1>2. CASE BootInvalid \/ Boot
    BY <1>2 DEF BootInvalid, Boot, TrimTyped, Where, NoTrimLost, TrimRunning
  <1>3. CASE ListFiles \/ SortFiles \/ DeleteNext \/ FailToDelete \/ EndSweep
    BY <1>3 DEF ListFiles, SortFiles, DeleteNext, FailToDelete, EndSweep, TrimTyped, Where,
                NoTrimLost, TrimRunning
  <1>4. CASE Clear
    BY <1>4 DEF Clear, Run, TrimTyped, Where, NoTrimLost, TrimRunning
  <1>5. CASE StartRefresh
    BY <1>5 DEF StartRefresh, Run, TrimTyped, Where, NoTrimLost, TrimRunning
  <1>6. CASE LookForCallbacks \/ CompareBeforeRefresh
    BY <1>6 DEF LookForCallbacks, CompareBeforeRefresh, TrimTyped, Where, NoTrimLost, TrimRunning
  <1>7. CASE Return
    BY <1>7 DEF Return, TrimTyped, Where, NoTrimLost, TrimRunning
  <1>8. CASE Measure \/ Calculate
    BY <1>8 DEF Measure, Calculate, TrimTyped, Where, NoTrimLost, TrimRunning
  <1>9. CASE Publish
    BY <1>9 DEF Publish, After, TrimTyped, Where, NoTrimLost, TrimRunning
  <1>10. CASE Store \/ CallBack
    BY <1>10 DEF Store, CallBack, After, TrimTyped, Where, NoTrimLost, TrimRunning
  <1>11. CASE TrimDone
    BY <1>11 DEF TrimDone, TrimTyped, Where, NoTrimLost, TrimRunning
  <1>12. CASE TrimAgain
    BY <1>12, EnqueueTrimEffect
    DEF TrimAgain, EnqueueIfRequested, TrimTyped, Where, NoTrimLost, TrimRunning
  <1>13. CASE RefreshDone
    BY <1>13, EnqueueTrimEffect DEF RefreshDone, TrimTyped, Where, NoTrimLost, TrimRunning
  <1>14. CASE RefreshOver
    BY <1>14 DEF RefreshOver, TrimTyped, Where, NoTrimLost, TrimRunning
  <1>15. CASE RefreshAgain
    BY <1>15, EnqueueRefreshEffect DEF RefreshAgain, TrimTyped, Where, NoTrimLost, TrimRunning
  <1>16. ASSUME NEW f \in Thumbs, NEW i \in 0..Len(disk), ImportEntry(f, i)
         PROVE  TrimInv'
    BY <1>16 DEF ImportEntry, TrimTyped, Where, NoTrimLost, TrimRunning
  <1>17. CASE StartImport \/ EndImport
    BY <1>17 DEF StartImport, EndImport, TrimTyped, Where, NoTrimLost, TrimRunning
  <1> QED
    BY <1>1, <1>2, <1>3, <1>4, <1>5, <1>6, <1>7, <1>8, <1>9, <1>10, <1>11, <1>12, <1>13, <1>14,
       <1>15, <1>16, <1>17 DEF MaintenanceStep

\* A process death takes the requests and the queue with it.
LEMMA CrashKeeps == TrimInv /\ Crash => TrimInv'
  BY DEF Crash, BootMaint, IdleMaint, IdleMain, TrimInv, TrimTyped, Where, NoTrimLost,
         TrimRunning, At

\* TrimInv is inductive.
LEMMA TrimNext == TrimInv /\ [Next]_vars => TrimInv'
  <1> SUFFICES ASSUME TrimInv, [Next]_vars PROVE TrimInv'
    OBVIOUS
  <1>1. CASE UNCHANGED vars
    BY <1>1 DEF vars, trimVars, queueVars, TrimInv, TrimTyped, Where, NoTrimLost, TrimRunning, At
  <1> QED
    BY <1>1, WorkerKeeps, MainKeeps, MaintenanceKeeps, CrashKeeps DEF Next

\* No request for a trim is lost and no trim is queued twice, whoever asks and
\* whenever (requestDiskCacheTrim, enqueueDiskCacheTrim).
THEOREM TrimsAreNotLost == Spec => []NoTrimLost
  <1>1. TrimInv => NoTrimLost
    BY DEF TrimInv
  <1> QED
    BY <1>1, TrimInit, TrimNext, PTL DEF Spec
-----------------------------------------------------------------------------
(* What the directory holds.  Induction over a number is induction on the    *)
(* set of numbers for which a statement holds.                               *)

\* A set of numbers that is not empty has a least one.
LEMMA LeastOf ==
  ASSUME NEW I \in SUBSET Nat, I # {}
  PROVE  \E i \in I : \A j \in I : i <= j
  <1>1. PICK i \in I : \A j \in I : <<j, i>> \notin OpToRel(<, Nat)
    BY NatLessThanWellFounded, WFMin
  <1>2. \A j \in I : ~(j < i)
    BY <1>1 DEF OpToRel
  <1> QED
    BY <1>2

\* A set with 0 and with the successor of each of its numbers up to N has all of
\* them.
LEMMA UpTo ==
  ASSUME NEW N \in Nat, NEW I, 0 \in I, \A n \in 0..N - 1 : n \in I => n + 1 \in I
  PROVE  0..N \subseteq I
  <1> DEFINE Missing == {n \in Nat : n \in 0..N /\ n \notin I}
  <1> SUFFICES ASSUME Missing # {} PROVE FALSE
    OBVIOUS
  <1>1. PICK n \in Missing : \A m \in Missing : n <= m
    BY LeastOf
  <1>2. n \in 1..N /\ n - 1 \in 0..N - 1 /\ n - 1 \notin Missing
    BY <1>1
  <1>3. n - 1 \in I /\ (n - 1) + 1 = n
    BY <1>2
  <1> QED
    BY <1>1, <1>2, <1>3

\* The sum of the sizes of the first files, one file after the other
\* (calculateCacheStatistics).
Sums(d, u) == u = [n \in 0..Len(d) |-> IF n = 0 THEN 0 ELSE u[n - 1] + Size[d[n]]]
IsSum(d, u) == u[0] = 0 /\ \A n \in 1..Len(d) : u[n] = u[n - 1] + Size[d[n]]

\* There are such sums: each is found from the one before.
LEMMA SumsExist ==
  ASSUME NEW d \in Seq(Thumbs)
  PROVE  \E u \in [0..Len(d) -> Nat] : IsSum(d, u)
  <1> DEFINE N == Len(d)
             Part(n, u) == u \in [0..n -> Nat] /\ u[0] = 0
                           /\ \A m \in 1..n : u[m] = u[m - 1] + Size[d[m]]
             I == {n \in 0..N : \E u : Part(n, u)}
  <1>1. N \in Nat /\ \A n \in 1..N : d[n] \in Thumbs /\ Size[d[n]] \in Nat
    BY SizeAssumption
  <1>2. 0 \in I
    <2> DEFINE z == [n \in 0..0 |-> 0]
    <2>1. Part(0, z)
      OBVIOUS
    <2> HIDE DEF Part, z
    <2> QED
      BY <1>1, <2>1
  <1>3. ASSUME NEW n \in 0..N - 1, n \in I PROVE n + 1 \in I
    <2>1. PICK u : Part(n, u)
      BY <1>3
    <2> DEFINE v == [m \in 0..n + 1 |-> IF m = n + 1 THEN u[n] + Size[d[n + 1]] ELSE u[m]]
    <2>2. n + 1 \in 1..N /\ u[n] \in Nat /\ Size[d[n + 1]] \in Nat
      BY <1>1, <2>1
    <2>3. v \in [0..n + 1 -> Nat] /\ v[0] = 0
      BY <2>1, <2>2
    <2>4. ASSUME NEW m \in 1..n + 1 PROVE v[m] = v[m - 1] + Size[d[m]]
      BY <2>1, <2>2
    <2>5. Part(n + 1, v)
      BY <2>3, <2>4
    <2> HIDE DEF Part, v
    <2> QED
      BY <2>2, <2>5
  <1> HIDE DEF Part
  <1>4. N \in I
    <2>1. 0..N \subseteq I
      BY <1>1, <1>2, <1>3, UpTo
    <2> QED
      BY <1>1, <2>1
  <1> USE DEF Part
  <1> QED
    BY <1>4 DEF IsSum

\* They are the same for whoever finds them.
LEMMA SumsAgree ==
  ASSUME NEW d \in Seq(Thumbs), NEW u, NEW v, IsSum(d, u), IsSum(d, v)
  PROVE  u[Len(d)] = v[Len(d)]
  <1> DEFINE N == Len(d)
             I == {n \in 0..N : u[n] = v[n]}
  <1>1. N \in Nat
    OBVIOUS
  <1>2. 0 \in I
    BY <1>1 DEF IsSum
  <1>3. ASSUME NEW n \in 0..N - 1, n \in I PROVE n + 1 \in I
    <2>1. n + 1 \in 1..N /\ (n + 1) - 1 = n
      BY <1>1
    <2>2. u[n + 1] = u[n] + Size[d[n + 1]] /\ v[n + 1] = v[n] + Size[d[n + 1]]
      BY <2>1 DEF IsSum
    <2> QED
      BY <1>1, <1>3, <2>1, <2>2
  <1>4. 0..N \subseteq I
    BY <1>1, <1>2, <1>3, UpTo
  <1> QED
    BY <1>1, <1>4

\* Bytes adds the sizes up.
LEMMA BytesSum ==
  ASSUME NEW d \in Seq(Thumbs), NEW u, IsSum(d, u)
  PROVE  Bytes(d) = u[Len(d)]
  <1>1. PICK g \in [0..Len(d) -> Nat] : IsSum(d, g)
    BY SumsExist
  <1>2. Sums(d, g)
    BY <1>1 DEF Sums, IsSum
  <1> DEFINE c == CHOOSE w : Sums(d, w)
  <1>3. Bytes(d) = c[Len(d)]
    BY Zenon DEF Bytes, Sums
  <1>4. Sums(d, c)
    BY <1>2
  <1> HIDE DEF c
  <1>5. IsSum(d, c)
    BY <1>4 DEF Sums, IsSum
  <1> QED
    BY <1>3, <1>5, SumsAgree

\* It is a number, and 0 for an empty directory.
LEMMA BytesTyped ==
  ASSUME NEW d \in Seq(Thumbs)
  PROVE  Bytes(d) \in Nat /\ Statistics(d) \in [count : Nat, bytes : Nat]
  <1>1. PICK g \in [0..Len(d) -> Nat] : IsSum(d, g)
    BY SumsExist
  <1>2. Bytes(d) = g[Len(d)]
    BY <1>1, BytesSum
  <1>3. Len(d) \in Nat /\ Bytes(d) \in Nat
    BY <1>1, <1>2
  <1> QED
    BY <1>3 DEF Statistics

\* It is 0 for an empty directory.
LEMMA BytesOfNothing == Bytes(<<>>) = 0
  <1> DEFINE z == [n \in 0..0 |-> 0]
  <1>1. IsSum(<<>>, z) /\ <<>> \in Seq(Thumbs)
    BY DEF IsSum
  <1>2. Len(<<>>) = 0 /\ z[0] = 0
    OBVIOUS
  <1> HIDE DEF z
  <1> QED
    BY <1>1, <1>2, BytesSum

-----------------------------------------------------------------------------
(* The order of use. *)

\* The files without one of them keep their order, and the one put last has its size
\* counted at the end (loadOrGenerate).
LEMMA RemovedAt ==
  ASSUME NEW d \in Seq(Thumbs), NEW i \in 1..Len(d)
  PROVE  /\ RemoveAt(d, i) \in Seq(Thumbs) /\ Len(RemoveAt(d, i)) = Len(d) - 1
         /\ \A n \in 1..Len(d) - 1 : RemoveAt(d, i)[n] = IF n < i THEN d[n] ELSE d[n + 1]
  <1> DEFINE a == SubSeq(d, 1, i - 1)
             b == SubSeq(d, i + 1, Len(d))
  <1>1. Len(d) \in Nat /\ i \in Nat /\ i <= Len(d) /\ 1 <= i
    OBVIOUS
  <1>2. a \in Seq(Thumbs) /\ Len(a) = i - 1 /\ \A n \in 1..i - 1 : a[n] = d[n]
    BY <1>1
  <1>3. b \in Seq(Thumbs) /\ Len(b) = Len(d) - i /\ \A n \in 1..Len(d) - i : b[n] = d[n + i]
    BY <1>1
  <1> HIDE DEF a, b
  <1>4. a \o b \in Seq(Thumbs) /\ Len(a \o b) = Len(d) - 1
    <2>1. a \in Seq(Thumbs) /\ b \in Seq(Thumbs)
      BY <1>2, <1>3
    <2>2. a \o b \in Seq(Thumbs) /\ Len(a \o b) = Len(a) + Len(b)
      BY <2>1
    <2>3. Len(a) + Len(b) = Len(d) - 1
      BY <1>1, <1>2, <1>3
    <2> QED
      BY <2>2, <2>3
  <1>5. ASSUME NEW n \in 1..Len(d) - 1
        PROVE  (a \o b)[n] = IF n < i THEN d[n] ELSE d[n + 1]
    <2>1. CASE n < i
      BY <1>1, <1>2, <1>3, <2>1
    <2>2. CASE ~(n < i)
      <3>1. (a \o b)[n] = b[n - (i - 1)]
        BY <1>1, <1>2, <1>3, <2>2
      <3>2. n - (i - 1) \in 1..Len(d) - i /\ n - (i - 1) + i = n + 1
        BY <1>1, <2>2
      <3> QED
        BY <1>3, <2>2, <3>1, <3>2
    <2> QED
      BY <2>1, <2>2
  <1> QED
    BY <1>4, <1>5 DEF RemoveAt, a, b

\* A file that is used counts as much as before (loadOrGenerate).
LEMMA UseKeepsBytes ==
  ASSUME NEW d \in Seq(Thumbs), NEW i \in 1..Len(d)
  PROVE  /\ Bytes(Append(RemoveAt(d, i), d[i])) = Bytes(d)
         /\ Len(Append(RemoveAt(d, i), d[i])) = Len(d)
  <1> DEFINE N == Len(d)
             r == RemoveAt(d, i)
             e == Append(r, d[i])
  <1>1. N \in Nat /\ i \in 1..N /\ d[i] \in Thumbs
    OBVIOUS
  <1>2. /\ r \in Seq(Thumbs) /\ Len(r) = N - 1
        /\ \A n \in 1..N - 1 : r[n] = IF n < i THEN d[n] ELSE d[n + 1]
    BY RemovedAt
  <1> HIDE DEF r
  <1>3. e \in Seq(Thumbs) /\ Len(e) = N /\ e[N] = d[i] /\ \A n \in 1..N - 1 : e[n] = r[n]
    BY <1>1, <1>2
  <1>4. \A n \in 1..N - 1 : e[n] = IF n < i THEN d[n] ELSE d[n + 1]
    BY <1>2, <1>3
  <1> HIDE DEF e
  <1>5. PICK g \in [0..N -> Nat] : IsSum(d, g)
    BY SumsExist
  <1>6. /\ g[0] = 0 /\ \A n \in 1..N : g[n] = g[n - 1] + Size[d[n]]
        /\ \A n \in 0..N : g[n] \in Nat
        /\ \A n \in 1..N : Size[d[n]] \in Nat
    <2>1. g[0] = 0 /\ \A n \in 1..N : g[n] = g[n - 1] + Size[d[n]]
      BY Zenon, <1>5 DEF IsSum
    <2>2. \A n \in 0..N : g[n] \in Nat
      BY <1>5
    <2>3. \A n \in 1..N : Size[d[n]] \in Nat
      BY <1>1, SizeAssumption
    <2> QED
      BY <2>1, <2>2, <2>3
  <1> DEFINE h == [n \in 0..N |-> IF n < i THEN g[n]
                                 ELSE IF n < N THEN g[n + 1] - Size[d[i]] ELSE g[N]]
  <1>7. h[0] = 0
    BY <1>1, <1>6
  <1>8. ASSUME NEW n \in 1..N PROVE h[n] = h[n - 1] + Size[e[n]]
    <2>1. n \in Nat /\ n - 1 \in 0..N /\ n \in 0..N
      BY <1>1
    <2>2. CASE n < i
      <3>1. h[n] = g[n] /\ h[n - 1] = g[n - 1] /\ e[n] = d[n]
        BY <1>1, <1>4, <2>1, <2>2
      <3> QED
        BY <1>6, <3>1
    <2>3. CASE n = i /\ n < N
      <3>1. h[n] = g[n + 1] - Size[d[i]] /\ h[n - 1] = g[n - 1] /\ e[n] = d[n + 1]
        BY <1>1, <1>4, <2>1, <2>3
      <3>2. g[n + 1] = g[n] + Size[d[n + 1]] /\ g[n] = g[n - 1] + Size[d[n]]
        <4>1. n + 1 \in 1..N /\ (n + 1) - 1 = n
          BY <1>1, <2>3
        <4> QED
          BY <1>6, <4>1
      <3>3. g[n - 1] \in Nat /\ Size[d[n]] \in Nat /\ Size[d[n + 1]] \in Nat
        BY <1>1, <1>6, <2>1, <2>3
      <3> QED
        BY <2>3, <3>1, <3>2, <3>3
    <2>4. CASE n > i /\ n < N
      <3>1. h[n] = g[n + 1] - Size[d[i]] /\ h[n - 1] = g[n] - Size[d[i]] /\ e[n] = d[n + 1]
        BY <1>1, <1>4, <2>1, <2>4
      <3>2. g[n + 1] = g[n] + Size[d[n + 1]]
        <4>1. n + 1 \in 1..N /\ (n + 1) - 1 = n
          BY <1>1, <2>4
        <4> QED
          BY <1>6, <4>1
      <3>3. g[n] \in Nat /\ Size[d[i]] \in Nat /\ Size[d[n + 1]] \in Nat
        BY <1>1, <1>6, <2>1, <2>4
      <3> QED
        BY <3>1, <3>2, <3>3
    <2>5. CASE n = N /\ n = i
      <3>1. h[n] = g[N] /\ h[n - 1] = g[n - 1] /\ e[n] = d[n]
        BY <1>1, <1>3, <2>1, <2>5
      <3> QED
        BY <1>6, <2>5, <3>1
    <2>6. CASE n = N /\ n > i
      <3>1. h[n] = g[N] /\ h[n - 1] = g[n] - Size[d[i]] /\ e[n] = d[i]
        BY <1>1, <1>3, <2>1, <2>6
      <3>2. g[N] \in Nat /\ Size[d[i]] \in Nat
        BY <1>1, <1>6
      <3> QED
        BY <2>6, <3>1, <3>2
    <2> QED
      BY <1>1, <2>2, <2>3, <2>4, <2>5, <2>6
  <1>9. h[N] = g[N]
    BY <1>1
  <1> HIDE DEF h
  <1>10. IsSum(e, h)
    BY <1>3, <1>7, <1>8 DEF IsSum
  <1>11. Bytes(e) = h[N] /\ Bytes(d) = g[N]
    BY <1>3, <1>5, <1>10, BytesSum
  <1> QED
    BY <1>3, <1>9, <1>11 DEF e, r

\* A file more counts for its size (calculateCacheStatistics).
LEMMA AppendBytes ==
  ASSUME NEW d \in Seq(Thumbs), NEW f \in Thumbs
  PROVE  Bytes(Append(d, f)) = Bytes(d) + Size[f]
  <1> DEFINE N == Len(d)
             e == Append(d, f)
  <1>1. N \in Nat /\ e \in Seq(Thumbs) /\ Len(e) = N + 1 /\ e[N + 1] = f
        /\ \A n \in 1..N : e[n] = d[n]
    OBVIOUS
  <1> HIDE DEF e
  <1>2. PICK g \in [0..N -> Nat] : IsSum(d, g)
    BY SumsExist
  <1>3. g[0] = 0 /\ \A n \in 1..N : g[n] = g[n - 1] + Size[d[n]]
    BY <1>2 DEF IsSum
  <1> DEFINE h == [n \in 0..N + 1 |-> IF n = N + 1 THEN g[N] + Size[f] ELSE g[n]]
  <1>4. h[0] = 0 /\ h[N + 1] = g[N] + Size[f]
    BY <1>1, <1>3
  <1>5. ASSUME NEW n \in 1..N + 1 PROVE h[n] = h[n - 1] + Size[e[n]]
    BY <1>1, <1>3
  <1> HIDE DEF h
  <1>6. IsSum(e, h)
    BY <1>1, <1>4, <1>5 DEF IsSum
  <1>7. Bytes(e) = h[N + 1] /\ Bytes(d) = g[N]
    BY <1>1, <1>2, <1>6, BytesSum
  <1> QED
    BY <1>4, <1>7 DEF e

\* A file that is removed takes its size with it (trimDiskCache).
LEMMA RemovedBytes ==
  ASSUME NEW d \in Seq(Thumbs), NEW i \in 1..Len(d)
  PROVE  /\ Size[d[i]] \in Nat /\ Bytes(RemoveAt(d, i)) \in Nat
         /\ Bytes(d) = Bytes(RemoveAt(d, i)) + Size[d[i]]
         /\ Len(RemoveAt(d, i)) = Len(d) - 1 /\ Len(d) \in Nat /\ Len(d) >= 1
  <1>1. d[i] \in Thumbs /\ Len(d) \in Nat /\ Len(d) >= 1
    OBVIOUS
  <1>2. RemoveAt(d, i) \in Seq(Thumbs) /\ Len(RemoveAt(d, i)) = Len(d) - 1
    BY RemovedAt
  <1>3. Bytes(Append(RemoveAt(d, i), d[i])) = Bytes(RemoveAt(d, i)) + Size[d[i]]
    BY Zenon, <1>1, <1>2, AppendBytes
  <1>4. Bytes(Append(RemoveAt(d, i), d[i])) = Bytes(d)
    BY Zenon, UseKeepsBytes
  <1>5. Bytes(RemoveAt(d, i)) \in Nat /\ Size[d[i]] \in Nat
    BY <1>1, <1>2, BytesTyped, SizeAssumption
  <1> QED
    BY <1>1, <1>2, <1>3, <1>4, <1>5

\* The files that stay keep their order.
LEMMA OrderKept ==
  ASSUME NEW d \in Seq(Thumbs), NEW i \in 1..Len(d)
  PROVE  /\ \A n \in DOMAIN RemoveAt(d, i) :
              \E k \in DOMAIN d : k # i /\ d[k] = RemoveAt(d, i)[n]
         /\ \A k \in DOMAIN d : k # i => \E n \in DOMAIN RemoveAt(d, i) : RemoveAt(d, i)[n] = d[k]
         /\ \A m, n \in DOMAIN RemoveAt(d, i) : m < n =>
              \E k, l \in DOMAIN d : k < l /\ d[k] = RemoveAt(d, i)[m] /\ d[l] = RemoveAt(d, i)[n]
  <1> DEFINE N == Len(d)
             e == RemoveAt(d, i)
             up(n) == IF n < i THEN n ELSE n + 1
             down(k) == IF k < i THEN k ELSE k - 1
  <1>1. e \in Seq(Thumbs) /\ Len(e) = N - 1 /\ \A n \in 1..N - 1 : e[n] = IF n < i THEN d[n] ELSE d[n + 1]
    BY RemovedAt
  <1> HIDE DEF e
  <1>2. N \in Nat /\ DOMAIN d = 1..N /\ DOMAIN e = 1..N - 1 /\ i \in 1..N
    BY <1>1
  <1> HIDE DEF N
  <1>3. ASSUME NEW n \in 1..N - 1 PROVE up(n) \in 1..N /\ up(n) # i /\ d[up(n)] = e[n]
    BY <1>1, <1>2
  <1>4. ASSUME NEW m \in 1..N - 1, NEW n \in 1..N - 1, m < n PROVE up(m) < up(n)
    BY <1>2, <1>4
  <1>5. ASSUME NEW k \in 1..N, k # i PROVE down(k) \in 1..N - 1 /\ up(down(k)) = k
    BY <1>2, <1>5
  <1> HIDE DEF up, down
  <1>6. \A n \in DOMAIN e : \E k \in DOMAIN d : k # i /\ d[k] = e[n]
    BY <1>2, <1>3
  <1>7. \A k \in DOMAIN d : k # i => \E n \in DOMAIN e : e[n] = d[k]
    BY <1>2, <1>3, <1>5
  <1>8. \A m, n \in DOMAIN e : m < n => \E k, l \in DOMAIN d : k < l /\ d[k] = e[m] /\ d[l] = e[n]
    BY <1>2, <1>3, <1>4
  <1> QED
    BY <1>6, <1>7, <1>8 DEF e

\* The files without f are still one after the other, each once, and f is not among
\* them (deleteCachedThumbnail, importCacheInternal).
LEMMA OthersTyped ==
  ASSUME disk \in Seq(Thumbs), IsInjective(disk), NEW f \in Thumbs
  PROVE  /\ Others(f) \in Seq(Thumbs) /\ IsInjective(Others(f))
         /\ \A n \in DOMAIN Others(f) : Others(f)[n] # f
         /\ Contains(disk, f) => \E i \in 1..Len(disk) : disk[i] = f /\ Others(f) = RemoveAt(disk, i)
  <1>1. CASE ~Contains(disk, f)
    BY <1>1 DEF Others, Contains
  <1>2. CASE Contains(disk, f)
    <2> DEFINE i == CHOOSE n \in DOMAIN disk : disk[n] = f
               e == RemoveAt(disk, i)
    <2>1. i \in 1..Len(disk) /\ disk[i] = f
      BY <1>2 DEF Contains
    <2>2. Others(f) = e
      BY <1>2 DEF Others
    <2> HIDE DEF i
    <2>3. /\ e \in Seq(Thumbs) /\ Len(e) = Len(disk) - 1
          /\ \A n \in 1..Len(disk) - 1 : e[n] = IF n < i THEN disk[n] ELSE disk[n + 1]
      BY <2>1, RemovedAt
    <2> HIDE DEF e
    <2>4. Len(disk) \in Nat /\ DOMAIN disk = 1..Len(disk) /\ DOMAIN e = 1..Len(disk) - 1
      BY <2>3
    <2>5. \A m, n \in 1..Len(disk) : disk[m] = disk[n] => m = n
      BY <2>4 DEF IsInjective
    <2>6. ASSUME NEW n \in DOMAIN e PROVE e[n] # f
      <3>1. \E x \in 1..Len(disk) : x # i /\ e[n] = disk[x]
        <4>1. CASE n < i
          <5>1. n \in 1..Len(disk) /\ n # i /\ e[n] = disk[n]
            BY <2>1, <2>3, <2>4, <4>1
          <5> QED
            BY <5>1
        <4>2. CASE ~(n < i)
          <5>1. n + 1 \in 1..Len(disk) /\ n + 1 # i /\ e[n] = disk[n + 1]
            BY <2>1, <2>3, <2>4, <4>2
          <5> QED
            BY <5>1
        <4> QED
          BY <4>1, <4>2
      <3> QED
        BY <2>1, <2>5, <3>1
    <2>7. ASSUME NEW m \in DOMAIN e, NEW n \in DOMAIN e, e[m] = e[n] PROVE m = n
      <3> DEFINE s(x) == IF x < i THEN x ELSE x + 1
      <3>1. \A x \in DOMAIN e : e[x] = disk[s(x)] /\ s(x) \in 1..Len(disk)
        BY <2>1, <2>3, <2>4
      <3>2. s(m) = s(n)
        BY <2>5, <2>7, <3>1
      <3> QED
        BY <2>1, <2>4, <3>2
    <2> QED
      BY <2>1, <2>2, <2>3, <2>6, <2>7 DEF IsInjective, e
  <1> QED
    BY <1>1, <1>2

-----------------------------------------------------------------------------
(* Files put between others. *)

\* The files after the first i of them.
LEMMA Rest ==
  ASSUME NEW d \in Seq(Thumbs), NEW i \in 0..Len(d)
  PROVE  LET b == SubSeq(d, i + 1, Len(d))
         IN  b \in Seq(Thumbs) /\ Len(b) = Len(d) - i /\ \A n \in 1..Len(d) - i : b[n] = d[n + i]
  <1> DEFINE N == Len(d)
             b == SubSeq(d, i + 1, N)
  <1>1. N \in Nat /\ i \in Nat /\ i <= N
    OBVIOUS
  <1>2. Len(b) = N - i
    BY <1>1
  <1>3. \A n \in 1..N - i : b[n] = d[n + i]
    <2> SUFFICES ASSUME NEW n \in 1..N - i PROVE b[n] = d[n + i]
      OBVIOUS
    <2>1. n \in 1..N - (i + 1) + 1 /\ i + 1 + n - 1 = n + i
      BY <1>1
    <2> QED
      BY <1>1, <2>1
  <1>4. b \in Seq(Thumbs)
    BY <1>1
  <1> QED
    BY <1>2, <1>3, <1>4

\* A file put behind others is there once, as the others are
\* (generateThumbnail, loadOrGenerate).
LEMMA Appended ==
  ASSUME NEW d \in Seq(Thumbs), IsInjective(d), NEW f \in Thumbs, \A n \in DOMAIN d : d[n] # f
  PROVE  Append(d, f) \in Seq(Thumbs) /\ IsInjective(Append(d, f))
  BY DEF IsInjective

\* So is a file put between others (importCacheInternal).
LEMMA Inserted ==
  ASSUME NEW d \in Seq(Thumbs), IsInjective(d), NEW f \in Thumbs, \A n \in DOMAIN d : d[n] # f,
         NEW i \in 0..Len(d)
  PROVE  LET e == SubSeq(d, 1, i) \o <<f>> \o SubSeq(d, i + 1, Len(d))
         IN  e \in Seq(Thumbs) /\ IsInjective(e)
  <1> DEFINE N == Len(d)
             a == SubSeq(d, 1, i)
             b == SubSeq(d, i + 1, N)
  <1>1. N \in Nat /\ i \in Nat /\ i <= N /\ DOMAIN d = 1..N
    OBVIOUS
  <1>2. a \in Seq(Thumbs) /\ Len(a) = i /\ \A n \in 1..i : a[n] = d[n]
    BY <1>1
  <1>3. b \in Seq(Thumbs) /\ Len(b) = N - i /\ \A n \in 1..N - i : b[n] = d[n + i]
    BY Rest
  <1> HIDE DEF a, b
  <1> DEFINE g == a \o <<f>>
  <1>4. g \in Seq(Thumbs) /\ Len(g) = i + 1 /\ g[i + 1] = f /\ \A n \in 1..i : g[n] = d[n]
    BY <1>1, <1>2
  <1> HIDE DEF g
  <1> DEFINE e == g \o b
  <1>5. e \in Seq(Thumbs) /\ Len(e) = N + 1
    <2>1. e \in Seq(Thumbs) /\ Len(e) = Len(g) + Len(b)
      BY <1>3, <1>4
    <2> HIDE DEF e
    <2> QED
      BY <1>1, <1>3, <1>4, <2>1
  <1>6. ASSUME NEW n \in 1..N + 1
        PROVE  e[n] = IF n <= i THEN d[n] ELSE IF n = i + 1 THEN f ELSE d[n - 1]
    <2>1. CASE n <= i + 1
      <3>1. e[n] = g[n]
        BY <1>1, <1>3, <1>4, <2>1
      <3> QED
        BY <1>1, <1>4, <2>1, <3>1
    <2>2. CASE ~(n <= i + 1)
      <3>1. e[n] = b[n - (i + 1)]
        BY <1>1, <1>3, <1>4, <2>2
      <3>2. n - (i + 1) \in 1..N - i /\ n - (i + 1) + i = n - 1
        BY <1>1, <2>2
      <3> QED
        BY <1>1, <1>3, <2>2, <3>1, <3>2
    <2> QED
      BY <2>1, <2>2
  <1>7. e = SubSeq(d, 1, i) \o <<f>> \o SubSeq(d, i + 1, Len(d))
    BY DEF e, g, a, b
  <1> HIDE DEF e
  <1>8. ASSUME NEW m \in DOMAIN e, NEW n \in DOMAIN e, e[m] = e[n] PROVE m = n
    <2>1. m \in 1..N + 1 /\ n \in 1..N + 1
      BY <1>5
    <2>2. \A x, y \in 1..N : d[x] = d[y] => x = y
      BY <1>1 DEF IsInjective
    <2>3. \A x \in 1..N : d[x] # f
      BY <1>1
    <2>4. CASE m = i + 1 \/ n = i + 1
      BY <1>1, <1>6, <1>8, <2>1, <2>3, <2>4
    <2>5. CASE m # i + 1 /\ n # i + 1
      <3> DEFINE s(x) == IF x <= i THEN x ELSE x - 1
      <3>1. e[m] = d[s(m)] /\ e[n] = d[s(n)] /\ s(m) \in 1..N /\ s(n) \in 1..N
        BY <1>1, <1>6, <2>1, <2>5
      <3>2. s(m) = s(n)
        BY <1>8, <2>2, <3>1
      <3> QED
        BY <1>1, <2>1, <2>5, <3>2
    <2> QED
      BY <2>4, <2>5
  <1>9. IsInjective(e)
    BY <1>8 DEF IsInjective
  <1> QED
    BY Zenon, <1>5, <1>7, <1>9

-----------------------------------------------------------------------------
(* Every variable has its type. *)

\* What a trim has found and what it has done so far: every file there is was
\* sorted, and was tried without success or is yet to be tried; and the order of
\* use is that of the sort, but for the files used since.
Sorted(d, w) ==
  /\ IsInjective(w.files)
  /\ \A i \in DOMAIN d : \E k \in DOMAIN w.files :
       w.files[k] = d[i] /\ (k < w.next => d[i] \in w.failed)
  /\ \A k \in DOMAIN w.files : k >= w.next => \E i \in DOMAIN d : d[i] = w.files[k]
  /\ \A i, j \in DOMAIN d : i < j /\ d[j] \notin w.used =>
       \E k, l \in DOMAIN w.files : k < l /\ w.files[k] = d[i] /\ w.files[l] = d[j]

\* While a trim holds the disk lock nobody else changes the directory, so that
\* it counts right.
SweepInv ==
  /\ Sweeping => writer = "out" /\ maint.stats = Statistics(disk)
  /\ IF At("sweep") THEN Sorted(disk, sweep) ELSE sweep.next = 1 /\ ~sweep.removed

DiskTyped == disk \in Seq(Thumbs) /\ IsInjective(disk)
StatsTyped ==
  /\ limit \in Limits /\ persisted \in StatisticsOrNone /\ cached \in StatisticsOrNone
  /\ mutations \in Nat /\ published \in Nat \cup {-1}
  /\ pending \subseteq Callbacks /\ heard \subseteq Callbacks
QueueTyped ==
  /\ requests \in Nat /\ handled \in Nat
  /\ scheduled \in [trim : BOOLEAN, refresh : BOOLEAN]
  /\ jobs \in [trim : Nat, refresh : Nat, clear : Nat]
MainState ==
  [pc : {"idle", "compare", "await", "refresh", "trim"},
   callback : Callbacks \cup {None}, snapshot : StatisticsOrNone]
MaintState ==
  [pc : {"boot", "idle", "trim", "sort", "sweep", "import", "look", "measure", "publish", "store", "call",
         "compare", "calculate", "trimDone", "trimAgain", "refreshDone",
         "refreshOver", "refreshAgain", "returned"},
   then : {"idle", "trimDone", "refreshDone"},
   gen : Nat, stats : StatisticsOrNone]
SweepState ==
  [files : Seq(Thumbs), next : Nat \ {0}, target : Nat, removed : BOOLEAN,
   failed : SUBSET Thumbs, used : SUBSET Thumbs]
Bounds == [changes : Nat, failures : Nat, crashes : Nat]
ThreadsTyped ==
  /\ writer \in {"out", "changed", "deleted", "requested"}
  /\ main \in MainState /\ maint \in MaintState /\ sweep \in SweepState
  /\ spent \in Bounds

\* These are the parts of the type invariant.
LEMMA TypeParts == TypeOK <=> DiskTyped /\ StatsTyped /\ QueueTyped /\ ThreadsTyped
  BY DEF TypeOK, DiskTyped, StatsTyped, QueueTyped, ThreadsTyped, MainState, MaintState,
         SweepState, Bounds

\* No trim is under way.
LEMMA NoSweepTyped == NoSweep \in SweepState
  <1>1. <<>> \in Seq(Thumbs)
    OBVIOUS
  <1> QED
    BY <1>1 DEF NoSweep, SweepState

\* Init is well typed.
LEMMA TypeInit == Init => TypeOK
  <1> SUFFICES ASSUME Init PROVE TypeOK
    OBVIOUS
  <1>1. PICK S \in SUBSET Thumbs : IsFiniteSet(S) /\ disk \in SetToSeqs(S)
    BY DEF Init
  <1> DEFINE N == Cardinality(S)
  <1>2. N \in Nat
    BY <1>1, FS_CardinalityType
  <1> HIDE DEF N
  <1>3. disk \in [1..N -> S] /\ \A i, j \in 1..N : i # j => disk[i] # disk[j]
    BY Zenon, <1>1 DEF SetToSeqs, N
  <1>4. disk \in Seq(Thumbs)
    BY <1>2, <1>3
  <1>5. DiskTyped
    BY <1>3, <1>4 DEF DiskTyped, IsInjective
  <1>6. Statistics(disk) \in [count : Nat, bytes : Nat]
    BY <1>4, BytesTyped
  <1>7. StatsTyped
    BY <1>6 DEF Init, StatsTyped, StatisticsOrNone
  <1>8. QueueTyped
    BY DEF Init, QueueTyped
  <1>9. ThreadsTyped
    BY NoSweepTyped DEF Init, ThreadsTyped, IdleMain, IdleMaint, BootMaint, MainState, MaintState,
                        StatisticsOrNone, Bounds
  <1> QED
    BY <1>5, <1>7, <1>8, <1>9, TypeParts

\* The bound counts the changes (Change).
LEMMA ChangeTyped == ThreadsTyped /\ Change => spent' \in Bounds
  BY DEF Change, ThreadsTyped, Bounds

\* A thread that goes elsewhere, and the maintenance thread after a publication.
LEMMA MaintMoves ==
  ASSUME ThreadsTyped
  PROVE  /\ After \in MaintState /\ IdleMaint \in MaintState /\ BootMaint \in MaintState
         /\ \A l \in {"idle", "trim", "sweep", "import", "look", "measure", "store", "call", "compare",
                      "trimAgain", "refreshOver", "refreshAgain", "returned"} :
              [maint EXCEPT !.pc = l] \in MaintState
  <1>1. maint \in MaintState
    BY DEF ThreadsTyped
  <1>2. IdleMaint \in MaintState /\ IdleMaint.pc = "idle"
    BY DEF IdleMaint, MaintState, StatisticsOrNone
  <1>3. BootMaint \in MaintState
    BY <1>2 DEF BootMaint, MaintState
  <1>4. After \in MaintState
    <2>1. CASE maint.then = "idle"
      BY <1>2, <2>1 DEF After
    <2>2. CASE maint.then # "idle"
      BY <1>1, <2>2 DEF After, MaintState
    <2> QED
      BY <2>1, <2>2
  <1>5. \A l \in {"idle", "trim", "sweep", "import", "look", "measure", "store", "call", "compare",
                 "trimAgain", "refreshOver", "refreshAgain", "returned"} :
          [maint EXCEPT !.pc = l] \in MaintState
    BY <1>1 DEF MaintState
  <1> QED
    BY <1>2, <1>3, <1>4, <1>5

\* The queue keeps its type (EnqueueTrim, EnqueueRefresh).
LEMMA QueueMoves ==
  ASSUME QueueTyped, EnqueueTrim \/ EnqueueRefresh
  PROVE  /\ scheduled' \in [trim : BOOLEAN, refresh : BOOLEAN]
         /\ jobs' \in [trim : Nat, refresh : Nat, clear : Nat]
  <1>1. /\ scheduled' \in {scheduled, [scheduled EXCEPT !.trim = TRUE], [scheduled EXCEPT !.refresh = TRUE]}
        /\ jobs' \in {jobs, [jobs EXCEPT !.trim = @ + 1], [jobs EXCEPT !.refresh = @ + 1]}
    BY DEF EnqueueTrim, EnqueueRefresh, queueVars
  <1>2. scheduled' \in [trim : BOOLEAN, refresh : BOOLEAN]
    BY <1>1 DEF QueueTyped
  <1>3. jobs' \in [trim : Nat, refresh : Nat, clear : Nat]
    BY <1>1 DEF QueueTyped
  <1> QED
    BY <1>2, <1>3

\* The workers.
LEMMA TypeWorkers ==
  ASSUME TypeOK,
         \/ \E f \in Thumbs : WriteThumbnail(f) \/ DeleteThumbnail(f) \/ Touch(f)
         \/ WorkerStep
  PROVE  TypeOK'
  <1>0. DiskTyped /\ StatsTyped /\ QueueTyped /\ ThreadsTyped
    BY TypeParts
  <1>1. ASSUME NEW f \in Thumbs, WriteThumbnail(f) PROVE TypeOK'
    <2>1. \A n \in DOMAIN disk : disk[n] # f
      BY <1>0, <1>1 DEF WriteThumbnail, Contains, DiskTyped
    <2>2. DiskTyped'
      BY <1>0, <1>1, <2>1, Appended DEF WriteThumbnail, DiskTyped
    <2>3. StatsTyped' /\ QueueTyped' /\ ThreadsTyped'
      BY <1>0, <1>1, ChangeTyped
      DEF WriteThumbnail, StatsTyped, QueueTyped, ThreadsTyped, statVars, trimVars, queueVars
    <2> QED
      BY <2>2, <2>3, TypeParts, PTL
  <1>2. ASSUME NEW f \in Thumbs, DeleteThumbnail(f) PROVE TypeOK'
    <2>1. DiskTyped'
      BY <1>0, <1>2, OthersTyped DEF DeleteThumbnail, DiskTyped
    <2>2. StatsTyped' /\ QueueTyped' /\ ThreadsTyped'
      BY <1>0, <1>2, ChangeTyped
      DEF DeleteThumbnail, StatsTyped, QueueTyped, ThreadsTyped, statVars, trimVars, queueVars
    <2> QED
      BY <2>1, <2>2, TypeParts, PTL
  <1>3. ASSUME NEW f \in Thumbs, Touch(f) PROVE TypeOK'
    <2>1. /\ Others(f) \in Seq(Thumbs) /\ IsInjective(Others(f))
          /\ \A n \in DOMAIN Others(f) : Others(f)[n] # f
      BY <1>0, OthersTyped DEF DiskTyped
    <2>2. Append(Others(f), f) \in Seq(Thumbs) /\ IsInjective(Append(Others(f), f))
      BY Zenon, <2>1, Appended
    <2>3. DiskTyped'
      BY <1>3, <2>2 DEF Touch, DiskTyped
    <2>4. sweep' \in SweepState
      BY <1>0, <1>3 DEF Touch, ThreadsTyped, SweepState
    <2>5. StatsTyped' /\ QueueTyped' /\ ThreadsTyped'
      BY <1>0, <1>3, <2>4, ChangeTyped
      DEF Touch, StatsTyped, QueueTyped, ThreadsTyped, statVars, trimVars, queueVars
    <2> QED
      BY <2>3, <2>5, TypeParts, PTL
  <1>4. CASE CountWrite \/ CountDelete
    <2>1. DiskTyped' /\ StatsTyped' /\ QueueTyped' /\ ThreadsTyped'
      BY <1>0, <1>4 DEF CountWrite, CountDelete, DiskTyped, StatsTyped, QueueTyped, ThreadsTyped,
                        storedVars, statVars, trimVars, queueVars
    <2> QED
      BY <2>1, TypeParts, PTL
  <1>5. CASE RequestTrimAfterWrite
    <2>1. DiskTyped' /\ StatsTyped' /\ QueueTyped' /\ ThreadsTyped'
      BY <1>0, <1>5, QueueMoves
      DEF RequestTrimAfterWrite, DiskTyped, StatsTyped, QueueTyped, ThreadsTyped, storedVars,
          statVars, trimVars
    <2> QED
      BY <2>1, TypeParts, PTL
  <1> QED
    BY <1>1, <1>2, <1>3, <1>4, <1>5 DEF WorkerStep

\* Whoever asks for statistics has a callback for them (getCacheStatistics): without
\* it the types alone would not follow from themselves.
Asker == main.pc \in {"compare", "await"} => main.callback \in Callbacks

\* The main thread.
LEMMA TypeMain ==
  ASSUME TypeOK, Asker,
         \/ \E l \in Limits : ChangeLimit(l)
         \/ \E c \in Callbacks : AskStatistics(c)
         \/ RequestClear \/ MainStep
  PROVE  TypeOK'
  <1>0. DiskTyped /\ StatsTyped /\ QueueTyped /\ ThreadsTyped
    BY TypeParts
  <1>m. \A l \in {"idle", "compare", "await", "refresh", "trim"} : [main EXCEPT !.pc = l] \in MainState
    BY <1>0 DEF ThreadsTyped, MainState
  <1>n. IdleMain \in MainState
    BY DEF IdleMain, MainState, StatisticsOrNone
  <1> USE DEF storedVars, statVars, trimVars, queueVars
  <1>1. ASSUME NEW l \in Limits, ChangeLimit(l) PROVE TypeOK'
    <2>1. ThreadsTyped'
      BY <1>0, <1>1, <1>m, ChangeTyped DEF ChangeLimit, ThreadsTyped
    <2>2. DiskTyped' /\ StatsTyped' /\ QueueTyped'
      BY <1>0, <1>1 DEF ChangeLimit, DiskTyped, StatsTyped, QueueTyped
    <2> QED
      BY <2>1, <2>2, TypeParts, PTL
  <1>2. ASSUME NEW c \in Callbacks, AskStatistics(c) PROVE TypeOK'
    <2>1. ThreadsTyped'
      BY <1>0, <1>2 DEF AskStatistics, ThreadsTyped, StatsTyped, MainState
    <2>2. DiskTyped' /\ StatsTyped' /\ QueueTyped'
      BY <1>0, <1>2 DEF AskStatistics, DiskTyped, StatsTyped, QueueTyped
    <2> QED
      BY <2>1, <2>2, TypeParts, PTL
  <1>3. CASE RequestClear
    <2>1. jobs' \in [trim : Nat, refresh : Nat, clear : Nat]
      BY <1>0, <1>3 DEF RequestClear, QueueTyped
    <2>2. DiskTyped' /\ StatsTyped' /\ QueueTyped' /\ ThreadsTyped'
      BY <1>0, <1>3, <2>1, ChangeTyped
      DEF RequestClear, DiskTyped, StatsTyped, QueueTyped, ThreadsTyped
    <2> QED
      BY <2>2, TypeParts, PTL
  <1>4. CASE RequestTrimAfterChange \/ RequestRefresh
    <2>1. main' = IdleMain /\ (EnqueueTrim \/ EnqueueRefresh)
          /\ UNCHANGED <<disk, limit, persisted, statVars, mutations, trimVars, writer, maint, sweep, spent>>
      BY <1>4 DEF RequestTrimAfterChange, RequestRefresh
    <2>2. DiskTyped' /\ StatsTyped' /\ QueueTyped' /\ ThreadsTyped'
      BY <1>0, <1>n, <2>1, QueueMoves DEF DiskTyped, StatsTyped, QueueTyped, ThreadsTyped
    <2> QED
      BY <2>2, TypeParts, PTL
  <1>5. CASE CompareGenerations
    <2>1. main.callback \in Callbacks
      BY <1>5 DEF CompareGenerations, Asker
    <2>2. DiskTyped' /\ QueueTyped'
      BY <1>0, <1>5 DEF CompareGenerations, DiskTyped, QueueTyped
    <2>3. StatsTyped'
      BY <1>0, <1>5, <2>1 DEF CompareGenerations, StatsTyped
    <2>4. ThreadsTyped'
      BY <1>0, <1>5, <1>m, <1>n DEF CompareGenerations, ThreadsTyped
    <2> QED
      BY <2>2, <2>3, <2>4, TypeParts, PTL
  <1>6. CASE AwaitStatistics
    <2>1. main.callback \in Callbacks
      BY <1>6 DEF AwaitStatistics, Asker
    <2>2. DiskTyped' /\ QueueTyped' /\ StatsTyped'
      BY <1>0, <1>6, <2>1 DEF AwaitStatistics, DiskTyped, QueueTyped, StatsTyped
    <2>4. ThreadsTyped'
      BY <1>0, <1>6, <1>m DEF AwaitStatistics, ThreadsTyped
    <2> QED
      BY <2>2, <2>4, TypeParts, PTL
  <1> QED
    BY <1>1, <1>2, <1>3, <1>4, <1>5, <1>6 DEF MainStep

\* The maintenance thread: its steps that change the directory.
LEMMA TypeDiskSteps ==
  ASSUME TypeOK, SweepInv,
         \/ BootInvalid \/ ListFiles \/ DeleteNext \/ Clear
         \/ \E f \in Thumbs, i \in 0..Len(disk) : ImportEntry(f, i)
  PROVE  TypeOK'
  <1>0. DiskTyped /\ StatsTyped /\ QueueTyped /\ ThreadsTyped
    BY TypeParts
  <1>1. <<>> \in Seq(Thumbs) /\ IsInjective(<<>>) /\ Statistics(<<>>) \in StatisticsOrNone
    <2>1. <<>> \in Seq(Thumbs) /\ IsInjective(<<>>)
      BY DEF IsInjective
    <2>2. Statistics(<<>>) \in [count : Nat, bytes : Nat]
      BY Zenon, <2>1, BytesTyped
    <2> QED
      BY <2>1, <2>2 DEF StatisticsOrNone
  <1> USE DEF storedVars, statVars, trimVars, queueVars, At, Goto, Run
  <1>2. CASE BootInvalid
    <2>1. ThreadsTyped'
      BY <1>0, <1>2, MaintMoves DEF BootInvalid, ThreadsTyped
    <2>2. DiskTyped' /\ StatsTyped' /\ QueueTyped'
      BY <1>0, <1>1, <1>2 DEF BootInvalid, DiskTyped, StatsTyped, QueueTyped, StatisticsOrNone
    <2> QED
      BY <2>1, <2>2, TypeParts, PTL
  <1>3. CASE ListFiles
    <2>1. Statistics(disk) \in StatisticsOrNone
      BY <1>0, BytesTyped DEF DiskTyped, StatisticsOrNone
    <2>2. DiskTyped' /\ StatsTyped' /\ QueueTyped'
      BY <1>0, <1>3 DEF ListFiles, DiskTyped, StatsTyped, QueueTyped
    <2>3. Target \in Nat
      BY <1>0, LimitsAssumption DEF StatsTyped, Target
    <2>4. sweep' \in SweepState
      BY <1>0, <1>3, <2>3, NoSweepTyped DEF ListFiles, ThreadsTyped, SweepState
    <2>5. maint' \in MaintState
      BY <1>0, <1>3, <2>1 DEF ListFiles, ThreadsTyped, MaintState, StatsTyped
    <2>6. ThreadsTyped'
      BY <1>0, <1>3, <2>4, <2>5 DEF ListFiles, ThreadsTyped
    <2> QED
      BY <2>2, <2>6, TypeParts, PTL
  <1>6. CASE DeleteNext
    <2> DEFINE f == sweep.files[sweep.next]
               left == [count |-> Minus(maint.stats.count, 1), bytes |-> Minus(maint.stats.bytes, Size[f])]
    <2>1. f \in Thumbs
      BY <1>0, <1>6 DEF DeleteNext, EnoughRemoved, ThreadsTyped, SweepState
    <2>2. /\ disk' = Others(f) /\ maint' = [maint EXCEPT !.stats = left]
          /\ sweep' = [sweep EXCEPT !.next = @ + 1, !.removed = TRUE]
      BY <1>6 DEF DeleteNext
    <2>3. maint.stats \in [count : Nat, bytes : Nat]
      <3>1. maint.stats = Statistics(disk)
        BY <1>6 DEF DeleteNext, SweepInv, Sweeping
      <3> QED
        BY <1>0, <3>1, BytesTyped DEF DiskTyped
    <2>4. left \in [count : Nat, bytes : Nat]
      BY <2>1, <2>3, SizeAssumption DEF Minus
    <2> HIDE DEF f, left
    <2>5. DiskTyped'
      BY <1>0, <2>1, <2>2, OthersTyped DEF DiskTyped
    <2>6. maint' \in MaintState
      BY <1>0, <2>2, <2>4 DEF ThreadsTyped, MaintState, StatisticsOrNone
    <2>7. sweep' \in SweepState
      <3>1. sweep \in SweepState
        BY <1>0 DEF ThreadsTyped
      <3>2. sweep.next + 1 \in Nat \ {0}
        BY <3>1 DEF SweepState
      <3>3. [sweep EXCEPT !.next = sweep.next + 1] \in SweepState
        BY <3>1, <3>2 DEF SweepState
      <3>4. sweep' = [[sweep EXCEPT !.next = sweep.next + 1] EXCEPT !.removed = TRUE]
        BY <2>2, <3>1 DEF SweepState
      <3> QED
        BY <3>3, <3>4 DEF SweepState
    <2>8. StatsTyped' /\ QueueTyped' /\ ThreadsTyped'
      BY <1>0, <1>6, <2>6, <2>7 DEF DeleteNext, StatsTyped, QueueTyped, ThreadsTyped
    <2> QED
      BY <2>5, <2>8, TypeParts, PTL
  <1>4. CASE Clear
    <2>1. jobs' \in [trim : Nat, refresh : Nat, clear : Nat]
      BY <1>0, <1>4 DEF Clear, QueueTyped
    <2>2. DiskTyped' /\ StatsTyped' /\ QueueTyped'
      BY <1>0, <1>1, <1>4, <2>1 DEF Clear, DiskTyped, StatsTyped, QueueTyped
    <2>3. ThreadsTyped'
      BY <1>0, <1>1, <1>4, <2>2 DEF Clear, ThreadsTyped, MaintState, StatsTyped
    <2> QED
      BY <2>2, <2>3, TypeParts, PTL
  <1>5. ASSUME NEW f \in Thumbs, NEW i \in 0..Len(disk), ImportEntry(f, i) PROVE TypeOK'
    <2> DEFINE o == Others(f)
               e == SubSeq(o, 1, i) \o <<f>> \o SubSeq(o, i + 1, Len(o))
    <2>1. o \in Seq(Thumbs) /\ IsInjective(o) /\ (\A n \in DOMAIN o : o[n] # f)
      BY <1>0, OthersTyped DEF DiskTyped
    <2>2. i \in 0..Len(o) /\ disk' = e
      BY <1>5 DEF ImportEntry
    <2> HIDE DEF o
    <2>3. e \in Seq(Thumbs) /\ IsInjective(e)
      BY Zenon, <2>1, <2>2, Inserted
    <2> HIDE DEF e
    <2>4. DiskTyped'
      BY <2>2, <2>3 DEF DiskTyped
    <2>5. StatsTyped' /\ QueueTyped' /\ ThreadsTyped'
      BY <1>0, <1>5, ChangeTyped DEF ImportEntry, StatsTyped, QueueTyped, ThreadsTyped
    <2> QED
      BY <2>4, <2>5, TypeParts, PTL
  <1> QED
    BY <1>2, <1>3, <1>4, <1>5, <1>6

\* The steps of a trim that leave the directory alone.
LEMMA TypeSweep ==
  ASSUME TypeOK, SortFiles \/ FailToDelete \/ EndSweep
  PROVE  TypeOK'
  <1>0. DiskTyped /\ StatsTyped /\ QueueTyped /\ ThreadsTyped
    BY TypeParts
  <1>1. maint \in MaintState /\ sweep \in SweepState /\ disk \in Seq(Thumbs) /\ mutations \in Nat
    BY <1>0 DEF ThreadsTyped, DiskTyped, StatsTyped
  <1>2. DiskTyped' /\ StatsTyped' /\ QueueTyped'
    BY <1>0 DEF SortFiles, FailToDelete, EndSweep, DiskTyped, StatsTyped, QueueTyped, storedVars,
                statVars, trimVars, queueVars
  <1>3. sweep' \in SweepState
    <2>1. CASE SortFiles
      BY <1>1, <2>1 DEF SortFiles, SweepState
    <2>2. CASE FailToDelete
      <3>1. sweep.files[sweep.next] \in Thumbs
        BY <1>1, <2>2 DEF FailToDelete, EnoughRemoved, SweepState
      <3>2. sweep.next + 1 \in Nat \ {0}
        BY <1>1 DEF SweepState
      <3>3. [sweep EXCEPT !.next = sweep.next + 1] \in SweepState
        BY <1>1, <3>2 DEF SweepState
      <3>4. sweep.failed \cup {sweep.files[sweep.next]} \in SUBSET Thumbs
        BY <1>1, <3>1 DEF SweepState
      <3>5. sweep' = [[sweep EXCEPT !.next = sweep.next + 1]
                       EXCEPT !.failed = sweep.failed \cup {sweep.files[sweep.next]}]
        BY <1>1, <2>2 DEF FailToDelete, SweepState
      <3> QED
        BY <3>3, <3>4, <3>5 DEF SweepState
    <2>3. CASE EndSweep
      BY <2>3, NoSweepTyped DEF EndSweep
    <2> QED
      BY <2>1, <2>2, <2>3
  <1>4. maint' \in MaintState
    <2>1. CASE SortFiles
      BY <1>0, <2>1, MaintMoves DEF SortFiles, Goto
    <2>2. CASE FailToDelete
      BY <1>1, <2>2 DEF FailToDelete
    <2>3. CASE EndSweep
      <3>1. mutations' \in Nat
        BY <1>1, <2>3 DEF EndSweep
      <3> QED
        BY <1>1, <2>3, <3>1 DEF EndSweep, MaintState
    <2> QED
      BY <2>1, <2>2, <2>3
  <1>5. writer' = writer /\ main' = main /\ spent' \in Bounds
    BY <1>0 DEF SortFiles, FailToDelete, EndSweep, ThreadsTyped, Bounds
  <1>6. ThreadsTyped'
    BY <1>0, <1>3, <1>4, <1>5 DEF ThreadsTyped
  <1> QED
    BY <1>2, <1>6, TypeParts, PTL

\* Its other steps.
LEMMA TypeMaintenance ==
  ASSUME TypeOK,
         \/ StartImport \/ EndImport \/ Boot \/ StartTrim \/ StartRefresh \/ LookForCallbacks
         \/ CompareBeforeRefresh \/ Return \/ Measure \/ Calculate \/ Publish \/ Store
         \/ CallBack \/ TrimDone \/ TrimAgain \/ RefreshDone \/ RefreshOver \/ RefreshAgain
  PROVE  TypeOK'
  <1>0. DiskTyped /\ StatsTyped /\ QueueTyped /\ ThreadsTyped
    BY TypeParts
  <1>1. Statistics(disk) \in StatisticsOrNone
    BY <1>0, BytesTyped DEF DiskTyped, StatisticsOrNone
  <1>2. DiskTyped'
    BY <1>0 DEF StartImport, EndImport, Boot, StartTrim, StartRefresh, LookForCallbacks,
                CompareBeforeRefresh, Return, Measure, Calculate, Publish, Store, CallBack,
                TrimDone, TrimAgain, RefreshDone, RefreshOver, RefreshAgain, DiskTyped, storedVars
  <1>3. StatsTyped'
    <2>1. CASE Store
      BY <1>0, <2>1 DEF Store, StatsTyped, ThreadsTyped, MaintState
    <2>2. CASE CallBack
      BY <1>0, <2>2 DEF CallBack, StatsTyped, storedVars
    <2>3. CASE UNCHANGED <<storedVars, mutations, statVars>>
      BY <1>0, <2>3 DEF StatsTyped, storedVars, statVars
    <2> QED
      BY <2>1, <2>2, <2>3
      DEF StartImport, EndImport, Boot, StartTrim, StartRefresh, LookForCallbacks,
          CompareBeforeRefresh, Return, Measure, Calculate, Publish,
          TrimDone, TrimAgain, RefreshDone, RefreshOver, RefreshAgain
  <1>4. QueueTyped'
    <2>1. CASE StartTrim \/ StartRefresh
      <3>1. jobs.trim \in Nat /\ jobs.refresh \in Nat
        BY <1>0 DEF QueueTyped
      <3>2. \/ jobs' = [jobs EXCEPT !.trim = @ - 1] /\ jobs.trim - 1 \in Nat
            \/ jobs' = [jobs EXCEPT !.refresh = @ - 1] /\ jobs.refresh - 1 \in Nat
        BY <2>1, <3>1 DEF StartTrim, StartRefresh, Run
      <3>3. jobs' \in [trim : Nat, refresh : Nat, clear : Nat]
        BY <1>0, <3>2 DEF QueueTyped
      <3>4. UNCHANGED <<requests, scheduled>> /\ handled' \in {requests, handled}
        BY <2>1 DEF StartTrim, StartRefresh, trimVars
      <3> QED
        BY <1>0, <3>3, <3>4 DEF QueueTyped
    <2>2. CASE Return \/ TrimDone \/ RefreshOver
      BY <1>0, <2>2 DEF Return, TrimDone, RefreshOver, QueueTyped, trimVars
    <2>3. CASE TrimAgain \/ RefreshDone \/ RefreshAgain
      <3>1. EnqueueTrim \/ EnqueueRefresh \/ UNCHANGED queueVars
        BY <2>3 DEF TrimAgain, RefreshDone, RefreshAgain, EnqueueIfRequested, queueVars
      <3>2. requests' \in {requests, requests + 1} /\ handled' = handled
        BY <2>3 DEF TrimAgain, RefreshDone, RefreshAgain, trimVars
      <3> QED
        BY <1>0, <3>1, <3>2, QueueMoves DEF QueueTyped, queueVars
    <2>4. CASE UNCHANGED <<trimVars, queueVars>>
      BY <1>0, <2>4 DEF QueueTyped, trimVars, queueVars
    <2> QED
      BY <2>1, <2>2, <2>3, <2>4
      DEF StartImport, EndImport, Boot, LookForCallbacks, CompareBeforeRefresh, Measure,
          Calculate, Publish, Store, CallBack
  <1>5. ThreadsTyped'
    <2>1. UNCHANGED <<writer, main, sweep, spent>>
      BY DEF StartImport, EndImport, Boot, StartTrim, StartRefresh, LookForCallbacks,
             CompareBeforeRefresh, Return, Measure, Calculate, Publish, Store, CallBack,
             TrimDone, TrimAgain, RefreshDone, RefreshOver, RefreshAgain
    <2>2. maint \in MaintState
      BY <1>0 DEF ThreadsTyped
    <2>8. maint' \in MaintState
      <3>3. CASE StartTrim
        BY <2>2, <3>3 DEF StartTrim, MaintState
      <3>4. CASE Measure
        BY <1>0, <2>2, <3>4 DEF Measure, MaintState, StatsTyped
      <3>5. CASE Calculate
        BY <1>1, <2>2, <3>5 DEF Calculate, MaintState
      <3>6. CASE Return \/ Publish \/ CallBack \/ TrimAgain \/ RefreshAgain
        BY <1>0, <3>6, MaintMoves DEF Return, Publish, CallBack, TrimAgain, RefreshAgain
      <3>7. CASE \/ StartImport \/ EndImport \/ Boot \/ StartRefresh \/ LookForCallbacks
                 \/ CompareBeforeRefresh \/ Store \/ TrimDone \/ RefreshDone \/ RefreshOver
        BY <1>0, <3>7, MaintMoves
        DEF StartImport, EndImport, Boot, StartRefresh, LookForCallbacks, CompareBeforeRefresh,
            Store, TrimDone, RefreshDone, RefreshOver, Goto
      <3> QED
        BY <3>3, <3>4, <3>5, <3>6, <3>7
    <2> QED
      BY <1>0, <2>1, <2>8 DEF ThreadsTyped
  <1> QED
    BY <1>2, <1>3, <1>4, <1>5, TypeParts, PTL

\* A process that starts again.
LEMMA TypeCrash == TypeOK /\ Crash => TypeOK'
  <1> SUFFICES ASSUME TypeOK, Crash PROVE TypeOK'
    OBVIOUS
  <1>0. DiskTyped /\ StatsTyped /\ QueueTyped /\ ThreadsTyped
    BY TypeParts
  <1>1. spent' \in Bounds
    BY <1>0 DEF Crash, ThreadsTyped, Bounds
  <1>2. IdleMain \in MainState
    BY DEF IdleMain, MainState, StatisticsOrNone
  <1>3. DiskTyped' /\ StatsTyped' /\ QueueTyped' /\ ThreadsTyped'
    BY <1>0, <1>1, <1>2, MaintMoves, NoSweepTyped
    DEF Crash, DiskTyped, StatsTyped, QueueTyped, ThreadsTyped, storedVars
  <1> QED
    BY <1>3, TypeParts, PTL

\* The callback is there at first and while the main thread asks for it.
LEMMA AskerInit == Init => Asker
  BY DEF Init, IdleMain, Asker

\* It is never taken away.
LEMMA AskerNext == TypeOK /\ Asker /\ [Next]_vars => Asker'
  <1> SUFFICES ASSUME TypeOK, Asker, [Next]_vars PROVE Asker'
    OBVIOUS
  <1>0. main \in MainState
    BY DEF TypeOK, MainState
  <1>1. CASE UNCHANGED main
    BY <1>1 DEF Asker
  <1>2. ASSUME NEW c \in Callbacks, AskStatistics(c) PROVE Asker'
    BY <1>2 DEF AskStatistics, Asker
  <1>3. CASE CompareGenerations
    BY <1>0, <1>3 DEF CompareGenerations, Asker, MainState, IdleMain
  <1>4. CASE main'.pc \notin {"compare", "await"}
    BY <1>4 DEF Asker
  <1>5. CASE AwaitStatistics \/ \E l \in Limits : ChangeLimit(l)
    BY <1>0, <1>4, <1>5 DEF AwaitStatistics, ChangeLimit, MainState
  <1>6. CASE RequestTrimAfterChange \/ RequestRefresh \/ Crash
    BY <1>4, <1>6 DEF RequestTrimAfterChange, RequestRefresh, Crash, IdleMain
  <1>7. CASE WorkerStep \/ \E f \in Thumbs : WriteThumbnail(f) \/ DeleteThumbnail(f) \/ Touch(f)
    BY <1>1, <1>7 DEF WorkerStep, CountWrite, CountDelete, RequestTrimAfterWrite, WriteThumbnail,
                      DeleteThumbnail, Touch
  <1>8. CASE MaintenanceStep \/ RequestClear \/ StartImport
             \/ \E f \in Thumbs, i \in 0..Len(disk) : ImportEntry(f, i)
    BY <1>1, <1>8
    DEF MaintenanceStep, RequestClear, StartImport, ImportEntry, BootInvalid, Boot, StartTrim,
        ListFiles, SortFiles, DeleteNext, FailToDelete, EndSweep, Clear, EndImport, StartRefresh,
        LookForCallbacks, CompareBeforeRefresh, Return, Measure, Calculate, Publish, Store,
        CallBack, TrimDone, TrimAgain, RefreshDone, RefreshOver, RefreshAgain
  <1>9. CASE UNCHANGED vars
    BY <1>1, <1>9 DEF vars
  <1> QED
    BY <1>2, <1>3, <1>5, <1>6, <1>7, <1>8, <1>9 DEF Next, MainStep

\* The types with the callback are inductive.
LEMMA TypeNext == TypeOK /\ Asker /\ SweepInv /\ [Next]_vars => TypeOK'
  <1> SUFFICES ASSUME TypeOK, Asker, SweepInv, [Next]_vars PROVE TypeOK'
    OBVIOUS
  <1>1. CASE UNCHANGED vars
    BY <1>1 DEF vars, storedVars, statVars, trimVars, queueVars, TypeOK
  <1> QED
    BY <1>1, TypeWorkers, TypeMain, TypeDiskSteps, TypeSweep, TypeMaintenance, TypeCrash
    DEF Next, MaintenanceStep

-----------------------------------------------------------------------------
(* A trim under way. *)

\* What is sorted is all there is, in the order of use (trimDiskCache).
LEMMA SortedFirst ==
  ASSUME disk \in Seq(Thumbs), IsInjective(disk), NEW w, w.files = disk, w.next = 1
  PROVE  Sorted(disk, w)
  BY DEF Sorted

\* A file that is used moves to the end, and is known to have been used
\* (loadOrGenerate).
LEMMA SortedUsed ==
  ASSUME disk \in Seq(Thumbs), NEW i \in 1..Len(disk), NEW w, NEW v, Sorted(disk, w),
         v.files = w.files, v.next = w.next, v.failed = w.failed,
         v.used = w.used \cup {disk[i]}
  PROVE  Sorted(Append(RemoveAt(disk, i), disk[i]), v)
  <1> DEFINE r == RemoveAt(disk, i)
             e == Append(r, disk[i])
             M == Len(r)
  <1>1. r \in Seq(Thumbs)
    BY RemovedAt
  <1>2. /\ \A n \in DOMAIN r : \E k \in DOMAIN disk : k # i /\ disk[k] = r[n]
        /\ \A k \in DOMAIN disk : k # i => \E n \in DOMAIN r : r[n] = disk[k]
        /\ \A m, n \in DOMAIN r : m < n =>
             \E k, l \in DOMAIN disk : k < l /\ disk[k] = r[m] /\ disk[l] = r[n]
    BY OrderKept
  <1> HIDE DEF r
  <1>3. /\ M \in Nat /\ DOMAIN r = 1..M /\ DOMAIN e = 1..M + 1
        /\ e[M + 1] = disk[i] /\ \A n \in 1..M : e[n] = r[n]
    BY <1>1
  <1> HIDE DEF e, M
  <1>4. \A n \in DOMAIN e : \E k \in DOMAIN disk : disk[k] = e[n]
    <2> SUFFICES ASSUME NEW n \in DOMAIN e PROVE \E k \in DOMAIN disk : disk[k] = e[n]
      OBVIOUS
    <2>1. CASE n = M + 1
      BY <1>3, <2>1
    <2>2. CASE n # M + 1
      <3>1. n \in DOMAIN r /\ e[n] = r[n]
        BY <1>3, <2>2
      <3> QED
        BY <1>2, <3>1
    <2> QED
      BY <2>1, <2>2
  <1>5. \A k \in DOMAIN disk : \E n \in DOMAIN e : e[n] = disk[k]
    <2> SUFFICES ASSUME NEW k \in DOMAIN disk PROVE \E n \in DOMAIN e : e[n] = disk[k]
      OBVIOUS
    <2>1. CASE k = i
      BY <1>3, <2>1
    <2>2. CASE k # i
      <3>1. PICK n \in DOMAIN r : r[n] = disk[k]
        BY <1>2, <2>2
      <3> QED
        BY <1>3, <3>1
    <2> QED
      BY <2>1, <2>2
  <1>6. ASSUME NEW m \in DOMAIN e, NEW n \in DOMAIN e, m < n, e[n] \notin v.used
        PROVE  \E k, l \in DOMAIN v.files : k < l /\ v.files[k] = e[m] /\ v.files[l] = e[n]
    <2>1. n # M + 1
      BY <1>3, <1>6
    <2>2. m \in DOMAIN r /\ n \in DOMAIN r /\ e[m] = r[m] /\ e[n] = r[n] /\ e[n] \notin w.used
      BY <1>3, <1>6, <2>1
    <2>3. PICK k, l \in DOMAIN disk : k < l /\ disk[k] = e[m] /\ disk[l] = e[n]
      BY <1>2, <1>6, <2>2
    <2> QED
      BY <2>2, <2>3 DEF Sorted
  <1>7. \A n \in DOMAIN e : \E k \in DOMAIN v.files :
          v.files[k] = e[n] /\ (k < v.next => e[n] \in v.failed)
    BY <1>4 DEF Sorted
  <1>8. \A k \in DOMAIN v.files : k >= v.next => \E n \in DOMAIN e : e[n] = v.files[k]
    BY <1>5 DEF Sorted
  <1> QED
    BY <1>6, <1>7, <1>8 DEF Sorted, e, r

\* A file that is removed was the next one to try (trimDiskCache).
LEMMA SortedRemoved ==
  ASSUME disk \in Seq(Thumbs), IsInjective(disk), NEW i \in 1..Len(disk),
         NEW w \in SweepState, NEW v, Sorted(disk, w), w.next \in DOMAIN w.files,
         disk[i] = w.files[w.next],
         v.files = w.files, v.next = w.next + 1, v.failed = w.failed, v.used = w.used
  PROVE  Sorted(RemoveAt(disk, i), v)
  <1> DEFINE r == RemoveAt(disk, i)
             D == DOMAIN w.files
  <1>1. /\ \A n \in DOMAIN r : \E k \in DOMAIN disk : k # i /\ disk[k] = r[n]
        /\ \A k \in DOMAIN disk : k # i => \E n \in DOMAIN r : r[n] = disk[k]
        /\ \A m, n \in DOMAIN r : m < n =>
             \E k, l \in DOMAIN disk : k < l /\ disk[k] = r[m] /\ disk[l] = r[n]
    BY OrderKept
  <1>2. w.next \in Nat /\ \A k \in D : k \in Nat
    BY DEF SweepState
  <1>3. \A k, l \in DOMAIN disk : disk[k] = disk[l] => k = l
    BY DEF IsInjective
  <1>4. i \in DOMAIN disk
    OBVIOUS
  <1>5. \A k, l \in D : w.files[k] = w.files[l] => k = l
    BY DEF Sorted, IsInjective
  <1> HIDE DEF r, D
  <1>6. ASSUME NEW n \in DOMAIN r
        PROVE  \E k \in D : w.files[k] = r[n] /\ (k < w.next + 1 => r[n] \in w.failed)
    <2>1. PICK m \in DOMAIN disk : m # i /\ disk[m] = r[n]
      BY <1>1
    <2>2. PICK k \in D : w.files[k] = disk[m] /\ (k < w.next => disk[m] \in w.failed)
      BY DEF Sorted, D
    <2>3. k # w.next
      BY <1>3, <1>4, <2>1, <2>2
    <2>4. k < w.next + 1 => k < w.next
      BY <1>2, <2>3
    <2> QED
      BY <2>1, <2>2, <2>4
  <1>7. ASSUME NEW k \in D, k >= w.next + 1 PROVE \E n \in DOMAIN r : r[n] = w.files[k]
    <2>1. k >= w.next /\ k # w.next
      BY <1>2, <1>7
    <2>2. PICK m \in DOMAIN disk : disk[m] = w.files[k]
      BY <2>1 DEF Sorted, D
    <2>3. m # i
      BY <1>5, <2>1, <2>2 DEF D
    <2> QED
      BY <1>1, <2>2, <2>3
  <1>8. ASSUME NEW m \in DOMAIN r, NEW n \in DOMAIN r, m < n, r[n] \notin w.used
        PROVE  \E k, l \in D : k < l /\ w.files[k] = r[m] /\ w.files[l] = r[n]
    <2>1. PICK k, l \in DOMAIN disk : k < l /\ disk[k] = r[m] /\ disk[l] = r[n]
      BY <1>1, <1>8
    <2> QED
      BY <1>8, <2>1 DEF Sorted, D
  <1> QED
    BY <1>6, <1>7, <1>8 DEF Sorted, r, D

\* One that could not be removed is known for it (trimDiskCache).
LEMMA SortedFailed ==
  ASSUME disk \in Seq(Thumbs), NEW w \in SweepState, NEW v, Sorted(disk, w),
         w.next \in DOMAIN w.files,
         v.files = w.files, v.next = w.next + 1, v.failed = w.failed \cup {w.files[w.next]},
         v.used = w.used
  PROVE  Sorted(disk, v)
  <1> DEFINE D == DOMAIN w.files
  <1>1. w.next \in Nat /\ \A k \in D : k \in Nat
    BY DEF SweepState
  <1>2. ASSUME NEW n \in DOMAIN disk
        PROVE  \E k \in D : v.files[k] = disk[n] /\ (k < v.next => disk[n] \in v.failed)
    <2>1. PICK k \in D : w.files[k] = disk[n] /\ (k < w.next => disk[n] \in w.failed)
      BY DEF Sorted
    <2>2. k < w.next + 1 => k < w.next \/ k = w.next
      BY <1>1, <2>1
    <2> QED
      BY <2>1, <2>2
  <1>3. ASSUME NEW k \in D, k >= v.next PROVE \E n \in DOMAIN disk : disk[n] = v.files[k]
    <2>1. k >= w.next
      BY <1>1, <1>3
    <2> QED
      BY <2>1 DEF Sorted
  <1> QED
    BY <1>2, <1>3 DEF Sorted

\* The file a trim removes is there, and is counted no more.
LEMMA Removes ==
  ASSUME TypeOK, SweepInv, DeleteNext
  PROVE  /\ Sorted(disk, sweep) /\ maint.stats = Statistics(disk)
         /\ sweep.next \in DOMAIN sweep.files /\ maint.stats.bytes > sweep.target
         /\ maint' = [maint EXCEPT !.stats = Statistics(disk')]
         /\ \E i \in 1..Len(disk) : disk[i] = sweep.files[sweep.next] /\ disk' = RemoveAt(disk, i)
  <1>0. disk \in Seq(Thumbs) /\ IsInjective(disk) /\ sweep \in SweepState /\ maint \in MaintState
    BY DEF TypeOK, SweepState, MaintState
  <1>1. Sorted(disk, sweep) /\ maint.stats = Statistics(disk)
    BY DEF DeleteNext, SweepInv, Sweeping, At
  <1>2. sweep.next \in Nat /\ sweep.next >= 1 /\ sweep.target \in Nat /\ sweep.files \in Seq(Thumbs)
    BY <1>0 DEF SweepState
  <1>3. Statistics(disk) = [count |-> Len(disk), bytes |-> Bytes(disk)] /\ Bytes(disk) \in Nat
    BY <1>0, BytesTyped DEF Statistics
  <1>4. sweep.next \in DOMAIN sweep.files /\ maint.stats.bytes > sweep.target
    BY <1>1, <1>2, <1>3 DEF DeleteNext, EnoughRemoved
  <1> DEFINE f == sweep.files[sweep.next]
  <1>5. f \in Thumbs
    BY <1>2, <1>4
  <1>6. PICK n \in DOMAIN disk : disk[n] = f
    BY <1>1, <1>2, <1>4 DEF Sorted
  <1>7. Contains(disk, f)
    BY <1>6 DEF Contains
  <1>8. PICK i \in 1..Len(disk) : disk[i] = f /\ Others(f) = RemoveAt(disk, i)
    BY <1>0, <1>5, <1>7, OthersTyped
  <1>9. disk' = RemoveAt(disk, i)
    BY <1>8 DEF DeleteNext
  <1>10. /\ Size[f] \in Nat /\ Bytes(disk') \in Nat /\ Bytes(disk) = Bytes(disk') + Size[f]
         /\ Len(disk') = Len(disk) - 1 /\ Len(disk) \in Nat /\ Len(disk) >= 1
    BY <1>0, <1>8, <1>9, RemovedBytes
  <1>11. Minus(Len(disk), 1) = Len(disk') /\ Minus(Bytes(disk), Size[f]) = Bytes(disk')
    BY <1>10 DEF Minus
  <1>12. maint' = [maint EXCEPT !.stats = [count |-> Minus(maint.stats.count, 1),
                                           bytes |-> Minus(maint.stats.bytes, Size[f])]]
    BY DEF DeleteNext
  <1>13. maint.stats.count = Len(disk) /\ maint.stats.bytes = Bytes(disk)
    BY <1>1, <1>3
  <1>14. maint' = [maint EXCEPT !.stats = Statistics(disk')]
    BY <1>11, <1>12, <1>13 DEF Statistics
  <1> QED
    BY <1>1, <1>4, <1>8, <1>9, <1>14

\* No trim is under way at first (Init).
LEMMA SweepInit == Init => SweepInv
  BY DEF Init, SweepInv, Sweeping, At, BootMaint, IdleMaint, NoSweep

\* The steps of a trim.
LEMMA SweepSteps ==
  ASSUME TypeOK, SweepInv, ListFiles \/ SortFiles \/ DeleteNext \/ FailToDelete \/ EndSweep
  PROVE  SweepInv'
  <1>0. disk \in Seq(Thumbs) /\ IsInjective(disk) /\ sweep \in SweepState /\ maint \in MaintState
    BY DEF TypeOK, SweepState, MaintState
  <1> USE DEF At, Goto
  <1>1. CASE ListFiles
    <2>1. writer' = writer /\ disk' = disk /\ writer = "out"
      BY <1>1 DEF ListFiles, DiskLockFree, storedVars
    <2>2. maint'.pc \in {"sort", "publish"} /\ maint'.stats = Statistics(disk)
      BY <1>0, <1>1 DEF ListFiles, MaintState
    <2>3. sweep'.next = 1 /\ ~sweep'.removed
      BY <1>1 DEF ListFiles, SweepInv, NoSweep
    <2> QED
      BY <2>1, <2>2, <2>3 DEF SweepInv, Sweeping
  <1>2. CASE SortFiles
    <2>1. /\ writer' = writer /\ disk' = disk /\ writer = "out" /\ maint.stats = Statistics(disk)
          /\ maint' = [maint EXCEPT !.pc = "sweep"] /\ sweep' = [sweep EXCEPT !.files = disk]
          /\ sweep.next = 1
      BY <1>2 DEF SortFiles, SweepInv, Sweeping, storedVars
    <2>2. sweep'.files = disk /\ sweep'.next = 1 /\ maint'.stats = Statistics(disk)
      BY <1>0, <2>1 DEF SweepState, MaintState
    <2>3. Sorted(disk, sweep')
      BY <1>0, <2>2, SortedFirst
    <2> QED
      BY <2>1, <2>2, <2>3 DEF SweepInv, Sweeping
  <1>3. CASE DeleteNext
    <2>1. /\ Sorted(disk, sweep) /\ sweep.next \in DOMAIN sweep.files
          /\ maint' = [maint EXCEPT !.stats = Statistics(disk')]
      BY <1>3, Removes
    <2>2. PICK i \in 1..Len(disk) : disk[i] = sweep.files[sweep.next] /\ disk' = RemoveAt(disk, i)
      BY <1>3, Removes
    <2>3. sweep' = [sweep EXCEPT !.next = @ + 1, !.removed = TRUE] /\ writer' = "out"
      BY <1>3 DEF DeleteNext, SweepInv, Sweeping
    <2>4. /\ sweep'.files = sweep.files /\ sweep'.next = sweep.next + 1
          /\ sweep'.failed = sweep.failed /\ sweep'.used = sweep.used
      BY <1>0, <2>3 DEF SweepState
    <2>5. Sorted(disk', sweep')
      BY <1>0, <2>1, <2>2, <2>4, SortedRemoved
    <2>6. maint'.stats = Statistics(disk')
      BY <1>0, <2>1 DEF MaintState
    <2>7. maint'.pc = "sweep"
      BY <1>0, <1>3, <2>1 DEF DeleteNext, MaintState
    <2> QED
      BY <2>3, <2>5, <2>6, <2>7 DEF SweepInv
  <1>4. CASE FailToDelete
    <2>1. /\ Sorted(disk, sweep) /\ maint.stats = Statistics(disk) /\ writer = "out"
          /\ UNCHANGED <<disk, writer, maint>>
          /\ sweep' = [sweep EXCEPT !.next = @ + 1, !.failed = @ \cup {sweep.files[sweep.next]}]
      BY <1>4 DEF FailToDelete, SweepInv, Sweeping, storedVars
    <2>2. sweep.next \in DOMAIN sweep.files
      BY <1>0, <1>4 DEF FailToDelete, EnoughRemoved, SweepState
    <2>3. /\ sweep'.files = sweep.files /\ sweep'.next = sweep.next + 1
          /\ sweep'.failed = sweep.failed \cup {sweep.files[sweep.next]}
          /\ sweep'.used = sweep.used
      BY <1>0, <2>1 DEF SweepState
    <2>4. Sorted(disk, sweep')
      BY <1>0, <2>1, <2>2, <2>3, SortedFailed
    <2> QED
      BY <1>4, <2>1, <2>4 DEF SweepInv, FailToDelete
  <1>5. CASE EndSweep
    <2>1. maint'.pc = "publish" /\ sweep'.next = 1 /\ ~sweep'.removed
      BY <1>0, <1>5 DEF EndSweep, MaintState, NoSweep
    <2> QED
      BY <2>1 DEF SweepInv, Sweeping
  <1> QED
    BY <1>1, <1>2, <1>3, <1>4, <1>5

\* A file that is used changes neither number (loadOrGenerate).
LEMMA TouchKeepsStatistics ==
  ASSUME TypeOK, NEW f \in Thumbs, Touch(f)
  PROVE  Statistics(disk') = Statistics(disk)
  <1>1. PICK i \in 1..Len(disk) : disk[i] = f /\ Others(f) = RemoveAt(disk, i)
    BY OthersTyped DEF TypeOK, Touch
  <1>2. disk' = Append(RemoveAt(disk, i), disk[i])
    BY <1>1 DEF Touch
  <1>3. disk \in Seq(Thumbs)
    BY DEF TypeOK
  <1>4. Bytes(disk') = Bytes(disk) /\ Len(disk') = Len(disk)
    BY Zenon, <1>2, <1>3, UseKeepsBytes
  <1> QED
    BY <1>4 DEF Statistics

\* A cache hit during a trim.
LEMMA SweepTouch ==
  ASSUME TypeOK, SweepInv, NEW f \in Thumbs, Touch(f)
  PROVE  SweepInv'
  <1>0. disk \in Seq(Thumbs) /\ IsInjective(disk) /\ sweep \in SweepState
    BY DEF TypeOK, SweepState
  <1>1. UNCHANGED <<maint, writer>> /\ Statistics(disk') = Statistics(disk)
    BY TouchKeepsStatistics DEF Touch
  <1>2. PICK i \in 1..Len(disk) : disk[i] = f /\ disk' = Append(RemoveAt(disk, i), disk[i])
    BY <1>0, OthersTyped DEF Touch
  <1>3. ASSUME At("sweep"), Sorted(disk, sweep) PROVE Sorted(disk', sweep')
    <2>1. sweep' = [sweep EXCEPT !.used = @ \cup {f}]
      BY <1>3 DEF Touch, At
    <2>2. /\ sweep'.files = sweep.files /\ sweep'.next = sweep.next
          /\ sweep'.failed = sweep.failed /\ sweep'.used = sweep.used \cup {disk[i]}
      BY <1>0, <1>2, <2>1 DEF SweepState
    <2> QED
      BY <1>0, <1>2, <1>3, <2>2, SortedUsed
  <1>4. ASSUME ~At("sweep") PROVE sweep' = sweep
    BY <1>4 DEF Touch, At
  <1>5. (Sweeping' <=> Sweeping) /\ (At("sweep")' <=> At("sweep"))
    BY <1>1 DEF Sweeping, At
  <1>6. Sweeping' => writer' = "out" /\ maint'.stats = Statistics(disk')
    BY <1>1, <1>5 DEF SweepInv
  <1>7. CASE At("sweep")
    BY <1>3, <1>5, <1>6, <1>7 DEF SweepInv
  <1>8. CASE ~At("sweep")
    BY <1>4, <1>5, <1>6, <1>8 DEF SweepInv
  <1> QED
    BY <1>7, <1>8

\* SweepInv is inductive: all others leave the directory alone during a trim.
LEMMA SweepNext == TypeOK /\ SweepInv /\ [Next]_vars => SweepInv'
  <1> SUFFICES ASSUME TypeOK, SweepInv, [Next]_vars PROVE SweepInv'
    OBVIOUS
  <1>0. maint \in MaintState
    BY DEF TypeOK, MaintState
  <1>1. ASSUME maint.pc # "sweep", maint'.pc \notin {"sort", "sweep"}, sweep' = sweep PROVE SweepInv'
    BY <1>1 DEF SweepInv, Sweeping, At
  <1>2. CASE UNCHANGED <<disk, writer, maint, sweep>>
    BY <1>2 DEF SweepInv, Sweeping, At
  <1>3. CASE \/ \E f \in Thumbs : WriteThumbnail(f) \/ DeleteThumbnail(f)
             \/ \E f \in Thumbs, i \in 0..Len(disk) : ImportEntry(f, i)
    <2>1. ~Sweeping /\ maint' = maint /\ sweep' = sweep
      BY <1>3 DEF WriteThumbnail, DeleteThumbnail, ImportEntry, DiskLockFree
    <2> QED
      BY <1>1, <2>1 DEF Sweeping
  <1>4. CASE WorkerStep
    <2>1. writer # "out" /\ maint' = maint /\ sweep' = sweep
      BY <1>4 DEF WorkerStep, CountWrite, CountDelete, RequestTrimAfterWrite
    <2>2. ~Sweeping
      BY <2>1 DEF SweepInv
    <2> QED
      BY <1>1, <2>1, <2>2 DEF Sweeping
  <1>5. CASE \/ \E l \in Limits : ChangeLimit(l)
             \/ \E c \in Callbacks : AskStatistics(c)
             \/ RequestClear \/ MainStep
    BY <1>2, <1>5
    DEF ChangeLimit, AskStatistics, RequestClear, MainStep, RequestTrimAfterChange,
        CompareGenerations, AwaitStatistics, RequestRefresh, storedVars
  <1>6. ASSUME NEW l \in {"idle", "trim", "import", "look", "measure", "store", "call", "compare",
                          "trimAgain", "refreshOver", "refreshAgain", "returned"},
               Goto(l), sweep' = sweep, maint.pc # "sweep"
        PROVE  SweepInv'
    BY <1>0, <1>1, <1>6 DEF Goto, MaintState
  <1>7. CASE \/ StartImport \/ EndImport \/ BootInvalid \/ Boot \/ StartRefresh
             \/ LookForCallbacks \/ CompareBeforeRefresh \/ Store \/ TrimDone \/ RefreshDone
             \/ RefreshOver
    <2>1. \E l \in {"idle", "trim", "import", "look", "measure", "call", "compare", "trimAgain",
                    "refreshOver", "refreshAgain", "returned"} : Goto(l)
      BY <1>7 DEF StartImport, EndImport, BootInvalid, Boot, StartRefresh, LookForCallbacks,
                  CompareBeforeRefresh, Store, TrimDone, RefreshDone, RefreshOver
    <2>2. sweep' = sweep /\ maint.pc # "sweep"
      BY <1>7 DEF StartImport, EndImport, BootInvalid, Boot, StartRefresh, LookForCallbacks,
                  CompareBeforeRefresh, Store, TrimDone, RefreshDone, RefreshOver, At, Run
    <2> QED
      BY <1>6, <2>1, <2>2
  <1>8. CASE StartTrim \/ Clear \/ Measure \/ Calculate
    <2>1. maint'.pc \in {"trim", "publish", "calculate"}
      <3>1. CASE Clear
        BY <3>1 DEF Clear
      <3>2. CASE StartTrim \/ Measure \/ Calculate
        BY <1>0, <3>2 DEF StartTrim, Measure, Calculate, MaintState
      <3> QED
        BY <1>8, <3>1, <3>2
    <2>2. sweep' = sweep /\ maint.pc # "sweep"
      BY <1>8 DEF StartTrim, Clear, Measure, Calculate, At, Run
    <2> QED
      BY <1>1, <2>1, <2>2
  <1>9. CASE Return \/ Publish \/ CallBack \/ TrimAgain \/ RefreshAgain
    <2>1. /\ maint' \in {IdleMaint, After} \/ Goto("store")
          /\ sweep' = sweep /\ maint.pc # "sweep"
      BY <1>9 DEF Return, Publish, CallBack, TrimAgain, RefreshAgain, Goto, At
    <2>2. IdleMaint.pc = "idle" /\ After.pc \in {"idle", "trimDone", "refreshDone"}
      BY <1>0 DEF After, IdleMaint, MaintState
    <2> QED
      BY <1>1, <1>6, <2>1, <2>2
  <1>11. CASE Crash
    <2>1. maint'.pc = "boot" /\ sweep'.next = 1 /\ ~sweep'.removed
      BY <1>11 DEF Crash, BootMaint, IdleMaint, NoSweep
    <2> QED
      BY <2>1 DEF SweepInv, Sweeping, At
  <1>10. CASE UNCHANGED vars
    BY <1>2, <1>10 DEF vars, storedVars
  <1> QED
    BY <1>3, <1>4, <1>5, <1>7, <1>8, <1>9, <1>10, <1>11, SweepSteps, SweepTouch
    DEF Next, MaintenanceStep

\* While a trim holds the disk lock it counts right (trimDiskCache).
LEMMA Sweeps == Spec => []SweepInv
  BY TypeInit, TypeNext, AskerInit, AskerNext, SweepInit, SweepNext, PTL DEF Spec

\* Every variable has its type: the directory has each file once, whatever is written,
\* used, deleted, trimmed and imported.
THEOREM Typing == Spec => []TypeOK
  BY TypeInit, TypeNext, AskerInit, AskerNext, SweepInit, SweepNext, PTL DEF Spec

-----------------------------------------------------------------------------
(* What is published is true.  Numbers of an older generation are never      *)
(* stored, and a change that is not counted yet has its worker inside the    *)
(* disk lock.                                                                *)

Unlocked == ~Uncounted
Measured == maint.pc \in {"publish", "store"} /\ maint.gen = mutations /\ Unlocked
StatInv ==
  /\ published <= mutations /\ maint.gen <= mutations
  /\ PublishedIsTrue
  /\ Measured => maint.stats = Statistics(disk)

\* Nothing is published at first (Init).
LEMMA StatInit == Init => StatInv
  BY DEF Init, StatInv, PublishedIsTrue, Measured, BootMaint, IdleMaint

\* A step that leaves the numbers alone, or that raises the generation of the
\* directory, keeps what is published true.
LEMMA StatFrames ==
  ASSUME TypeOK, StatInv, published' = published, cached' = cached,
         \/ maint' = maint
         \/ maint'.pc \notin {"publish", "store"} /\ maint'.gen <= mutations',
         \/ mutations' \in Nat /\ mutations' > mutations
         \/ mutations' = mutations /\ ~Unlocked'
         \/ /\ mutations' = mutations /\ (Unlocked' => Unlocked)
            /\ Statistics(disk') = Statistics(disk)
  PROVE  StatInv'
  <1>1. mutations \in Nat /\ published \in Nat \cup {-1} /\ maint.gen \in Nat
    BY DEF TypeOK
  <1>2. CASE mutations' \in Nat /\ mutations' > mutations
    <2>1. published' < mutations' /\ (maint' = maint => maint'.gen < mutations')
      BY <1>1, <1>2 DEF StatInv
    <2>2. maint'.gen <= mutations' /\ ~Measured'
      BY <1>1, <1>2, <2>1 DEF Measured
    <2> QED
      BY <1>1, <1>2, <2>1, <2>2 DEF StatInv, PublishedIsTrue
  <1>3. CASE mutations' = mutations /\ ~Unlocked'
    BY <1>1, <1>3 DEF StatInv, PublishedIsTrue, Measured, Unlocked, Uncounted
  <1>4. CASE mutations' = mutations /\ (Unlocked' => Unlocked) /\ Statistics(disk') = Statistics(disk)
    BY <1>1, <1>4 DEF StatInv, PublishedIsTrue, Measured, Unlocked, Uncounted
  <1> QED
    BY <1>2, <1>3, <1>4

\* The workers: a change is counted before the lock of the disk is released.
LEMMA StatWorkers ==
  ASSUME TypeOK, StatInv,
         \/ \E f \in Thumbs : WriteThumbnail(f) \/ DeleteThumbnail(f) \/ Touch(f)
         \/ WorkerStep
  PROVE  StatInv'
  <1>1. published' = published /\ cached' = cached /\ maint' = maint
    BY DEF WriteThumbnail, DeleteThumbnail, Touch, WorkerStep, CountWrite, CountDelete,
           RequestTrimAfterWrite, statVars
  <1>2. mutations \in Nat
    BY DEF TypeOK
  <1>3. ASSUME NEW f \in Thumbs, WriteThumbnail(f) \/ DeleteThumbnail(f)
        PROVE  mutations' = mutations /\ ~Unlocked'
    BY <1>3 DEF WriteThumbnail, DeleteThumbnail, Unlocked, Uncounted
  <1>4. ASSUME NEW f \in Thumbs, Touch(f)
        PROVE  /\ mutations' = mutations /\ (Unlocked' => Unlocked)
               /\ Statistics(disk') = Statistics(disk)
    <2>1. mutations' = mutations /\ writer' = writer
      BY <1>4 DEF Touch
    <2>2. sweep'.removed = sweep.removed
      BY <1>4 DEF Touch, TypeOK
    <2> QED
      BY <1>4, <2>1, <2>2, TouchKeepsStatistics DEF Unlocked, Uncounted
  <1>5. ASSUME CountWrite \/ CountDelete PROVE mutations' \in Nat /\ mutations' > mutations
    BY <1>2, <1>5 DEF CountWrite, CountDelete
  <1>6. ASSUME RequestTrimAfterWrite
        PROVE  /\ mutations' = mutations /\ (Unlocked' => Unlocked)
               /\ Statistics(disk') = Statistics(disk)
    BY <1>6 DEF RequestTrimAfterWrite, Unlocked, Uncounted, storedVars
  <1> QED
    BY <1>1, <1>3, <1>4, <1>5, <1>6, StatFrames DEF WorkerStep

\* The main thread changes none of it.
LEMMA StatMain ==
  ASSUME TypeOK, StatInv,
         \/ \E l \in Limits : ChangeLimit(l)
         \/ \E c \in Callbacks : AskStatistics(c)
         \/ RequestClear \/ MainStep
  PROVE  StatInv'
  <1>1. UNCHANGED <<published, cached, maint, mutations, writer, disk, sweep>>
    BY DEF ChangeLimit, AskStatistics, RequestClear, MainStep, RequestTrimAfterChange,
           CompareGenerations, AwaitStatistics, RequestRefresh, statVars, storedVars
  <1> QED
    BY <1>1 DEF StatInv, PublishedIsTrue, Measured, Unlocked, Uncounted

\* A trim and a clear publish what they leave (trimDiskCache, clearCache).
LEMMA StatDiskSteps ==
  ASSUME TypeOK, SweepInv, StatInv,
         \/ BootInvalid \/ ListFiles \/ SortFiles \/ DeleteNext \/ FailToDelete \/ EndSweep \/ Clear
         \/ \E f \in Thumbs, i \in 0..Len(disk) : ImportEntry(f, i)
  PROVE  StatInv'
  <1>0. mutations \in Nat /\ published \in Nat \cup {-1} /\ maint \in MaintState
        /\ sweep \in SweepState /\ maint.gen \in Nat
    BY DEF TypeOK, MaintState, SweepState
  <1>1. CASE BootInvalid
    <2>1. maint' = [maint EXCEPT !.pc = "trim"] /\ published' = -1 /\ mutations' = mutations + 1
      BY <1>1 DEF BootInvalid, Goto
    <2>2. maint'.pc = "trim" /\ maint'.gen = maint.gen /\ maint.gen \in Nat
      BY <1>0, <2>1 DEF MaintState
    <2> QED
      BY <1>0, <2>1, <2>2 DEF StatInv, PublishedIsTrue, Measured
  <1>2. CASE ListFiles
    <2>1. /\ UNCHANGED <<published, cached, mutations, writer, disk>> /\ ~sweep.removed /\ ~sweep'.removed
      BY <1>2 DEF ListFiles, statVars, storedVars, SweepInv, At, NoSweep
    <2>2. /\ maint'.gen \in {maint.gen, mutations} /\ maint'.stats = Statistics(disk)
          /\ maint'.pc \in {"sort", "publish"}
      BY <1>0, <1>2 DEF ListFiles, MaintState
    <2> QED
      BY <1>0, <2>1, <2>2 DEF StatInv, PublishedIsTrue, Measured, Unlocked, Uncounted
  <1>5. CASE SortFiles
    <2>1. /\ UNCHANGED <<published, cached, mutations, writer, disk>>
          /\ maint' = [maint EXCEPT !.pc = "sweep"] /\ sweep' = [sweep EXCEPT !.files = disk]
      BY <1>5 DEF SortFiles, Goto, statVars, storedVars
    <2>2. maint'.pc = "sweep" /\ maint'.gen = maint.gen /\ sweep'.removed = sweep.removed
      BY <1>0, <2>1 DEF MaintState, SweepState
    <2> QED
      BY <1>0, <2>1, <2>2 DEF StatInv, PublishedIsTrue, Measured, Unlocked, Uncounted
  <1>6. CASE DeleteNext
    <2>1. /\ UNCHANGED <<published, cached, mutations>> /\ maint' = [maint EXCEPT !.stats = Statistics(disk')]
          /\ maint.pc = "sweep"
      BY <1>6, Removes DEF DeleteNext, statVars, At
    <2>2. sweep' = [sweep EXCEPT !.next = @ + 1, !.removed = TRUE]
      BY <1>6 DEF DeleteNext
    <2>3. maint'.pc = "sweep" /\ maint'.gen = maint.gen /\ sweep'.removed
      BY <1>0, <2>1, <2>2 DEF MaintState, SweepState
    <2> QED
      BY <1>0, <2>1, <2>3 DEF StatInv, PublishedIsTrue, Measured, Unlocked, Uncounted
  <1>7. CASE FailToDelete
    <2>1. /\ UNCHANGED <<published, cached, mutations, writer, disk, maint>>
          /\ sweep' = [sweep EXCEPT !.next = @ + 1, !.failed = @ \cup {sweep.files[sweep.next]}]
      BY <1>7 DEF FailToDelete, statVars, storedVars
    <2>2. sweep'.removed = sweep.removed
      BY <1>0, <2>1 DEF SweepState
    <2> QED
      BY <1>0, <2>1, <2>2 DEF StatInv, PublishedIsTrue, Measured, Unlocked, Uncounted
  <1>8. CASE EndSweep
    <2>1. /\ maint' = [maint EXCEPT !.pc = "publish", !.gen = mutations']
          /\ UNCHANGED <<published, cached, disk, writer>> /\ writer = "out"
          /\ maint.stats = Statistics(disk) /\ ~sweep'.removed
          /\ mutations' = IF sweep.removed THEN mutations + 1 ELSE mutations
      BY <1>8 DEF EndSweep, statVars, storedVars, SweepInv, Sweeping, At, NoSweep
    <2>2. maint'.gen = mutations' /\ maint'.stats = Statistics(disk')
      BY <1>0, <2>1 DEF MaintState
    <2>3. published' <= mutations' /\ mutations' \in Nat
      BY <1>0, <2>1 DEF StatInv
    <2>4. PublishedIsTrue'
      BY <1>0, <2>1 DEF StatInv, PublishedIsTrue, Uncounted
    <2> QED
      BY <2>2, <2>3, <2>4 DEF StatInv, Measured
  <1>3. CASE Clear
    <2>1. /\ maint' = [pc |-> "publish", then |-> "idle", gen |-> mutations',
                       stats |-> Statistics(<<>>)]
          /\ UNCHANGED <<published, cached, writer>> /\ disk' = <<>> /\ mutations' = mutations + 1
      BY <1>3 DEF Clear, statVars
    <2>2. maint'.gen = mutations' /\ maint'.stats = Statistics(disk')
      BY <2>1
    <2>3. published' < mutations' /\ mutations' \in Nat
      BY <1>0, <2>1 DEF StatInv
    <2>4. published' <= mutations' /\ PublishedIsTrue'
      BY <1>0, <2>1, <2>3 DEF PublishedIsTrue
    <2> QED
      BY <2>2, <2>3, <2>4 DEF StatInv, Measured
  <1>4. ASSUME NEW f \in Thumbs, NEW i \in 0..Len(disk), ImportEntry(f, i) PROVE StatInv'
    <2>1. /\ published' = published /\ cached' = cached /\ maint' = maint
          /\ mutations' \in Nat /\ mutations' > mutations
      BY <1>0, <1>4 DEF ImportEntry, statVars
    <2> QED
      BY <2>1, StatFrames
  <1> QED
    BY <1>1, <1>2, <1>3, <1>4, <1>5, <1>6, <1>7, <1>8

\* The steps of the maintenance thread that leave the directory alone: what it
\* measured is of the generation it read before, or is not stored
\* (refreshCacheStatistics, publishCacheStatistics).
LEMMA StatMaintenance ==
  ASSUME TypeOK, StatInv,
         \/ StartImport \/ EndImport \/ Boot \/ StartTrim \/ StartRefresh \/ LookForCallbacks
         \/ CompareBeforeRefresh \/ Return \/ Measure \/ Calculate \/ Publish \/ Store
         \/ CallBack \/ TrimDone \/ TrimAgain \/ RefreshDone \/ RefreshOver \/ RefreshAgain
  PROVE  StatInv'
  <1>0. /\ mutations \in Nat /\ published \in Nat \cup {-1} /\ maint \in MaintState
        /\ maint.gen \in Nat /\ maint.gen <= mutations
    BY DEF TypeOK, MaintState, StatInv
  <1>1. UNCHANGED <<mutations, writer, disk, sweep>>
    BY DEF StartImport, EndImport, Boot, StartTrim, StartRefresh, LookForCallbacks,
           CompareBeforeRefresh, Return, Measure, Calculate, Publish, Store, CallBack,
           TrimDone, TrimAgain, RefreshDone, RefreshOver, RefreshAgain, storedVars
  <1>2. (Unlocked' <=> Unlocked) /\ Statistics(disk') = Statistics(disk)
    BY <1>1 DEF Unlocked, Uncounted
  <1>3. ASSUME published' = published, cached' = cached,
               maint'.pc \notin {"publish", "store"}, maint'.gen <= mutations
        PROVE  StatInv'
    BY <1>1, <1>2, <1>3, StatFrames
  <1>4. \A l \in {"idle", "trim", "import", "look", "measure", "call", "compare", "trimDone",
                  "trimAgain", "refreshDone", "refreshOver", "refreshAgain", "returned"} :
          [maint EXCEPT !.pc = l].pc = l /\ [maint EXCEPT !.pc = l].gen = maint.gen
    BY <1>0 DEF MaintState
  <1>5. CASE \/ StartImport \/ EndImport \/ Boot \/ StartRefresh \/ LookForCallbacks
             \/ CompareBeforeRefresh \/ TrimDone \/ RefreshDone \/ RefreshOver
    <2>1. published' = published /\ cached' = cached
      BY <1>5 DEF StartImport, EndImport, Boot, StartRefresh, LookForCallbacks,
                  CompareBeforeRefresh, TrimDone, RefreshDone, RefreshOver, statVars
    <2>2. \E l \in {"idle", "trim", "import", "look", "measure", "compare", "trimAgain",
                    "refreshOver", "refreshAgain", "returned"} :
            maint' = [maint EXCEPT !.pc = l]
      BY <1>5 DEF StartImport, EndImport, Boot, StartRefresh, LookForCallbacks,
                  CompareBeforeRefresh, TrimDone, RefreshDone, RefreshOver, Goto
    <2>3. maint'.pc \notin {"publish", "store"} /\ maint'.gen = maint.gen
      BY <1>4, <2>2
    <2> QED
      BY <1>0, <1>3, <2>1, <2>3
  <1>6. CASE StartTrim \/ Measure
    <2>1. /\ published' = published /\ cached' = cached
          /\ \/ maint' = [maint EXCEPT !.pc = "trim", !.then = "trimDone"]
             \/ maint' = [maint EXCEPT !.pc = "calculate", !.gen = mutations, !.then = "refreshDone"]
      BY <1>6 DEF StartTrim, Measure, statVars
    <2>2. CASE maint' = [maint EXCEPT !.pc = "trim", !.then = "trimDone"]
      <3>1. maint'.pc = "trim" /\ maint'.gen = maint.gen
        BY <1>0, <2>2 DEF MaintState
      <3> QED
        BY <1>0, <1>3, <2>1, <3>1
    <2>3. CASE maint' = [maint EXCEPT !.pc = "calculate", !.gen = mutations, !.then = "refreshDone"]
      <3>1. maint'.pc = "calculate" /\ maint'.gen = mutations
        BY <1>0, <2>3 DEF MaintState
      <3> QED
        BY <1>0, <1>3, <2>1, <3>1
    <2> QED
      BY <2>1, <2>2, <2>3
  <1>7. CASE Return \/ CallBack \/ TrimAgain \/ RefreshAgain
    <2>1. published' = published /\ cached' = cached /\ maint' \in {IdleMaint, After}
      BY <1>7 DEF Return, CallBack, TrimAgain, RefreshAgain, statVars
    <2>2. IdleMaint.pc = "idle" /\ IdleMaint.gen = 0
      BY DEF IdleMaint
    <2>3. maint'.pc \notin {"publish", "store"} /\ maint'.gen <= mutations
      BY <1>0, <1>4, <2>1, <2>2 DEF After, MaintState
    <2> QED
      BY <1>3, <2>1, <2>3
  <1>8. CASE Calculate
    <2>1. /\ published' = published /\ cached' = cached
          /\ maint' = [maint EXCEPT !.pc = "publish", !.stats = Statistics(disk)]
      BY <1>8 DEF Calculate, statVars
    <2>2. maint'.gen = maint.gen /\ maint'.stats = Statistics(disk)
      BY <1>0, <2>1 DEF MaintState
    <2> QED
      BY <1>0, <1>1, <1>2, <2>1, <2>2 DEF StatInv, PublishedIsTrue, Measured, Unlocked, Uncounted
  <1>9. CASE Publish
    <2>1. published' = published /\ cached' = cached /\ maint.pc = "publish"
      BY <1>9 DEF Publish, statVars, At
    <2>2. CASE maint.gen = mutations
      <3>1. maint' = [maint EXCEPT !.pc = "store"]
        BY <1>9, <2>2 DEF Publish
      <3>2. maint'.gen = maint.gen /\ maint'.stats = maint.stats
        BY <1>0, <3>1 DEF MaintState
      <3> QED
        BY <1>0, <1>1, <1>2, <2>1, <2>2, <3>2 DEF StatInv, PublishedIsTrue, Measured, Unlocked, Uncounted
    <2>3. CASE maint.gen # mutations
      <3>1. maint' = After
        BY <1>9, <2>3 DEF Publish
      <3>2. IdleMaint.pc = "idle" /\ IdleMaint.gen = 0
        BY DEF IdleMaint
      <3>3. maint'.pc \notin {"publish", "store"} /\ maint'.gen <= mutations
        BY <1>0, <1>4, <3>1, <3>2 DEF After, MaintState
      <3> QED
        BY <1>3, <2>1, <3>3
    <2> QED
      BY <2>2, <2>3
  <1>10. CASE Store
    <2>1. /\ maint' = [maint EXCEPT !.pc = "call"] /\ maint.pc = "store"
          /\ cached' = maint.stats /\ published' = maint.gen
      BY <1>10 DEF Store, Goto, At
    <2>2. maint'.pc = "call" /\ maint'.gen = maint.gen
      BY <1>4, <2>1
    <2> QED
      BY <1>0, <1>1, <1>2, <2>1, <2>2 DEF StatInv, PublishedIsTrue, Measured, Unlocked, Uncounted
  <1> QED
    BY <1>5, <1>6, <1>7, <1>8, <1>9, <1>10

\* After a process death nothing is published.
LEMMA StatCrash == StatInv /\ Crash => StatInv'
  BY DEF Crash, StatInv, PublishedIsTrue, Measured, BootMaint, IdleMaint

\* StatInv is inductive.
LEMMA StatNext == TypeOK /\ SweepInv /\ StatInv /\ [Next]_vars => StatInv'
  <1> SUFFICES ASSUME TypeOK, SweepInv, StatInv, [Next]_vars PROVE StatInv'
    OBVIOUS
  <1>1. CASE UNCHANGED vars
    BY <1>1 DEF vars, storedVars, statVars, StatInv, PublishedIsTrue, Measured, Unlocked, Uncounted
  <1> QED
    BY <1>1, StatWorkers, StatMain, StatDiskSteps, StatMaintenance, StatCrash
    DEF Next, MaintenanceStep

\* The published numbers of the current generation are true of the directory, outside
\* a change that its lock holder has yet to count, whichever changes, trims, failed
\* deletions, imports, clears and process deaths went before (publishCacheStatistics).
THEOREM StatisticsAreTrue == Spec => []PublishedIsTrue
  <1>1. StatInv => PublishedIsTrue
    BY DEF StatInv
  <1> QED
    BY <1>1, Typing, Sweeps, StatInit, StatNext, PTL DEF Spec

-----------------------------------------------------------------------------
(* What a trim takes. *)

\* What a step of a trim removes, as TrimKeepsNewest has it.
TakesOldest ==
  /\ \A i \in DOMAIN disk : ~Contains(disk', disk[i]) =>
       /\ Bytes(disk) > sweep.target
       /\ disk[i] \in sweep.used \/ \A j \in 1..i - 1 : disk[j] \in sweep.failed
  /\ maint'.pc = "publish" =>
       Bytes(disk') <= sweep.target \/ \A i \in DOMAIN disk : disk[i] \in sweep.failed

\* It removes the file it tries: all that are older were tried before it.
LEMMA DeleteTakesOldest ==
  ASSUME TypeOK, SweepInv, DeleteNext
  PROVE  TakesOldest
  <1> DEFINE f == sweep.files[sweep.next]
             D == DOMAIN sweep.files
  <1>0. disk \in Seq(Thumbs) /\ IsInjective(disk) /\ sweep \in SweepState /\ maint \in MaintState
    BY DEF TypeOK, SweepState, MaintState
  <1>1. /\ Sorted(disk, sweep) /\ maint.stats = Statistics(disk) /\ sweep.next \in D
        /\ maint.stats.bytes > sweep.target /\ maint' = [maint EXCEPT !.stats = Statistics(disk')]
    BY Removes
  <1>2. PICK x \in 1..Len(disk) : disk[x] = f /\ disk' = RemoveAt(disk, x)
    BY Removes
  <1>3. Bytes(disk) > sweep.target
    BY <1>1 DEF Statistics
  <1>4. maint'.pc # "publish"
    BY <1>0, <1>1 DEF DeleteNext, At, MaintState
  <1>5. ASSUME NEW i \in DOMAIN disk, ~Contains(disk', disk[i]) PROVE i = x
    <2> SUFFICES ASSUME i # x PROVE FALSE
      OBVIOUS
    <2>1. \E n \in DOMAIN RemoveAt(disk, x) : RemoveAt(disk, x)[n] = disk[i]
      BY <1>0, OrderKept
    <2> QED
      BY <1>2, <1>5, <2>1 DEF Contains
  <1>6. ASSUME f \notin sweep.used, NEW j \in 1..x - 1 PROVE disk[j] \in sweep.failed
    <2>1. j \in DOMAIN disk /\ x \in DOMAIN disk /\ j < x
      BY <1>0
    <2>2. PICK k, l \in D : k < l /\ sweep.files[k] = disk[j] /\ sweep.files[l] = f
      BY <1>1, <1>2, <1>6, <2>1 DEF Sorted
    <2>3. l = sweep.next
      BY <1>1, <2>2 DEF Sorted, IsInjective
    <2>4. PICK n \in D : sweep.files[n] = disk[j] /\ (n < sweep.next => disk[j] \in sweep.failed)
      BY <1>1, <2>1 DEF Sorted
    <2>5. n = k
      BY <1>1, <2>2, <2>4 DEF Sorted, IsInjective
    <2> QED
      BY <2>2, <2>3, <2>4, <2>5
  <1> QED
    BY <1>2, <1>3, <1>4, <1>5, <1>6 DEF TakesOldest

\* A trim ends where the target is met, or where everything was tried.
LEMMA EndIsRight ==
  ASSUME TypeOK, SweepInv, EndSweep
  PROVE  TakesOldest
  <1>0. disk \in Seq(Thumbs) /\ sweep \in SweepState
    BY DEF TypeOK, SweepState
  <1>1. Sorted(disk, sweep) /\ maint.stats = Statistics(disk) /\ disk' = disk /\ EnoughRemoved
    BY DEF EndSweep, SweepInv, Sweeping, At, storedVars
  <1>2. \A i \in DOMAIN disk : Contains(disk', disk[i])
    BY <1>1 DEF Contains
  <1>3. CASE maint.stats.bytes <= sweep.target
    BY <1>1, <1>2, <1>3 DEF TakesOldest, Statistics
  <1>4. CASE sweep.next > Len(sweep.files)
    <2>1. \A k \in DOMAIN sweep.files : k < sweep.next
      BY <1>0, <1>4 DEF SweepState
    <2>2. \A i \in DOMAIN disk : disk[i] \in sweep.failed
      BY <1>1, <2>1 DEF Sorted
    <2> QED
      BY <1>2, <2>2 DEF TakesOldest
  <1> QED
    BY <1>1, <1>3, <1>4 DEF EnoughRemoved

\* Nobody else takes a file during a trim, and only its end is followed by the
\* publication.
LEMMA OthersTakeNothing ==
  ASSUME TypeOK, SweepInv, At("sweep"), [Next]_vars, ~DeleteNext, ~EndSweep
  PROVE  TakesOldest
  <1>0. /\ disk \in Seq(Thumbs) /\ IsInjective(disk) /\ maint \in MaintState
        /\ maint.pc = "sweep" /\ writer = "out" /\ Sweeping
    BY DEF TypeOK, MaintState, At, SweepInv, Sweeping
  <1>1. ASSUME disk' = disk, maint'.pc # "publish" PROVE TakesOldest
    BY <1>1 DEF TakesOldest, Contains
  <1>2. ASSUME NEW f \in Thumbs, Touch(f) PROVE TakesOldest
    <2>1. PICK x \in 1..Len(disk) : disk[x] = f /\ Others(f) = RemoveAt(disk, x)
      BY <1>0, <1>2, OthersTyped DEF Touch
    <2>2. disk' = Append(RemoveAt(disk, x), disk[x]) /\ maint' = maint
      BY <1>2, <2>1 DEF Touch
    <2> DEFINE r == RemoveAt(disk, x)
    <2>3. r \in Seq(Thumbs) /\ \A k \in DOMAIN disk : k # x => \E n \in DOMAIN r : r[n] = disk[k]
      BY <1>0, OrderKept, RemovedAt
    <2> HIDE DEF r
    <2>4. ASSUME NEW i \in DOMAIN disk PROVE \E n \in DOMAIN Append(r, disk[x]) : Append(r, disk[x])[n] = disk[i]
      <3>1. CASE i = x
        <4>1. Len(r) + 1 \in DOMAIN Append(r, disk[x]) /\ Append(r, disk[x])[Len(r) + 1] = disk[i]
          BY <2>3, <3>1
        <4> QED
          BY <4>1
      <3>2. CASE i # x
        <4>1. PICK n \in DOMAIN r : r[n] = disk[i]
          BY <2>3, <3>2
        <4>2. n \in DOMAIN Append(r, disk[x]) /\ Append(r, disk[x])[n] = r[n]
          BY <2>3
        <4> QED
          BY <4>1, <4>2
      <3> QED
        BY <3>1, <3>2
    <2>5. \A i \in DOMAIN disk : Contains(disk', disk[i])
      BY <2>2, <2>4 DEF Contains, r
    <2> QED
      BY <1>0, <2>2, <2>5 DEF TakesOldest
  <1>3. CASE WorkerStep \/ \E f \in Thumbs : WriteThumbnail(f) \/ DeleteThumbnail(f)
    BY <1>0, <1>3 DEF WorkerStep, CountWrite, CountDelete, RequestTrimAfterWrite, WriteThumbnail,
                      DeleteThumbnail, DiskLockFree
  <1>4. CASE \/ \E l \in Limits : ChangeLimit(l)
             \/ \E c \in Callbacks : AskStatistics(c)
             \/ RequestClear \/ MainStep \/ FailToDelete \/ UNCHANGED vars
    BY <1>0, <1>1, <1>4
    DEF ChangeLimit, AskStatistics, RequestClear, MainStep, RequestTrimAfterChange,
        CompareGenerations, AwaitStatistics, RequestRefresh, FailToDelete, vars, storedVars
  <1>5. CASE Crash
    <2>1. disk' = disk /\ maint'.pc = "boot"
      BY <1>5 DEF Crash, BootMaint, IdleMaint, storedVars
    <2> QED
      BY <1>1, <2>1
  <1>6. CASE \/ MaintenanceStep /\ ~FailToDelete
             \/ StartImport
             \/ \E f \in Thumbs, i \in 0..Len(disk) : ImportEntry(f, i)
    BY <1>0, <1>6
    DEF MaintenanceStep, StartImport, ImportEntry, BootInvalid, Boot, StartTrim, ListFiles,
        SortFiles, Clear, EndImport, StartRefresh, LookForCallbacks, CompareBeforeRefresh, Return,
        Measure, Calculate, Publish, Store, CallBack, TrimDone, TrimAgain, RefreshDone,
        RefreshOver, RefreshAgain, At, Run
  <1> QED
    BY <1>2, <1>3, <1>4, <1>5, <1>6 DEF Next

\* A trim removes a file only while more than its target is there, the least recently
\* used one it can delete unless it was used after the sort, and ends at its target or
\* with files it cannot delete: for any files, sizes and limits, and with any number of
\* cache hits and failed deletions in between (trimDiskCache, THUMBNAIL_REDESIGN.md:31).
THEOREM TrimsKeepTheNewest == Spec => TrimKeepsNewest
  <1>1. TypeOK /\ SweepInv /\ [Next]_vars => (At("sweep") => TakesOldest)
    BY DeleteTakesOldest, EndIsRight, OthersTakeNothing
  <1>2. TypeOK /\ SweepInv /\ [Next]_vars =>
          [At("sweep") =>
             /\ \A i \in DOMAIN disk : ~Contains(disk', disk[i]) =>
                  /\ Bytes(disk) > sweep.target
                  /\ disk[i] \in sweep.used \/ \A j \in 1..i - 1 : disk[j] \in sweep.failed
             /\ maint'.pc = "publish" =>
                  Bytes(disk') <= sweep.target \/ \A i \in DOMAIN disk : disk[i] \in sweep.failed]_vars
    BY <1>1 DEF TakesOldest
  <1> QED
    BY <1>2, Typing, Sweeps, PTL DEF Spec, TrimKeepsNewest
=============================================================================
