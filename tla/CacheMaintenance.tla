-------------------------- MODULE CacheMaintenance --------------------------
(***************************************************************************)
(* ThumbnailRepository.java, one CacheStore: how disk mutations, trims,    *)
(* statistics and the state that survives the process fit together.        *)
(* Trims and statistics run on the single maintenance thread; worker       *)
(* threads change the directory under the disk lock; the main thread asks  *)
(* for statistics and changes the limits.                                  *)
(***************************************************************************)
EXTENDS Integers, Sequences, FiniteSets, SequencesExt

CONSTANTS Thumbs,      \* thumbnail files
          Size,        \* [Thumbs -> Nat \ {0}], the length of a file
          Limits,      \* the limits a user may set: [max |-> .., target |-> ..]
          Callbacks,   \* calls of getCacheStatistics()
          None,
          MaxChanges,  \* bound: changes of the directory and of the limits
          MaxFailures, \* bound: deletions that fail
          MaxCrashes   \* bound: process deaths

ASSUME SizeAssumption == Size \in [Thumbs -> Nat \ {0}]
ASSUME LimitsAssumption == Limits \subseteq [max : Nat, target : Nat]
ASSUME NoneAssumption == None \notin Callbacks \cup [count : Nat, bytes : Nat]
ASSUME BoundAssumption == MaxChanges \in Nat /\ MaxFailures \in Nat /\ MaxCrashes \in Nat

VARIABLES
  disk,       \* the k.thumb files, least recently used first
  persisted,  \* the statistics in SharedPreferences, or None
  limit,      \* the configured maximum and target
  mutations,  \* statisticsMutationGeneration
  published,  \* publishedStatisticsGeneration, -1 until something is published
  cached,     \* cachedStatistics, or None
  pending,    \* pendingStatisticsCallbacks
  heard,      \* callbacks that statistics were posted to
  requests,   \* trimRequestGeneration
  handled,    \* the value of requests the last trim started from
  scheduled,  \* trimScheduled and statisticsRefreshScheduled
  jobs,       \* how many trims, refreshes and clears the executor holds
  writer,     \* the worker inside the disk lock
  main,       \* the main thread
  maint,      \* the maintenance thread
  sweep,      \* the trim that holds the disk lock
  spent       \* consumed bounds

storedVars == <<disk, persisted, limit>>
statVars == <<published, cached, pending, heard>>
trimVars == <<requests, handled>>
queueVars == <<scheduled, jobs>>
vars == <<storedVars, mutations, statVars, trimVars, queueVars, writer, main, maint, sweep, spent>>

-----------------------------------------------------------------------------
Bytes(d) ==
  LET total[n \in 0..Len(d)] == IF n = 0 THEN 0 ELSE total[n - 1] + Size[d[n]]
  IN  total[Len(d)]
Statistics(d) == [count |-> Len(d), bytes |-> Bytes(d)]

StatisticsOrNone == [count : Nat, bytes : Nat] \cup {None}

\* The configured target never counts as more than the maximum.
Target == IF limit.target < limit.max THEN limit.target ELSE limit.max

IdleMain == [pc |-> "idle", callback |-> None, snapshot |-> None]

\* then: what follows the publication.  gen, stats: what is to be published.
IdleMaint == [pc |-> "idle", then |-> "idle", gen |-> 0, stats |-> None]
BootMaint == [IdleMaint EXCEPT !.pc = "boot"]

\* files: in the order of the sort, next of them to be tried, down to target.
\* used: history, the files that were used since the sort.  What a trim has
\* counted so far is in maint.stats.
NoSweep == [files |-> <<>>, next |-> 1, target |-> 0, removed |-> FALSE, failed |-> {}, used |-> {}]

TypeOK ==
  /\ disk \in Seq(Thumbs) /\ IsInjective(disk) /\ limit \in Limits
  /\ persisted \in StatisticsOrNone /\ cached \in StatisticsOrNone
  /\ mutations \in Nat /\ published \in Nat \cup {-1}
  /\ pending \subseteq Callbacks /\ heard \subseteq Callbacks
  /\ requests \in Nat /\ handled \in Nat
  /\ scheduled \in [trim : BOOLEAN, refresh : BOOLEAN]
  /\ jobs \in [trim : Nat, refresh : Nat, clear : Nat]
  /\ writer \in {"out", "changed", "deleted", "requested"}
  /\ main \in [pc : {"idle", "compare", "await", "refresh", "trim"},
               callback : Callbacks \cup {None}, snapshot : StatisticsOrNone]
  /\ maint \in [pc : {"boot", "idle", "trim", "sort", "sweep", "import", "look", "measure", "publish", "store", "call",
                      "compare", "calculate", "trimDone", "trimAgain", "refreshDone",
                      "refreshOver", "refreshAgain", "returned"},
                then : {"idle", "trimDone", "refreshDone"},
                gen : Nat, stats : StatisticsOrNone]
  /\ sweep \in [files : Seq(Thumbs), next : Nat \ {0}, target : Nat, removed : BOOLEAN,
                failed : SUBSET Thumbs, used : SUBSET Thumbs]
  /\ spent \in [changes : Nat, failures : Nat, crashes : Nat]

\* The first start, or one that finds what an orderly run left behind.
Init ==
  /\ \E S \in SUBSET Thumbs : IsFiniteSet(S) /\ disk \in SetToSeqs(S)
  /\ limit \in Limits
  /\ Bytes(disk) <= limit.max
  /\ persisted \in {None, Statistics(disk)} /\ cached = persisted
  /\ mutations = 0 /\ published = -1
  /\ pending = {} /\ heard = {}
  /\ requests = 0 /\ handled = 0
  /\ scheduled = [trim |-> FALSE, refresh |-> FALSE]
  /\ jobs = [trim |-> 0, refresh |-> 0, clear |-> 0]
  /\ writer = "out" /\ main = IdleMain /\ maint = BootMaint /\ sweep = NoSweep
  /\ spent = [changes |-> 0, failures |-> 0, crashes |-> 0]

-----------------------------------------------------------------------------
(* Scheduling.  requestDiskCacheTrim raises a counter and then enqueues a   *)
(* trim unless one is enqueued: two atomic steps, as in the code.           *)

EnqueueTrim ==
  IF scheduled.trim THEN UNCHANGED queueVars
  ELSE /\ scheduled' = [scheduled EXCEPT !.trim = TRUE]
       /\ jobs' = [jobs EXCEPT !.trim = @ + 1]

EnqueueRefresh ==
  IF scheduled.refresh THEN UNCHANGED queueVars
  ELSE /\ scheduled' = [scheduled EXCEPT !.refresh = TRUE]
       /\ jobs' = [jobs EXCEPT !.refresh = @ + 1]

Change == /\ spent.changes < MaxChanges
          /\ spent' = [spent EXCEPT !.changes = @ + 1]

-----------------------------------------------------------------------------
(* A worker inside the disk lock: one step changes the directory, the next *)
(* raises the mutation counter, the last one schedules the trim.           *)

Sweeping == maint.pc \in {"sort", "sweep"}
DiskLockFree == writer = "out" /\ ~Sweeping

\* Mutant: a file that is replaced is counted beside its successor.
KeptBeside(f) == IF f \in Thumbs THEN disk ELSE <<>>

\* The files without f, which is there once at most.
Others(f) ==
  IF Contains(disk, f) THEN RemoveAt(disk, CHOOSE i \in DOMAIN disk : disk[i] = f) ELSE disk

\* writeBitmapAtomically: a new thumbnail is the most recently used one.
WriteThumbnail(f) ==
  /\ DiskLockFree /\ maint.pc # "boot" /\ Change
  /\ ~Contains(disk, f)
  /\ disk' = Append(disk, f) /\ writer' = "changed"
  /\ UNCHANGED <<persisted, limit, mutations, statVars, trimVars, queueVars, main, maint, sweep>>

\* deleteCachedThumbnail: an unusable file, or one about to be regenerated.
DeleteThumbnail(f) ==
  /\ DiskLockFree /\ maint.pc # "boot" /\ Change
  /\ Contains(disk, f)
  /\ disk' = Others(f) /\ writer' = "deleted"
  /\ UNCHANGED <<persisted, limit, mutations, statVars, trimVars, queueVars, main, maint, sweep>>

CountWrite ==
  /\ writer = "changed" /\ writer' = "requested"
  /\ mutations' = mutations + 1 /\ requests' = requests + 1
  /\ UNCHANGED <<storedVars, statVars, handled, queueVars, main, maint, sweep, spent>>

CountDelete ==
  /\ writer = "deleted" /\ writer' = "out"
  /\ mutations' = mutations + 1
  /\ UNCHANGED <<storedVars, statVars, trimVars, queueVars, main, maint, sweep, spent>>

RequestTrimAfterWrite ==
  /\ writer = "requested" /\ writer' = "out"
  /\ EnqueueTrim
  /\ UNCHANGED <<storedVars, mutations, statVars, trimVars, main, maint, sweep, spent>>

\* A cache hit makes the file the most recently used one, without any lock.
Touch(f) ==
  /\ maint.pc # "boot" /\ Contains(disk, f) /\ Last(disk) # f /\ Change
  /\ disk' = Append(Others(f), f)
  /\ sweep' = IF maint.pc = "sweep" THEN [sweep EXCEPT !.used = @ \cup {f}] ELSE sweep
  /\ UNCHANGED <<persisted, limit, mutations, statVars, trimVars, queueVars, writer, main, maint>>

-----------------------------------------------------------------------------
(* The main thread. *)

\* The preference listener of the limits.
ChangeLimit(l) ==
  /\ main.pc = "idle" /\ l \in Limits \ {limit} /\ Change
  /\ limit' = l /\ requests' = requests + 1
  /\ main' = [main EXCEPT !.pc = "trim"]
  /\ UNCHANGED <<disk, persisted, mutations, statVars, handled, queueVars, writer, maint, sweep>>

\* Mutant: the listener only counts its request.
CountTrimAfterChange ==
  /\ main.pc = "trim" /\ main' = IdleMain
  /\ UNCHANGED <<storedVars, mutations, statVars, trimVars, queueVars, writer, maint, sweep, spent>>

RequestTrimAfterChange ==
  /\ main.pc = "trim" /\ main' = IdleMain
  /\ EnqueueTrim
  /\ UNCHANGED <<storedVars, mutations, statVars, trimVars, writer, maint, sweep, spent>>

\* getCacheStatistics reads the snapshot, then the two counters.
AskStatistics(c) ==
  /\ main.pc = "idle" /\ c \notin heard \cup pending
  /\ main' = [pc |-> "compare", callback |-> c, snapshot |-> cached]
  /\ UNCHANGED <<storedVars, mutations, statVars, trimVars, queueVars, writer, maint, sweep, spent>>

CompareGenerations ==
  /\ main.pc = "compare"
  /\ heard' = IF main.snapshot = None THEN heard ELSE heard \cup {main.callback}
  /\ main' = IF main.snapshot = None \/ published # mutations
             THEN [main EXCEPT !.pc = "await"] ELSE IdleMain
  /\ UNCHANGED <<storedVars, mutations, published, cached, pending, trimVars,
                 queueVars, writer, maint, sweep, spent>>

AwaitStatistics ==
  /\ main.pc = "await"
  /\ pending' = pending \cup {main.callback}
  /\ main' = [main EXCEPT !.pc = "refresh"]
  /\ UNCHANGED <<storedVars, mutations, published, cached, heard, trimVars,
                 queueVars, writer, maint, sweep, spent>>

RequestRefresh ==
  /\ main.pc = "refresh" /\ main' = IdleMain
  /\ EnqueueRefresh
  /\ UNCHANGED <<storedVars, mutations, statVars, trimVars, writer, maint, sweep, spent>>

\* clearCache, as far as the executor's queue is concerned.
RequestClear ==
  /\ main.pc = "idle" /\ Change
  /\ jobs' = [jobs EXCEPT !.clear = @ + 1]
  /\ UNCHANGED <<storedVars, mutations, statVars, trimVars, scheduled, writer, main, maint, sweep>>

-----------------------------------------------------------------------------
(* The maintenance thread. *)

At(l) == maint.pc = l
Goto(l) == maint' = [maint EXCEPT !.pc = l]
Run(job) == At("idle") /\ jobs[job] > 0

\* initializeCacheDirectory: the files have the format of another version.
BootInvalid ==
  /\ At("boot")
  /\ disk' = <<>> /\ mutations' = mutations + 1
  /\ cached' = None /\ published' = -1 /\ persisted' = None
  /\ Goto("trim")
  /\ UNCHANGED <<limit, pending, heard, trimVars, queueVars, writer, main, sweep, spent>>

\* initializeCacheMaintenance believes the statistics of the last run.
Boot ==
  /\ At("boot")
  /\ Goto(IF cached = None \/ (cached # None /\ cached.bytes > limit.max) THEN "trim" ELSE "idle")
  /\ UNCHANGED <<storedVars, mutations, statVars, trimVars, queueVars, writer, main, sweep, spent>>

StartTrim ==
  /\ Run("trim")
  /\ jobs' = [jobs EXCEPT !.trim = @ - 1]
  /\ handled' = requests
  /\ maint' = [maint EXCEPT !.pc = "trim", !.then = "trimDone"]
  /\ UNCHANGED <<storedVars, mutations, statVars, requests, scheduled, writer, main, sweep, spent>>

\* The files are counted and the limits read under the disk lock; a trim that
\* has something to remove keeps the lock.
ListFiles ==
  /\ At("trim") /\ DiskLockFree
  /\ IF Bytes(disk) > limit.max
     THEN /\ maint' = [maint EXCEPT !.pc = "sort", !.stats = Statistics(disk)]
          /\ sweep' = [NoSweep EXCEPT !.target = Target]
     ELSE /\ maint' = [maint EXCEPT !.pc = "publish", !.gen = mutations, !.stats = Statistics(disk)]
          /\ UNCHANGED sweep
  /\ UNCHANGED <<storedVars, mutations, statVars, trimVars, queueVars, writer, main, spent>>

\* The time stamps are read while the files are sorted.
SortFiles ==
  /\ At("sort") /\ Goto("sweep")
  /\ sweep' = [sweep EXCEPT !.files = disk]
  /\ UNCHANGED <<storedVars, mutations, statVars, trimVars, queueVars, writer, main, spent>>

\* Mutant: meeting the target exactly is not enough.
RemovedTooMuch == maint.stats.bytes < sweep.target \/ sweep.next > Len(sweep.files)

EnoughRemoved == maint.stats.bytes <= sweep.target \/ sweep.next > Len(sweep.files)

\* As the code subtracts: never below 0.
Minus(a, b) == IF b <= a THEN a - b ELSE 0

\* The next file of the sorted ones goes, whoever has used it since.
DeleteNext ==
  /\ At("sweep") /\ ~EnoughRemoved
  /\ LET f == sweep.files[sweep.next]
     IN  /\ disk' = Others(f)
         /\ maint' = [maint EXCEPT !.stats = [count |-> Minus(@.count, 1), bytes |-> Minus(@.bytes, Size[f])]]
  /\ sweep' = [sweep EXCEPT !.next = @ + 1, !.removed = TRUE]
  /\ UNCHANGED <<persisted, limit, mutations, statVars, trimVars, queueVars, writer, main, spent>>

\* It stays where it is, still counted, and the next newer one is tried.
FailToDelete ==
  /\ At("sweep") /\ ~EnoughRemoved
  /\ spent.failures < MaxFailures /\ spent' = [spent EXCEPT !.failures = @ + 1]
  /\ sweep' = [sweep EXCEPT !.next = @ + 1, !.failed = @ \cup {sweep.files[sweep.next]}]
  /\ UNCHANGED <<storedVars, mutations, statVars, trimVars, queueVars, writer, main, maint>>

\* One mutation for all that was removed; then the lock is released.
EndSweep ==
  /\ At("sweep") /\ EnoughRemoved
  /\ mutations' = IF sweep.removed THEN mutations + 1 ELSE mutations
  /\ maint' = [maint EXCEPT !.pc = "publish", !.gen = mutations']
  /\ sweep' = NoSweep
  /\ UNCHANGED <<storedVars, statVars, trimVars, queueVars, writer, main, spent>>

Clear ==
  /\ Run("clear") /\ DiskLockFree
  /\ jobs' = [jobs EXCEPT !.clear = @ - 1]
  /\ disk' = <<>> /\ mutations' = mutations + 1
  /\ maint' = [pc |-> "publish", then |-> "idle", gen |-> mutations', stats |-> Statistics(<<>>)]
  /\ UNCHANGED <<persisted, limit, statVars, trimVars, scheduled, writer, main, sweep, spent>>

\* importCache: entry after entry, under the disk lock; an imported file keeps
\* the time it had in the archive.  However the import ends, a trim follows.
StartImport ==
  /\ At("idle") /\ spent.changes < MaxChanges
  /\ Goto("import")
  /\ UNCHANGED <<storedVars, mutations, statVars, trimVars, queueVars, writer, main, sweep, spent>>

ImportEntry(f, i) ==
  /\ At("import") /\ DiskLockFree /\ Change
  /\ i \in 0..Len(Others(f))
  /\ disk' = SubSeq(Others(f), 1, i) \o <<f>> \o SubSeq(Others(f), i + 1, Len(Others(f)))
  /\ mutations' = mutations + 1
  /\ UNCHANGED <<persisted, limit, statVars, trimVars, queueVars, writer, main, maint, sweep>>

EndImport ==
  /\ At("import") /\ Goto("trim")
  /\ UNCHANGED <<storedVars, mutations, statVars, trimVars, queueVars, writer, main, sweep, spent>>

StartRefresh ==
  /\ Run("refresh")
  /\ jobs' = [jobs EXCEPT !.refresh = @ - 1]
  /\ Goto("look")
  /\ UNCHANGED <<storedVars, mutations, statVars, trimVars, scheduled, writer, main, sweep, spent>>

\* Nobody waits and the numbers are current: return without a second look.
LookForCallbacks ==
  /\ At("look") /\ Goto(IF pending = {} THEN "compare" ELSE "measure")
  /\ UNCHANGED <<storedVars, mutations, statVars, trimVars, queueVars, writer, main, sweep, spent>>

CompareBeforeRefresh ==
  /\ At("compare") /\ Goto(IF published = mutations THEN "returned" ELSE "measure")
  /\ UNCHANGED <<storedVars, mutations, statVars, trimVars, queueVars, writer, main, sweep, spent>>

Return ==
  /\ At("returned") /\ maint' = IdleMaint
  /\ scheduled' = [scheduled EXCEPT !.refresh = FALSE]
  /\ UNCHANGED <<storedVars, mutations, statVars, trimVars, jobs, writer, main, sweep, spent>>

\* The generation is read first; the directory is read without the disk lock.
Measure ==
  /\ At("measure")
  /\ maint' = [maint EXCEPT !.pc = "calculate", !.gen = mutations, !.then = "refreshDone"]
  /\ UNCHANGED <<storedVars, mutations, statVars, trimVars, queueVars, writer, main, sweep, spent>>

Calculate ==
  /\ At("calculate")
  /\ maint' = [maint EXCEPT !.pc = "publish", !.stats = Statistics(disk)]
  /\ UNCHANGED <<storedVars, mutations, statVars, trimVars, queueVars, writer, main, sweep, spent>>

After == IF maint.then = "idle" THEN IdleMaint ELSE [maint EXCEPT !.pc = maint.then]

\* Statistics that a mutation has overtaken are dropped.
Publish ==
  /\ At("publish")
  /\ maint' = IF maint.gen = mutations THEN [maint EXCEPT !.pc = "store"] ELSE After
  /\ UNCHANGED <<storedVars, mutations, statVars, trimVars, queueVars, writer, main, sweep, spent>>

\* Mutant: what is stored counts as current when it is stored.
StoreAsCurrent ==
  /\ At("store") /\ Goto("call")
  /\ cached' = maint.stats /\ published' = mutations /\ persisted' = maint.stats
  /\ UNCHANGED <<disk, limit, mutations, pending, heard, trimVars, queueVars, writer, main, sweep, spent>>

Store ==
  /\ At("store") /\ Goto("call")
  /\ cached' = maint.stats /\ published' = maint.gen /\ persisted' = maint.stats
  /\ UNCHANGED <<disk, limit, mutations, pending, heard, trimVars, queueVars, writer, main, sweep, spent>>

CallBack ==
  /\ At("call") /\ maint' = After
  /\ heard' = heard \cup pending
  /\ pending' = {}
  /\ UNCHANGED <<storedVars, mutations, published, cached, trimVars, queueVars, writer, main, sweep, spent>>

TrimDone ==
  /\ At("trimDone") /\ Goto("trimAgain")
  /\ scheduled' = [scheduled EXCEPT !.trim = FALSE]
  /\ UNCHANGED <<storedVars, mutations, statVars, trimVars, jobs, writer, main, sweep, spent>>

\* Mutant: requests that came in during the trim are not looked for.
NeverAgain == UNCHANGED queueVars

EnqueueIfRequested == IF requests # handled THEN EnqueueTrim ELSE UNCHANGED queueVars

TrimAgain ==
  /\ At("trimAgain") /\ maint' = IdleMaint
  /\ EnqueueIfRequested
  /\ UNCHANGED <<storedVars, mutations, statVars, trimVars, writer, main, sweep, spent>>

RefreshDone ==
  /\ At("refreshDone") /\ Goto("refreshOver")
  /\ IF maint.stats.bytes > limit.max
     THEN requests' = requests + 1 /\ EnqueueTrim
     ELSE UNCHANGED <<requests, queueVars>>
  /\ UNCHANGED <<storedVars, mutations, statVars, handled, writer, main, sweep, spent>>

RefreshOver ==
  /\ At("refreshOver") /\ Goto("refreshAgain")
  /\ scheduled' = [scheduled EXCEPT !.refresh = FALSE]
  /\ UNCHANGED <<storedVars, mutations, statVars, trimVars, jobs, writer, main, sweep, spent>>

RefreshAgain ==
  /\ At("refreshAgain") /\ maint' = IdleMaint
  /\ IF published # mutations \/ pending # {} THEN EnqueueRefresh ELSE UNCHANGED queueVars
  /\ UNCHANGED <<storedVars, mutations, statVars, trimVars, writer, main, sweep, spent>>

-----------------------------------------------------------------------------
\* The process dies: the files and the preferences are all that is left.
Crash ==
  /\ spent.crashes < MaxCrashes
  /\ spent' = [spent EXCEPT !.crashes = @ + 1]
  /\ cached' = persisted /\ mutations' = 0 /\ published' = -1
  /\ pending' = {}
  /\ requests' = 0 /\ handled' = 0
  /\ scheduled' = [trim |-> FALSE, refresh |-> FALSE]
  /\ jobs' = [trim |-> 0, refresh |-> 0, clear |-> 0]
  /\ writer' = "out" /\ main' = IdleMain /\ maint' = BootMaint /\ sweep' = NoSweep
  /\ UNCHANGED <<storedVars, heard>>

WorkerStep == CountWrite \/ CountDelete \/ RequestTrimAfterWrite

MainStep ==
  \/ RequestTrimAfterChange \/ CompareGenerations \/ AwaitStatistics \/ RequestRefresh

MaintenanceStep ==
  \/ BootInvalid \/ Boot \/ StartTrim \/ Clear \/ EndImport
  \/ ListFiles \/ SortFiles \/ DeleteNext \/ FailToDelete \/ EndSweep
  \/ StartRefresh \/ LookForCallbacks \/ CompareBeforeRefresh \/ Return
  \/ Measure \/ Calculate \/ Publish \/ Store \/ CallBack
  \/ TrimDone \/ TrimAgain \/ RefreshDone \/ RefreshOver \/ RefreshAgain

Next ==
  \/ \E f \in Thumbs : WriteThumbnail(f) \/ DeleteThumbnail(f) \/ Touch(f)
  \/ \E f \in Thumbs, i \in 0..Len(disk) : ImportEntry(f, i)
  \/ StartImport
  \/ \E l \in Limits : ChangeLimit(l)
  \/ \E c \in Callbacks : AskStatistics(c)
  \/ RequestClear
  \/ WorkerStep \/ MainStep \/ MaintenanceStep
  \/ Crash

Spec == Init /\ [][Next]_vars

\* A thread that has started a call or a task runs on.
Fairness == WF_vars(WorkerStep) /\ WF_vars(MainStep) /\ WF_vars(MaintenanceStep)

FairSpec == Spec /\ Fairness

-----------------------------------------------------------------------------
(* Properties *)

\* The published numbers are true of the disk while their generation is the
\* current one, unless a worker or a trim inside the disk lock has changed the
\* directory and not counted it yet (publishCacheStatistics,
\* deleteCachedThumbnail, generateThumbnail, trimDiskCache, clearCache).  Not
\* about a snapshot that getCacheStatistics took before the numbers were replaced.
Uncounted == writer \in {"changed", "deleted"} \/ sweep.removed
PublishedIsTrue == published = mutations /\ ~Uncounted => cached = Statistics(disk)

\* Trims are coalesced, never lost, never doubled: while a request is newer than
\* the last trim's start, that trim has yet to look again, or a trim is in the
\* queue, or a caller is about to put one there (enqueueDiskCacheTrim).
TrimRunning == maint.then = "trimDone" /\ ~At("trimAgain")
NoTrimLost ==
  /\ scheduled.trim <=> jobs.trim = 1 \/ TrimRunning
  /\ jobs.trim \in {0, 1} /\ ~(jobs.trim = 1 /\ TrimRunning)
  /\ requests # handled =>
       scheduled.trim \/ At("trimAgain") \/ writer = "requested" \/ main.pc = "trim"

\* THUMBNAIL_REDESIGN.md:31: a cache above its maximum is cleaned by the LRU
\* time stamps down to its target (trimDiskCache).  A trim removes a file only
\* while more than the target is on disk.  The file is the least recently used
\* one that could be deleted, unless it was used after the trim sorted: a cache
\* hit takes no lock.  A trim ends at its target, or with nothing left but files
\* that it could not delete.
TrimKeepsNewest ==
  [][At("sweep") =>
       /\ \A i \in DOMAIN disk : ~Contains(disk', disk[i]) =>
            /\ Bytes(disk) > sweep.target
            /\ disk[i] \in sweep.used \/ \A j \in 1..i - 1 : disk[j] \in sweep.failed
       /\ maint'.pc = "publish" =>
            Bytes(disk') <= sweep.target \/ \A i \in DOMAIN disk : disk[i] \in sweep.failed]_vars

Over == Bytes(disk) > limit.max

\* A cache above its maximum is cleaned, unless the process dies first or a
\* deletion fails: every step that can exceed the limit requests a trim, and
\* none is lost.  A trim that could not delete is not repeated for that.
Disturbed == spent.crashes > 0 \/ spent.failures > 0
OverLimitIsTrimmed == Over /\ ~Disturbed ~> ~Over \/ Disturbed

\* THUMBNAIL_REDESIGN.md:31: a cache above its maximum is cleaned, also when
\* the process dies between a write and the delayed trim.
OverLimitIsTrimmedAfterRestart == Over ~> ~Over
=============================================================================
