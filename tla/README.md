# Round Sync in TLA+

Round Sync is an Android file manager and sync client around rclone. This
directory models the parts of it that are hard to test because several threads,
processes or protocol partners share state. It covers
- the thumbnail cache
  (`src/app/src/main/java/ca/pkay/rcloneexplorer/thumbnails/ThumbnailRepository.java`,
  called TR below): requests, files, trims, statistics;
- the extraction of a video's frame: TR's data sources, the child process that
  feeds them (`Rclone.java`) and the native extractor
  (`src/ffmpeg/jni/ffmpeg_thumbnail_jni.c`, called JNI below);
- the QuarkDAV service (`.../quarkdav/QuarkDavService.kt`, QS, and its repository,
  QR): a supervisor of child processes and the files it shares;
- the jobs of the rclone remote control daemon (`RcloneRcd.java`,
  `Services/RcdService.java`).

The inventory lists the rest, and the plan says what follows.

## Inventory

| component | state it keeps | operations | hard behaviour | what makes it correct |
|---|---|---|---|---|
| **ThumbnailRepository**, requests and files | per media type: `cacheGeneration`, `diskCacheLock`, the `.thumb` and `.failed` files, a memory LRU; shared: `inFlight`, 32 striped request locks, an executor, one maintenance thread, a start-up latch | `load`, `cancel`, `regenerateVideoThumbnail`, `preGenerateThumbnail`, `clearCache`, `importCache`, `exportCache`, preference listener | results that arrive after a clear, an import or the switch; joined requests; lock striping; a clear that deletes the source of a running job | every request answered once; one job per key; what was cleared stays cleared; an import wins; failure markers are earned |
| **ThumbnailRepository**, trims and statistics | mutation and published generations, cached and persisted statistics, trim and refresh flags, waiting callbacks | `requestDiskCacheTrim`, `trimDiskCache`, `requestCacheStatisticsRefresh`, `publishCacheStatistics`, `getCacheStatistics` | coalescing against late requests; statistics taken without a lock; process death before a delayed trim | published numbers are true; no trim is lost; LRU order and target kept |
| **ThumbnailPreGenerationService** | queue of folders, visited folders, counters, wake locks | breadth-first walk, cancel | the switch or a cancel during the walk; cycles | counters add up; ends; never touches the other type |
| **Media access** (range data source, FFmpeg JNI) | cached ranges, a watched process, native handles; none across extractions | extract a frame | stalls against the end of the file, wrong sizes, many exits, limits | the file's bytes, the best frame, everything freed, an end |
| **QuarkDAV service** | running processes, restart attempts, status store | start, stop, supervise, back off, heartbeat | output of an obsolete process; restart racing disable; service destroyed beside the supervisor | status matches the process; a disabled remote is not restarted |
| **QuarkDAV repository** | one file per remote, runtime configuration with cookie | save, rename, enable, delete, sync the cookie back | lost updates; cookie newer on either side | the newer cookie survives |
| **QuarkDAV kernel** (Go) | lock table, directory and link caches, session cookie | WebDAV methods, LOCK, UNLOCK, refresh | check and create are two critical sections; expiry | exclusive locks exclude |
| **RcloneRcd / RcdService** | job queue, handlers, last status, daemon process | start, stop, submit, monitor | a job queued before its handler; a failing status call | every finished job reaches its handler once |
| **Sync and ephemeral workers** | status object, failure reason, receiver | `doWork`, `onStopped`, follow-up tasks | clean-up by two threads; a reason overwritten | one follow-up per sync; the reason reported is the cause |
| **Triggers** | alarms | schedule, fire, reschedule | minute arithmetic, 32-bit interval | next time is in the future and of the schedule |
| **Rclone wrapper, interactive runner, streaming, content provider, safdav** | child processes | run a command | output parsing, lifetime of processes | parts of the wrapper are in `RangeSource`; the rest is not planned |
| **UI, database, logging, settings; vendored rclone and FFmpeg** | – | – | – | not modelled: presentation, storage, or third-party |

Interactions: views call `load` on the main thread; the executor's workers, the
pre-generation service's thread and the maintenance thread call back through
the main looper. Preferences are shared state: a new value is visible to all
threads at once, and the listener runs on the main thread afterwards. The
QuarkDAV service and the rclone daemon are child processes, joined by files,
standard output and HTTP.

`PROJECT.json` lists every hazard at its line with the properties that cover it.

## Modules

| module | models |
|---|---|
| `ThumbnailCache` | TR: requests, generation of thumbnails, files, markers, decoded bitmaps, clear, import, switches |
| `MCThumbnailCache` | constants of its five instances |
| `ThumbnailCacheProofs` | theorems about `ThumbnailCache` |
| `CacheMaintenance` | TR, one media type: directory mutations, trims, statistics, process death |
| `MCCacheMaintenance` | constants of its instances |
| `CacheMaintenanceProofs` | theorems about `CacheMaintenance` |
| `RangeSource` | TR's two media data sources, and the watched rclone process of a fetch (`Rclone.ManagedProcessInputStream`) |
| `VideoFrame` | TR `extractVideoThumbnail` and the native extractor; extends `RangeSource` |
| `MCVideoFrame`, `VideoFrameProofs` | constants of its instance; theorems about both |
| `RemoteStatus` | what a QuarkDAV status file promises its readers: an abstract state machine |
| `QuarkDavSupervisor` | QS, QR, the user's process and the kernels; implements `RemoteStatus` |
| `MCQuarkDavSupervisor` | its instances |
| `QuarkDavTypeProofs`, `QuarkDavStatusProofs`, `QuarkDavSupervisorProofs` | theorems about it, each module extending the one before: types; the refinement of `RemoteStatus`; kernels and configurations |
| `RcdJobs` | submission, monitor, handlers, daemon and service of the remote control jobs |
| `MCRcdJobs` | its instance |
| `RcdJobsProofs`, `RcdHandlersProofs` | theorems about it: the queue; types and handlers |

### ThumbnailCache

State and code:

| variable | code |
|---|---|
| `enabled`, `notice` | the preference of a type; the listener that the main thread still has to run for a change |
| `gen` | `CacheStore.cacheGeneration` |
| `thumb`, `marker` | `<key>.thumb`; `<key>.failed` younger than 12 hours |
| `mem` | the memory LRU (one size bucket) |
| `inFlight`, `queued` | the in-flight table; the executor's queue |
| `thread` | program counter and locals of each worker and of the pre-generation thread |
| `tasks`, `maint` | queue and position of the maintenance thread |
| `asked`, `cancelled`, `answers`, `cleared` | history of the requests and of finished clears |
| `ready` | `cacheInitializationLatch` |

An action is what happens between two points where another thread can matter:
a lock taken, a lock released, a generation or switch read. A job goes from
`lock` (waiting for the request lock) through `probe`, `extract` (minutes of
download), `check` and `writing` (inside the disk lock), `verify` (the file is
read again after the lock), `failed` and `mark` (two steps: delete and compare,
then the marker) to `collect` (the key leaves `inFlight`), `deliver` and `put`.
The steps `mark` and `put` exist because the code compares the generation and
writes afterwards.

Pixels are abstracted to the kind of writer and the generation it wrote under,
which is all that the properties tell apart. `cause` records what interfered
with a job (its source vanished, its generation was over, the switch was off)
at the moment it failed (`Blame`), so that a marker can be judged by the reason
it was written for.

Simplifications, and why they are sound:
- The executor's queue is a set: more orders than its FIFO allows.
- `Trim` removes any thumbnails: the order is the subject of `CacheMaintenance`.
- `ImportEntry` replaces the file and evicts the bitmap in one step, and
  `LockRegenerate` evicts and deletes in one step: both hold the request lock
  that every `put` for the key needs.
- The generation comparison of `regenerateVideoThumbnail` before
  `generateThumbnail` has the same outcome as the one inside it, and is folded
  into `CheckBeforeWrite`.
- RuntimeExceptions that are caught end like the failure they are handled as.
- Twelve hours passing is `Expire`; it may happen at any time.
- Decoding may yield nothing, also from a file that is there (`Decode`).
- Initialisation finds one of: nothing, a damaged file, a usable file per key.

### CacheMaintenance

`disk` is the sequence of `.thumb` files, least recently used first. A worker
changes the directory, counts the mutation and requests a trim in separate
steps inside the disk lock (`writer`). The maintenance thread's trim, refresh,
clear, import and publication are broken at every read of a counter that others
change. A trim (`sweep`) lists, sorts and then deletes one file after the other,
and each deletion may fail (`FailToDelete`, at most `MaxFailures` times): it
holds the disk lock, but a cache hit sets a file's time stamp without it
(`Touch`), between any two of these steps. `Crash` keeps `disk`, `persisted` and `limit` and restarts the rest, so
that `Boot` sees statistics that may be older than the directory. A callback is
a member of a set of calls; `heard` holds those that got a value.

`Clear` and `ImportEntry` change the directory and count the mutation in one
step: only the main thread's comparison of the two counters could see the
difference, and `PublishedIsTrue` excludes the same window for workers and
trims. `Touch` puts a file at the end of the order: two time stamps within one
millisecond are told apart. A delayed trim is a trim that has not run yet: every delay is allowed.

### RangeSource and VideoFrame

| variable | code |
|---|---|
| `source` | the data source: remote or document, the size the listing claims (-1: unknown), the cached ranges, least recent first, and `remoteReadFailure` |
| `call` | the `readAt` under way: position, length wanted, bytes so far |
| `stream` | `rclone cat` with offset and count, and its watchdog: `closed`, `flagged`, `killed` are the three steps of `closeInternal` |
| `pc` | the place in `extractVideoThumbnail` ("platform") and `nativeExtractFrame` (the rest) |
| `io` | `JavaAvioContext`: position, size, bytes read, failed |
| `late` | whether `EXTRACTION_DEADLINE_US` has passed |
| `held` | what is allocated: the AVIO buffer and context, format and codec contexts, frames, packet, scratch array |
| `decode`, `offered` | locals of `decode_thumbnail_frame`; the usable frames it has seen (history) |
| `bitmap` | the result, as the set of pixels written with the source pixel of each |

A byte of the file stands for its position, so that `got` says which bytes an
answer consists of. A read is a step per round (copy from a range or start a
fetch), and a fetch is a step per delivery, so that the watchdog's three steps
fall between any two of them. FFmpeg is external: while one of its functions
runs (`open`, `probe`, `seek`, `demux`) it may call `java_read_packet` and
`java_seek` with any arguments any number of times, and then return any result.
So is the retriever. The exits of `nativeExtractFrame` keep their own lists of
what they free (`InputHandles`, `DecoderHandles`, `CandidateHandles`).

Simplifications: a document is read by one positional read, which may be short
or fail; the size callback repeats the size passed in; the rescaling is not
modelled beyond the shapes (`FitInside`) and the rotation (`Destination`); the
target's 64-bit arithmetic and the colours are left out; time stamps count from
`start_time` in the stream's units (JNI:266-273), and the fraction is the third
that the application asks for; a decoder holds as many
frames as it was given packets.

### QuarkDavSupervisor and RemoteStatus

| variable | code |
|---|---|
| `meta`, `runtime`, `status` | the files of a remote: metadata, the kernel's own configuration (its cookie), status |
| `kernels` | the processes of `libquarkdav.so` that are alive, with what they were started with |
| `up`, `inbox` | what the system knows of the service; intents and life cycle calls that wait for its main thread |
| `svc` | the service object: none, up, or in `onDestroy` |
| `queue`, `news` | the single-threaded executor; reader and waiter threads and timers that have yet to post to it |
| `task`, `start`, `stop` | the task under way, its `startProcess`, and a `stopProcess` of each thread |
| `running` | the map of `RunningProcess`es, called holders below; `adopted` records that a heartbeat took edited metadata for the kernel's |
| `doomed`, `ghosts` | the rest of `onDestroy`; what the interrupted supervisor thread may still do |
| `ui`, `unsent` | the operation under way in the user's process; remotes saved without a request that reached the service (history) |
| `used` | the counters behind the bounds |

A call of QR holds its file lock and is one step. `setEnabled` and `rename` are
two calls, and so are the heartbeat's comparison and write: another process may
save in between. A task of the supervisor goes on only when the start or stop
it has called is over; the main thread's `onDestroy` stops kernels meanwhile.
`stopProcess` removes the holder, kills, and ends later with the cookie and the
status; a kernel may outlive both of its waits. `startProcess` is four steps:
the search for stale kernels (and, for an unchanged cookie, the take-over of
the kernel's), the metadata, the runtime file, the launch. The search kills
what it finds, waits for a second and goes on whatever came of it: any subset of
those kernels survives `TerminateStale`, marked `stale`. `Crash` is the death of the
service process: kernels and files remain, undelivered intents come again or a
null intent does (`START_STICKY`). `Leftovers` is what `shutdownNow` does to an
interrupted task: repository calls fail, since the file lock does not survive
an interrupt, while starting a process and writing a status need none.

A cookie is the login it stems from and how often it was refreshed; a
configuration is a cookie and a port. Time is left out: a backoff or heartbeat
fires at any moment. A kernel prints its process number and then READY
(`Lines`); the reader's two acts, to read a line and to queue its task, are one
step. The task of the first line reads the status and writes it back
(`PidSeen`, `PidWritten`). The number itself, wake and Wi-Fi locks, the counter
behind the length of a backoff, notifications, and the conflicts `save()`
rejects are not modelled.

`RemoteStatus` says what a reader of the status file may rely on: STARTING is
shown only by a launch, RUNNING only of a supervised kernel that has said it is
ready, STOPPED and ERROR only when none is supervised. The user's process may
write ERROR when it cannot reach the service, and threads of a service being
closed may write last. The task of the pid line may write back a STARTING or
RUNNING that was read while its kernel was supervised (`Notes`), over an ERROR
or the STOPPED of a deletion written in between, but never once another task
has run (`WriteBack` needs the kernel still supervised). The refinement mapping
is `Shown` in `QuarkDavSupervisor`: the file's state, the holder (none, starting,
ready), the existence of metadata, what the pid task has read, and "a thread may
still write" for a closing service and for ghosts.

### RcdJobs

| variable | code |
|---|---|
| `daemon`, `job` | the `rclone rcd` process and what it knows of each job |
| `caller` | the provider's thread that submits a job; `racing` marks two overlapping `SparseArray.append`s |
| `handlers`, `queue` | `jobsHandlers`, `pendingJobs` |
| `monitor` | the periodic task: where it is, the id in hand, the ids to poll again |
| `main` | messages posted to the main looper: handlers and updates |
| `service` | RcdService: `shutdown`, recently used |
| `handled`, `trimmed` | how often a handler has run; jobs that a memory trim has killed (history) |

A pass takes an id, puts it back, drains the queue id by id with a status call
each, and refills it: every one of these is a step, because the service asks for
the queue's size at any time. `moveFile` queues before it files its handler, the
other operations after. A daemon that has died is replaced together with its
queue, handlers and monitor. The code does not cancel the monitor of a daemon
that has died: what it may still do is one update (`Abandon`), since any later
call goes to a port where nobody listens and ends it, and without an id it waits
for good. The service's flags are set by its life cycle calls
(`OnStartCommand`, `OnNotifyUse`), not by `GetLocalRcd`. A status call that fails with another error than
"job not found" ends the monitor, as the null response does in the code.

## Runs

| run | instance | what it shows |
|---|---|---|
| `ThumbnailCache_image` | one image, two loads, two workers, the pre-generation thread, two generation bumps, one trim | `OneJobPerKey`, `AnsweredOnceOrAwaited`, `ClearedStaysCleared`, `MarkersOfLiveJobs` |
| `ThumbnailCache_mixed` | an image and a video under one striped lock, a load, a regeneration, pre-generation, one bump, one trim | `TypeOK`, `AnsweredOnceOrAwaited`, `MemoryShowsImport`, `ImportedIsKept` |
| `ThumbnailCache_live` | one image, two loads, one worker, with fairness | `EveryRequestAnswered`, `EveryClearFinishes` |
| `CacheMaintenance_all` | three files of sizes 1, 3, 1, two limit settings, one statistics request, two changes, one failing deletion, one crash, with fairness | `TypeOK`, `PublishedIsTrue`, `NoTrimLost`, `TrimKeepsNewest`, `OverLimitIsTrimmed` |
| `VideoFrame` | a file of 3 bytes, listed as 2, 4 or unknown, ranges of 2 bytes, two of them cached, a budget of 3 bytes, two packets, one frame, two shapes, four angles, with fairness | `TypeOK`, `BytesAreTheFiles`, `KnownSizeIsComplete`, `StallIsNotTheEnd`, `BestFrame`, `HandlesReleased`, `BitmapIsWhole`, `ExtractionEnds` |
| `QuarkDavSupervisor` | one remote, started at boot, two operations of the user, two cookies, one refresh, two kernels, one crash (two such events in all), with fairness | `TypeOK`, `OneKernel`, `Converged`, `StatusMachine`, `StartsAreAnswered` |
| `RcdJobs` | two jobs, one a `moveFile`, two daemons, two failing calls, with fairness | `TypeOK`, `HandledAtMostOnce`, `JobsAreTracked`, `TrimSparesRunning`, `FinishedIsHandled`, `QueueDrains` |
| `ThumbnailCache_marker`, `ThumbnailCache_memory`, `CacheMaintenance_restart`, `VideoFrame_buffer`, `QuarkDavSupervisor_cookie` | expected violations | the five findings below |

Bounds. `MaxBumps` limits clears, imports and disabling (two in
`ThumbnailCache_image`: the second overtakes the first while a job of the
generation in between runs; generations older than that behave alike).
`MaxTrims` and `MaxPasses` limit trims and pre-generation. Two requests of one
key are enough to join a job, to come too late for it and to be cancelled
separately. Two workers and the pre-generation thread contend for each lock.
`MaxChanges` limits the changes of the directory and of the limits: two suffice
for a change during a trim or refresh that another change provoked.
`MaxFailures` is one failing deletion with newer files behind it. One file is
larger than a trim target, and the second limit setting has a target above its
maximum, as restored preferences may leave it.
In `VideoFrame` the sizes are the smallest at which the cases differ: the listing
is behind the file, ahead of it, or silent; a range ends before the file, so
that reads cross ranges and one is dropped; the budget ends inside a buffer; the
frame limit is met before the packet limit, and a flush follows either. One
shape fits the limit, the other is so flat that its short side rounds to 0 and
is lifted to 1. In `QuarkDavSupervisor` remotes share nothing but the queue, so
one is enough; `MaxEvents` bounds operations, refreshes and deaths together
(two suffice for an edit that meets another, a refresh or a crash at every
step), `MaxKernels` is a kernel and its successor, and a queue of one keeps
later tasks with the threads that post them, in any order. In `RcdJobs` two
appends can race, a second daemon is met by the messages of the first, and
`MaxPosted` keeps the monitor from running ahead of the main thread without end.
Deadlock is not checked because the bounds run out and an idle application may
stop; an extraction ends, and a device may stay without any operation.

Fairness is weak, for each thread on its own: the main looper runs a pending
listener, the maintenance thread and the pool's workers continue, and a
download ends because it has an idle timeout. Nothing is assumed of users, of
trims in `ThumbnailCache`, or of time. In `CacheMaintenance` the environment
(workers that begin to write, the user, process death) has no fairness.

In `VideoFrame` the native code, the reads (at the latest by their watchdog) and
the clock go on. That the retriever, or a function of FFmpeg, returns is strong
fairness: each may read again and again before it does, which disables its
return, and that it does not do so for ever is assumed of the external code
(FFmpeg's interrupt callback and the deadline are its own means to that end).
In `QuarkDavSupervisor` the supervisor, the main thread and the posting threads
go on; kernels need not become ready, nor exit, and users, crashes and the
cloud owe nothing. In `RcdJobs` the monitor, the main looper and a submission
that has begun go on; the daemon, the system and the user owe nothing.

## Findings

1. **A failure marker without a failure** (`NegativeCacheIsEarned`). `clearCache`
   raises the generation at once and deletes later. A load started in between
   carries the new generation, loses its source file to the clear and writes a
   12-hour marker: its generation is current. The documents tie the marker to a
   failed extraction.
2. **A bitmap that survives a clear** (`ClearEmptiesMemory`). The generation is
   compared once, then bitmaps are decoded and put into memory. A clear in
   between leaves a bitmap of a deleted file, served by later loads.
3. **A cache above its limit after a restart** (`OverLimitIsTrimmedAfterRestart`).
   Death between a write and its delayed trim leaves persisted statistics older
   than the directory, and start-up believes them.
4. **A leaked buffer per extraction** (`NothingLeaks`). `nativeExtractFrame`
   allocates the AVIO buffer (JNI:618) and frees it only when the AVIO context
   cannot be had; every other return calls `avio_context_free` alone, which
   leaves the buffer to its owner, as `avio.h` says.
5. **A cookie overwritten by an older one** (`EnteredCookieWins`). The user
   enters a cookie for a running remote and switches it off in the same form;
   the kernel that is stopped for it has the old cookie, and `stopProcess` takes
   that over into the metadata. A comment says that a user-entered replacement
   always wins.

Modelled, and not stated as a property because no document promises it:
a heartbeat between an edit and its reconcile takes the edited port or prefix
for the running kernel's, which then keeps the old one until the next restart
(`adopted`); a STOP task switches off a remote the user has meanwhile switched
on again; an early death of `rclone cat` on a file of unknown size is taken for
the end of the file; an error of a status call ends the job monitor for good; an
update posted before a shutdown revives the service object without a daemon; a
statistics callback added after a refresh has looked for callbacks and before it
returns early is not served until someone asks again (TR:2414-2445);
`getCacheStatistics` reads the snapshot before the two counters (TR:576-579), so
that a publication in between has it deliver the old numbers as current ones;
a file used after a trim has sorted its listing is deleted all the same
(TR:1182, 2743-2749); a file that cannot be deleted leaves the cache above its
limit until something requests another trim; a load or regeneration that the
switch stops before its listener has run, and any job whose generation ends
between the comparison and the write (TR:1019-1020, 1195-1197), leave a failure
marker for a file that is sound; a kernel that outlives `terminateStaleKernel`'s
second, or whose command line cannot be read, stands beside the new one; the
pid task restores a state that was replaced between its read and its write
(QS:215-217).

## Proofs

TLAPS proves every safety invariant, every action property and the refinement
that the passing runs check, for all values of the constants that satisfy the
named assumptions: positive lengths, limits and sizes, `None` outside the sets
it is added to, sizes of a listing that are -1 or positive, and requests of two
kinds that are told apart. The bounds of the instances are constants, too, so the
theorems hold for every number of clears, crashes, kernels, daemons, packets
and messages. Each theorem follows from an inductive invariant: `Init` implies it,
`[Next]_vars` keeps it (one lemma per group of actions), and it implies the
property. What each invariant adds to its property, and why:

**`ThumbnailCacheProofs`**

- `Typing` (`TypeOK`) is inductive alone.
- `ClearIsFinal` (`ClearedStaysCleared`): `ClearedInv` adds `ClearOrder` (no
  finished, running or queued clear announces a generation beyond the current
  one) and `WriteExclusion` (a thread that is writing holds the disk lock, so no
  clear of its type is deleting, and its generation is not before the last
  clear). The step that matters is `WriteThumbnail`: the check was made under the
  lock that a clear needs.
- `MarkersAreEarned` (`MarkersOfLiveJobs`): `MarkerInv` says of each thread that a
  recorded cause is honest: a `stale` cause means that the thread's generation
  has passed, and a generation never returns; a `disabled` cause means that the
  listener runs or has raised the generation before the switch can be on again.
  The theorem is about the comparison before a marker. What happens between
  that and the write is not excluded, and the section above says so.
- `JobsAreShared` (`OneJobPerKey`): `JobInv` adds that whoever is about to take
  a key's waiting requests runs a load; the argument goes key by key (`OneJob`).
- `RequestsAreAnswered` (`AnsweredOnceOrAwaited`): `RequestInv` says where an
  unanswered request may be (in flight, as a queued regeneration, or in one
  thread's hands: `WaitsOnce`, `QueuedOnce`, `HeldByOne`), that it is in one
  place only, and that it is somewhere (`NoneIsLost`). Each step of a thread is
  one of six kinds (`StepCases`), and each kind moves requests in its own way.
- `ImportIsShown` (`MemoryShowsImport`): `BitmapsInv` adds that a decoded bitmap
  belongs to a holder of the request lock, and is the imported file's if there is
  one; an import needs that lock.
- `ImportStays` (the action property `ImportedIsKept`): `ImportInv` adds that a
  thumbnail is made, given up or marked only for a key without an imported one.

**`CacheMaintenanceProofs`**

- `TrimsAreNotLost` (`NoTrimLost`): `TrimInv` adds where the maintenance thread
  may be when a trim is followed up.
- `Typing` (`TypeOK`): not inductive alone: `Asker` adds that the main thread
  has a callback while it compares the generations, and `SweepInv` that what a
  trim deletes next is still there. That each file is in the
  order once rests on the lemmas about removal, insertion and the end of a sequence.
- `StatisticsAreTrue` (`PublishedIsTrue`): `StatInv` adds that the published and
  the measured generation never run ahead of the directory's, and that what is
  about to be stored, if its generation is still the current one and no worker or
  trim is between a change and its count, is true already. A cache hit moves a file
  without any lock, so the proof needs `UseKeepsBytes`: the sum does not depend
  on the order.
- `TrimsKeepTheNewest` (the action property `TrimKeepsNewest`): `SweepInv` says
  what a trim knows while it deletes: its sum is that of the directory, every
  file there is was in its listing and was tried in vain or is yet to be tried,
  and the order of use is the listing's but for the files used since
  (`Sorted`). Each hit, deletion and failure keeps this in a lemma of its own.

**`VideoFrameProofs`**

- `AnswersAreTheFile` (`BytesAreTheFiles`) and `StallsAreNoEnd`
  (`StallIsNotTheEnd`), from one invariant, `ReadInv`: each cached range holds
  the bytes of the file from its start and stays inside it (`TrueRange`), a call's
  bytes are the file's from its position (`TrueCall`), a stream has delivered no
  more than there is, and one that was killed was flagged before (`TrueStream`).
- `KnownSizesAreComplete` (`KnownSizeIsComplete`): `SizeInv` adds to it that
  ranges, streams and calls of a remote with a known size stay inside that size,
  and what a call that is done has. A call that throws gives no answer, so a
  killed stream needs no case of its own.
- `ReturnsRelease` (`HandlesReleased`): `HeldInv` says for each place of
  `nativeExtractFrame` what may be allocated there; each exit's list covers it.
- `FrameIsTheBest` (`BestFrame`): `FrameInv` adds the limits at each place of the
  two loops (`DecodeInv`: below them and nothing selected while a frame is asked
  for) and that nothing is offered before the target is settled (`OfferInv`).
- `BitmapsAreWhole` (`BitmapIsWhole`): the bitmap is `BitmapOf` some shape and
  angle; that this covers every pixel, for every shape, angle and maximum side, is
  an argument about the scaling (no side becomes 0 or exceeds the maximum) and
  about each of the four rotations.
- `Typing` (`TypeOK`), which bounds the ranges, the bytes of FFmpeg's reads, the
  packets and the frames: `BudgetInv` adds that a read under way asks for no more
  than is left of the budget.

**QuarkDAV** (three modules)

- `Typing` (`TypeOK`) is inductive alone; its second half, that nothing of a
  closed service object stays, is what the later proofs use of `onDestroy`.
- `StatusRefined` (`StatusMachine`): every step of the supervisor is, under the
  mapping `Shown`, a step of `RemoteStatus` for every remote or none. `Control`
  adds who waits for whom: a call belongs to the task that made it, a task that
  announces or beats holds ready kernels only, one that writes a process number
  back has a supervised kernel unless the service is closing, and a form has a
  file.
- `AlwaysOneKernel` (`OneKernel`): a launch needs to know that nothing has been
  started since `terminateStaleKernel`. `KernelInv` adds that between the two no
  kernel of the remote is alive but those the search has met and a ghost's
  (`Cleared`). That it never meets the supervised one is `Spared`: while a call
  to `startProcess` is under way its remote has no holder.
- `AlwaysConverged` (`Converged`): the property speaks of a service at rest, so
  `ConvergedInv` says what holds under way: each holder, launch and remaining
  start either agrees with the metadata or a request for its remote still waits
  (`Agreement`), a holder knows what its kernel runs with unless it has adopted
  an edit (`HolderKnows`), and a remote that was off when its form was opened
  stays off while it is open (`FormIsOff`).

**`RcdJobsProofs`, `RcdHandlersProofs`**

- `RunningJobsAreTracked` (`JobsAreTracked`), with `TrackInv`: what the monitor
  holds at each of its places, and that only submitted jobs run.
- `TrimsSpareRunningJobs` (the action property `TrimSparesRunning`), from the same:
  between two passes the monitor holds nothing, so the queue is all there is.
- `IdsInOnePlace` (`TypeOK`): `TypeInv` adds that no id is twice among queue,
  hand and kept ids (`HeldOnce`), and that what is held was queued by its own
  thread (`HeldIsQueued`), which queues once.
- `HandlersRunOnce` (`HandledAtMostOnce`): `HandlerInv` follows a handler through
  the racing appends: it is filed in one place, perhaps under another job's id
  (`FiledOnce`); once posted it is filed under no id that will be polled again
  (`AnswerIsFinal`); it has run, or waits in one message (`OneAnswer`).

The library's induction theorems cannot be instantiated by the installed provers.
Where an argument is by induction over a number (sums of sizes, the
first cached range, the least element of a set), it uses the well-foundedness of
the natural numbers on the *set* of numbers for which a statement holds
(`LeastOf`, `UpTo`). For the same reason `Bytes` is a recursive function and no
RECURSIVE operator: such a function is some solution of its equation, and the
lemmas first show that there is one (`SumsExist`) and that all agree.

Only model-checked: the liveness properties `EveryRequestAnswered`,
`EveryClearFinishes`, `OverLimitIsTrimmed`, `ExtractionEnds`, `StartsAreAnswered`,
`FinishedIsHandled` and `QueueDrains`. They rest on fairness, and with it on
ENABLED, which the prover does not handle.

## Not modelled

- In modelled components: export and the archive format; saturation of byte
  sums at 2^63; exceptions that escape a task and `Error`s in TR; a thumbnail
  file that cannot be replaced during an import; temporary files left by a
  crash; the walk of the pre-generation service; what the sections above name.
- `SyncWorker`, `EphemeralWorker` and their follow-up tasks: planned. They have a
  clean-up that `onStopped` and `doWork` may run at once, a receiver that one
  path never unregisters, and a failure reason any broadcast overwrites.
- `TriggerService`: arithmetic on one alarm, with no state of its own.
- The QuarkDAV kernel in Go: locks (`LOCK` checks and creates in two critical
  sections), directory cache and drive client.
- `VirtualContentProvider`'s `MaxWait`: a wait on one object, a notification of
  another; what follows is time, and time is in no module.
- `Rclone`'s other commands, streaming, safdav, the user interface, database,
  logging and settings: presentation, storage or thin wrappers.
- `src/rclone` and `src/ffmpeg/ffmpeg-src`: third-party programs. They are by far
  the largest part of the tree, so the modules above describe a small share of
  all its lines although they cover the project's own concurrent code.

## Plan

1. Theorems: an abstract scheduler that coalesces requests, which the trims and
   the statistics refreshes of `CacheMaintenance` both implement; an abstract
   cache (a key is absent, made or imported) that `ThumbnailCache` implements;
   the safety half of the liveness properties as invariants (whoever waits has
   somebody awake to wait for).
2. `SyncLifecycle`: worker, stop, receiver, follow-ups, and the arithmetic of
   triggers.
3. `DavLocks`: check and creation of locks, expiry, depth.
4. The pre-generation walk, as a refinement of the thread in `ThumbnailCache`,
   so that its counters can be checked against the folders it has visited.

The order is by what a failure costs the user: a wrong follow-up, a lock given
twice, a walk that stops early.
