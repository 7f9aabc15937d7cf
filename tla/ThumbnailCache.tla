--------------------------- MODULE ThumbnailCache ---------------------------
(***************************************************************************)
(* ThumbnailRepository.java: how the main thread, the worker pool, the     *)
(* pre-generation thread and the maintenance thread share the in-flight    *)
(* table, the thumbnail files, the 12-hour failure markers and the decoded *)
(* bitmaps, while the cache is cleared, imported into or switched off.     *)
(*                                                                         *)
(* A thumbnail's pixels are abstracted to where they came from: the kind   *)
(* of writer and the cache generation it wrote under.  Statistics and the  *)
(* scheduling of trims are the subject of module CacheMaintenance.         *)
(***************************************************************************)
EXTENDS Integers, Sequences, FiniteSets

CONSTANTS Keys,          \* request keys: one per version of a remote file
          Types,         \* the media types, each with its own CacheStore
          VideoTypes,    \* the types whose thumbnails can be regenerated
          TypeOf,        \* [Keys -> Types]
          Stripe,        \* the request lock of a key (32 striped locks)
          LoadRequests,  \* calls of load()
          RegenRequests, \* calls of regenerateVideoThumbnail()
          Workers,       \* threads of the executor
          PreGenThread,  \* the thread of ThumbnailPreGenerationService
          None,
          MaxBumps,      \* bound: generation bumps the user causes
          MaxTrims,      \* bound: trims
          MaxPasses      \* bound: files visited by pre-generation

Requests == LoadRequests \cup RegenRequests
Threads == Workers \cup {PreGenThread}

ASSUME KeysAssumption == TypeOf \in [Keys -> Types] /\ VideoTypes \subseteq Types
ASSUME NoneAssumption == None \notin Keys \cup Types \cup Requests
ASSUME RequestAssumption == LoadRequests \cap RegenRequests = {}
ASSUME ThreadAssumption == PreGenThread \notin Workers
ASSUME BoundAssumption == MaxBumps \in Nat /\ MaxTrims \in Nat /\ MaxPasses \in Nat

VARIABLES
  enabled,   \* enabled[t]: the preference "show thumbnails of type t"
  notice,    \* the type whose preference listener the main thread is running
  gen,       \* gen[t]: cacheGeneration of the store
  ready,     \* cacheInitializationLatch is open
  thumb,     \* thumb[k]: the file k.thumb
  marker,    \* marker[k]: the file k.failed while it is younger than 12 hours
  mem,       \* mem[k]: the decoded bitmap in the memory LRU
  asked,     \* asked[r]: the key request r was made for
  cancelled, \* requests whose Cancellable was cancelled
  answers,   \* answers[r]: callbacks posted for request r
  inFlight,  \* inFlight[k]: the requests waiting for k; {} when k is absent
  queued,    \* jobs in the executor's queue
  thread,    \* thread[w]: where a thread is and what it works on
  tasks,     \* calls waiting for the maintenance thread, first in first out
  maint,     \* where the maintenance thread is and what it works on
  cleared,   \* cleared[t]: generation announced by the last finished clear
  spent      \* consumed bounds

switchVars == <<enabled, notice, gen>>
diskVars == <<thumb, marker>>
requestVars == <<asked, cancelled, answers, inFlight>>
maintVars == <<tasks, maint, cleared, ready>>
vars == <<switchVars, diskVars, mem, requestVars, queued, thread, maintVars, spent>>

-----------------------------------------------------------------------------
File == [kind : {"none", "corrupt", "made", "imported"}, gen : Nat]
NoFile == [kind |-> "none", gen |-> 0]
Usable(f) == f.kind \in {"made", "imported"}

Kinds == {"none", "load", "regen", "pregen"}
Causes == {"none", "vanished", "disabled", "stale"}
Marker == [state : {"none", "failed"}, cause : Causes, by : Kinds]
NoMarker == [state |-> "none", cause |-> "none", by |-> "none"]

\* A generation of -1 is read by the thread that runs the job, not by load().
Unread == -1
Generation == Nat \cup {Unread}

Job == [kind : Kinds, key : Keys, gen : Generation, by : Requests]

\* kind, key, gen: the job.  show: the thumbnail is resolved and may be
\* displayed.  cause: what interfered with its generation.  batch: requests
\* still to be answered.  serving: the one being decoded for.  bitmap: what
\* has been decoded for this batch.
ThreadState ==
  [pc : {"idle", "lock", "probe", "extract", "check", "writing", "verify",
         "failed", "mark", "collect", "deliver", "put"},
   kind : Kinds, key : Keys \cup {None}, gen : Generation,
   show : BOOLEAN, cause : Causes, batch : SUBSET Requests,
   serving : Requests \cup {None}, bitmap : File]
IdleThread ==
  [pc |-> "idle", kind |-> "none", key |-> None, gen |-> Unread,
   show |-> FALSE, cause |-> "none", batch |-> {}, serving |-> None,
   bitmap |-> NoFile]

Task == [op : {"clear", "import"}, type : Types, gen : Nat, keys : SUBSET Keys]
MaintState == [pc : {"idle", "wipe", "import"}, type : Types \cup {None},
               gen : Nat, keys : SUBSET Keys]
IdleMaint == [pc |-> "idle", type |-> None, gen |-> 0, keys |-> {}]

KeysOf(t) == {k \in Keys : TypeOf[k] = t}
KeyType(w) == TypeOf[thread[w].key]
MainFree == notice = None
HoldsRequestLock(w) == thread[w].pc \notin {"idle", "lock"}

\* A thread that works has a key; one past the request lock has a generation.
SoundState ==
  {s \in ThreadState : /\ s.pc # "idle" => s.key \in Keys
                       /\ s.pc \notin {"idle", "lock"} => s.gen \in Nat
                       /\ s.pc = "put" => s.serving \in Requests}

SwitchesTyped ==
  /\ enabled \in [Types -> BOOLEAN] /\ notice \in Types \cup {None}
  /\ gen \in [Types -> Nat] /\ ready \in BOOLEAN
CacheTyped ==
  thumb \in [Keys -> File] /\ marker \in [Keys -> Marker] /\ mem \in [Keys -> File]
RequestsTyped ==
  /\ asked \in [Requests -> Keys \cup {None}] /\ cancelled \subseteq Requests
  /\ answers \in [Requests -> Nat] /\ inFlight \in [Keys -> SUBSET Requests]
ThreadsTyped == queued \subseteq Job /\ thread \in [Threads -> SoundState]
MaintTyped ==
  /\ tasks \in Seq(Task) /\ maint \in MaintState
  /\ maint.pc # "idle" => maint.type \in Types
  /\ cleared \in [Types -> Nat]
  /\ spent \in [bumps : Nat, trims : Nat, passes : Nat]

TypeOK == SwitchesTyped /\ CacheTyped /\ RequestsTyped /\ ThreadsTyped /\ MaintTyped

\* A process start finds whatever files an earlier run left behind.
Init ==
  /\ enabled = [t \in Types |-> TRUE] /\ notice = None
  /\ gen = [t \in Types |-> 0] /\ ready = FALSE
  /\ thumb \in [Keys -> {NoFile, [kind |-> "corrupt", gen |-> 0], [kind |-> "made", gen |-> 0]}]
  /\ marker = [k \in Keys |-> NoMarker]
  /\ mem = [k \in Keys |-> NoFile]
  /\ asked = [r \in Requests |-> None] /\ cancelled = {}
  /\ answers = [r \in Requests |-> 0]
  /\ inFlight = [k \in Keys |-> {}]
  /\ queued = {} /\ thread = [w \in Threads |-> IdleThread]
  /\ tasks = <<>> /\ maint = IdleMaint
  /\ cleared = [t \in Types |-> 0]
  /\ spent = [bumps |-> 0, trims |-> 0, passes |-> 0]

-----------------------------------------------------------------------------
(* Locks.  A thread owns the request lock of its key from "lock" on; the   *)
(* disk lock of a store is held across two steps only by a thread that is  *)
(* writing a thumbnail and by a clear that is deleting files.              *)

\* Mutant: a request lock that keeps nobody out.
RequestLockIgnored(k) == k \in Keys

RequestLockFree(k) ==
  \A w \in Threads : HoldsRequestLock(w) => Stripe[thread[w].key] # Stripe[k]

DiskLockFree(t) ==
  /\ \A w \in Threads : thread[w].pc = "writing" => KeyType(w) # t
  /\ maint.pc = "wipe" => maint.type # t

Current(w) == thread[w].gen = gen[KeyType(w)]

\* Memory entries of type t are evicted by LruCache.evictAll().
EvictAll(t) == [k \in Keys |-> IF TypeOf[k] = t THEN NoFile ELSE mem[k]]

Post(S) == [r \in Requests |-> IF r \in S THEN answers[r] + 1 ELSE answers[r]]

-----------------------------------------------------------------------------
(* The main thread: the user interface and the preference listener.        *)

\* Mutant: every request starts a job.
AlwaysStartsWork(k) == k \in Keys

StartsWork(k) == inFlight[k] = {}

NewLoad(r, k) ==
  /\ inFlight' = [inFlight EXCEPT ![k] = @ \cup {r}]
  /\ IF StartsWork(k)
     THEN queued' = queued \cup
            {[kind |-> "load", key |-> k, by |-> r,
              gen |-> IF ready THEN gen[TypeOf[k]] ELSE Unread]}
     ELSE UNCHANGED queued
  /\ UNCHANGED answers

Load(r, k) ==
  /\ MainFree /\ r \in LoadRequests /\ asked[r] = None
  /\ asked' = [asked EXCEPT ![r] = k]
  /\ IF ~enabled[TypeOf[k]] \/ mem[k] # NoFile
     THEN answers' = Post({r}) /\ UNCHANGED <<inFlight, queued>>
     ELSE NewLoad(r, k)
  /\ UNCHANGED <<switchVars, diskVars, mem, cancelled, thread, maintVars, spent>>

\* Recycled views cancel; a request that was answered at once has no handle.
Cancel(r) ==
  /\ MainFree /\ r \in LoadRequests \ cancelled
  /\ asked[r] # None /\ answers[r] = 0
  /\ cancelled' = cancelled \cup {r}
  /\ UNCHANGED <<switchVars, diskVars, mem, asked, answers, inFlight, queued,
                 thread, maintVars, spent>>

Regenerate(r, k) ==
  /\ MainFree /\ r \in RegenRequests /\ asked[r] = None
  /\ TypeOf[k] \in VideoTypes
  /\ asked' = [asked EXCEPT ![r] = k]
  /\ IF enabled[TypeOf[k]]
     THEN /\ queued' = queued \cup
               {[kind |-> "regen", key |-> k, gen |-> Unread, by |-> r]}
          /\ UNCHANGED answers
     ELSE answers' = Post({r}) /\ UNCHANGED queued
  /\ UNCHANGED <<switchVars, diskVars, mem, cancelled, inFlight, thread,
                 maintVars, spent>>

\* The new value is visible to every thread before the listener runs on the
\* main thread, which does nothing else in between.
SetEnabled(t, on) ==
  /\ MainFree /\ enabled[t] # on
  /\ on \/ spent.bumps < MaxBumps
  /\ enabled' = [enabled EXCEPT ![t] = on]
  /\ notice' = t
  /\ spent' = [spent EXCEPT !.bumps = IF on THEN @ ELSE @ + 1]
  /\ UNCHANGED <<gen, diskVars, mem, requestVars, queued, thread, maintVars>>

PreferenceListener ==
  /\ notice \in Types
  /\ IF enabled[notice]
     THEN UNCHANGED <<gen, mem>>
     ELSE /\ gen' = [gen EXCEPT ![notice] = @ + 1]
          /\ mem' = EvictAll(notice)
  /\ notice' = None
  /\ UNCHANGED <<enabled, diskVars, requestVars, queued, thread, maintVars, spent>>

ClearCache(t) ==
  /\ MainFree /\ spent.bumps < MaxBumps
  /\ gen' = [gen EXCEPT ![t] = @ + 1]
  /\ tasks' = Append(tasks, [op |-> "clear", type |-> t, gen |-> gen[t] + 1, keys |-> {}])
  /\ spent' = [spent EXCEPT !.bumps = @ + 1]
  /\ UNCHANGED <<enabled, notice, diskVars, mem, requestVars, queued, thread,
                 maint, cleared, ready>>

\* S: the keys of the usable entries of the chosen archive.
ImportCache(t, S) ==
  /\ MainFree /\ spent.bumps < MaxBumps
  /\ tasks' = Append(tasks, [op |-> "import", type |-> t, gen |-> 0, keys |-> S])
  /\ spent' = [spent EXCEPT !.bumps = @ + 1]
  /\ UNCHANGED <<switchVars, diskVars, mem, requestVars, queued, thread,
                 maint, cleared, ready>>

-----------------------------------------------------------------------------
(* The maintenance thread, single and first in first out.                  *)

\* The first task: version markers that do not match wipe a directory.
InitializeCaches(M) ==
  /\ ~ready /\ ready' = TRUE
  /\ gen' = [t \in Types |-> IF t \in M THEN gen[t] + 1 ELSE gen[t]]
  /\ mem' = [k \in Keys |-> IF TypeOf[k] \in M THEN NoFile ELSE mem[k]]
  /\ thumb' = [k \in Keys |-> IF TypeOf[k] \in M THEN NoFile ELSE thumb[k]]
  /\ marker' = [k \in Keys |-> IF TypeOf[k] \in M THEN NoMarker ELSE marker[k]]
  /\ UNCHANGED <<enabled, notice, requestVars, queued, thread, tasks, maint,
                 cleared, spent>>

NextTask(op) ==
  /\ ready /\ maint.pc = "idle" /\ tasks # <<>> /\ Head(tasks).op = op
  /\ tasks' = Tail(tasks)

\* Mutant: a clear that a later generation has overtaken is skipped.
SkipOvertakenClear ==
  /\ NextTask("clear")
  /\ LET c == Head(tasks) IN
       IF c.gen # gen[c.type] THEN UNCHANGED <<mem, maint>>
       ELSE /\ DiskLockFree(c.type)
            /\ mem' = EvictAll(c.type)
            /\ maint' = [pc |-> "wipe", type |-> c.type, gen |-> c.gen, keys |-> {}]
  /\ UNCHANGED <<switchVars, diskVars, requestVars, queued, thread, cleared, ready, spent>>

\* clearCache: takes the disk lock and drops the decoded bitmaps, ...
StartClear ==
  /\ NextTask("clear")
  /\ LET c == Head(tasks) IN
       /\ DiskLockFree(c.type)
       /\ mem' = EvictAll(c.type)
       /\ maint' = [pc |-> "wipe", type |-> c.type, gen |-> c.gen, keys |-> {}]
  /\ UNCHANGED <<switchVars, diskVars, requestVars, queued, thread, cleared, ready, spent>>

\* ... then deletes thumbnails, markers and the source files being read.
Wipe ==
  /\ maint.pc = "wipe"
  /\ thumb' = [k \in Keys |-> IF TypeOf[k] = maint.type THEN NoFile ELSE thumb[k]]
  /\ marker' = [k \in Keys |-> IF TypeOf[k] = maint.type THEN NoMarker ELSE marker[k]]
  /\ thread' = [w \in Threads |->
       IF thread[w].pc = "extract" /\ KeyType(w) = maint.type /\ maint.type \notin VideoTypes
       THEN [thread[w] EXCEPT !.cause = "vanished"] ELSE thread[w]]
  /\ cleared' = [cleared EXCEPT ![maint.type] = maint.gen]
  /\ maint' = IdleMaint
  /\ UNCHANGED <<switchVars, mem, requestVars, queued, tasks, ready, spent>>

\* The first usable entry makes running jobs stale before anything is written.
StartImport ==
  /\ NextTask("import")
  /\ LET i == Head(tasks) IN
       /\ gen' = [gen EXCEPT ![i.type] = @ + 1]
       /\ mem' = EvictAll(i.type)
       /\ maint' = [pc |-> "import", type |-> i.type, gen |-> gen[i.type] + 1, keys |-> i.keys]
  /\ UNCHANGED <<enabled, notice, diskVars, requestVars, queued, thread, cleared, ready, spent>>

\* Mutant: the bitmap of a replaced thumbnail stays in memory.
EvictNothing(k) == mem

EvictEntry(k) == [mem EXCEPT ![k] = NoFile]

ImportEntry(k) ==
  /\ maint.pc = "import" /\ k \in maint.keys
  /\ RequestLockFree(k) /\ DiskLockFree(maint.type)
  /\ thumb' = [thumb EXCEPT ![k] = [kind |-> "imported", gen |-> maint.gen]]
  /\ mem' = EvictEntry(k)
  /\ maint' = [maint EXCEPT !.keys = @ \ {k}]
  /\ UNCHANGED <<switchVars, marker, requestVars, queued, thread, tasks, cleared, ready, spent>>

\* The archive ends, or an entry that cannot be read or written ends it.
EndImport ==
  /\ maint.pc = "import"
  /\ maint' = IdleMaint
  /\ UNCHANGED <<switchVars, diskVars, mem, requestVars, queued, thread, tasks, cleared, ready, spent>>

\* trimDiskCache: the least recently used thumbnails, here any of them.
Trim(t, S) ==
  /\ ready /\ maint.pc = "idle" /\ spent.trims < MaxTrims
  /\ DiskLockFree(t)
  /\ thumb' = [k \in Keys |-> IF k \in S THEN NoFile ELSE thumb[k]]
  /\ spent' = [spent EXCEPT !.trims = @ + 1]
  /\ UNCHANGED <<switchVars, marker, mem, requestVars, queued, thread, maintVars>>

\* Twelve hours pass: the marker no longer counts as recent.
Expire(k) ==
  /\ marker[k].state = "failed"
  /\ marker' = [marker EXCEPT ![k] = NoMarker]
  /\ UNCHANGED <<switchVars, thumb, mem, requestVars, queued, thread, maintVars, spent>>

-----------------------------------------------------------------------------
(* The threads that produce thumbnails: loadOrGenerate and the manual      *)
(* regeneration on the executor, preGenerateThumbnail on its own thread.   *)

Set(w, s) == thread' = [thread EXCEPT ![w] = s]
Goto(w, l) == Set(w, [thread[w] EXCEPT !.pc = l])

\* What the steps between the locks leave alone.
Elsewhere == UNCHANGED <<switchVars, asked, cancelled, queued, maintVars, spent>>
NoRequests == UNCHANGED <<answers, inFlight>>

\* A load that was queued before the caches were ready reads the generation now.
Dequeue(w, j) ==
  /\ ready /\ w \in Workers /\ thread[w].pc = "idle" /\ j \in queued
  /\ queued' = queued \ {j}
  /\ Set(w, [IdleThread EXCEPT !.pc = "lock", !.kind = j.kind, !.key = j.key,
       !.gen = IF j.kind = "load" /\ j.gen = Unread THEN gen[TypeOf[j.key]] ELSE j.gen,
       !.batch = IF j.kind = "regen" THEN {j.by} ELSE {}])
  /\ UNCHANGED <<switchVars, diskVars, mem, requestVars, maintVars, spent>>

\* The service checks the switch before and after it takes the request lock.
PreGenerate(k) ==
  /\ ready /\ thread[PreGenThread].pc = "idle" /\ spent.passes < MaxPasses
  /\ enabled[TypeOf[k]]
  /\ Set(PreGenThread, [IdleThread EXCEPT !.pc = "lock", !.kind = "pregen", !.key = k])
  /\ spent' = [spent EXCEPT !.passes = @ + 1]
  /\ UNCHANGED <<switchVars, diskVars, mem, requestVars, queued, maintVars>>

Waiting(w, kind) ==
  /\ thread[w].pc = "lock" /\ thread[w].kind = kind
  /\ RequestLockFree(thread[w].key)

\* Mutant: the requests are dropped without an answer.
DropLoad(w) ==
  /\ inFlight' = [inFlight EXCEPT ![thread[w].key] = {}]
  /\ Set(w, IdleThread) /\ UNCHANGED answers

\* Mutant: an early return that leaves the in-flight entry behind.
LeakLoad(w) == Set(w, IdleThread) /\ NoRequests

\* completeRequestsWithNull and discardIfNoActiveRequests.
AbandonLoad(w) ==
  /\ inFlight' = [inFlight EXCEPT ![thread[w].key] = {}]
  /\ answers' = Post(inFlight[thread[w].key] \ cancelled)
  /\ Set(w, IdleThread)

LockLoad(w) ==
  /\ Waiting(w, "load")
  /\ IF Current(w) /\ enabled[KeyType(w)] /\ inFlight[thread[w].key] \ cancelled # {}
     THEN Goto(w, "probe") /\ NoRequests
     ELSE AbandonLoad(w)
  /\ Elsewhere /\ UNCHANGED <<diskVars, mem>>

LockPreGenerate(w) ==
  /\ Waiting(w, "pregen")
  /\ IF enabled[KeyType(w)]
     THEN Set(w, [thread[w] EXCEPT !.pc = "probe", !.gen = gen[KeyType(w)]])
     ELSE Set(w, IdleThread)
  /\ Elsewhere /\ NoRequests /\ UNCHANGED <<diskVars, mem>>

\* Mutant: a regeneration keeps the generation it was queued with.
GenerationWhenQueued(w) == thread[w].gen

GenerationNow(w) == gen[KeyType(w)]

\* A regeneration forgets everything known about the key before it starts.
LockRegenerate(w) ==
  /\ Waiting(w, "regen") /\ DiskLockFree(KeyType(w))
  /\ mem' = EvictEntry(thread[w].key)
  /\ thumb' = [thumb EXCEPT ![thread[w].key] = NoFile]
  /\ marker' = [marker EXCEPT ![thread[w].key] = NoMarker]
  /\ Set(w, [thread[w] EXCEPT !.pc = "extract", !.gen = GenerationNow(w)])
  /\ Elsewhere /\ NoRequests

\* Where a thread goes once its thumbnail is resolved, and once it is not.
Resolved(w) ==
  CASE thread[w].kind = "load"  -> [thread[w] EXCEPT !.pc = "collect", !.show = TRUE]
    [] thread[w].kind = "regen" -> [thread[w] EXCEPT !.pc = "deliver", !.show = TRUE]
    [] OTHER                    -> IdleThread
Unresolved(w) ==
  CASE thread[w].kind = "load"  -> [thread[w] EXCEPT !.pc = "collect", !.show = FALSE]
    [] thread[w].kind = "regen" -> [thread[w] EXCEPT !.pc = "deliver", !.show = FALSE]
    [] OTHER                    -> IdleThread

Probe(w) ==
  /\ thread[w].pc = "probe"
  /\ LET k == thread[w].key IN
       \/ /\ Usable(thumb[k])
          /\ marker' = [marker EXCEPT ![k] = NoMarker]
          /\ Set(w, Resolved(w)) /\ UNCHANGED thumb
       \/ /\ ~Usable(thumb[k]) /\ DiskLockFree(KeyType(w))
          /\ thumb' = [thumb EXCEPT ![k] = NoFile]
          /\ Set(w, IF marker[k].state = "failed" THEN Unresolved(w)
                    ELSE [thread[w] EXCEPT !.pc = "extract"])
          /\ UNCHANGED marker
  /\ Elsewhere /\ NoRequests /\ UNCHANGED mem

\* What a thread fails at, or that its generation was already over by then.
Blame(w, c) == IF Current(w) THEN c ELSE "stale"

\* Downloading and decoding; a source file deleted underneath cannot be read.
Extract(w) ==
  /\ thread[w].pc = "extract"
  /\ \/ thread[w].cause = "none" /\ Goto(w, "check")
     \/ Set(w, [thread[w] EXCEPT !.pc = "failed", !.cause = Blame(w, @)])
  /\ Elsewhere /\ NoRequests /\ UNCHANGED <<diskVars, mem>>

\* Mutant: the generation is not compared before the thumbnail is written.
WantedIfEnabled(w) == enabled[KeyType(w)]

Wanted(w) == Current(w) /\ enabled[KeyType(w)]

\* generateThumbnail, under the disk lock: is the result still wanted?
CheckBeforeWrite(w) ==
  /\ thread[w].pc = "check" /\ DiskLockFree(KeyType(w))
  /\ IF Wanted(w)
     THEN Goto(w, "writing")
     ELSE Set(w, [thread[w] EXCEPT !.pc = "failed",
                    !.cause = Blame(w, "disabled")])
  /\ Elsewhere /\ NoRequests /\ UNCHANGED <<diskVars, mem>>

WriteThumbnail(w) ==
  /\ thread[w].pc = "writing"
  /\ \/ /\ thumb' = [thumb EXCEPT ![thread[w].key] =
                       [kind |-> "made", gen |-> thread[w].gen]]
        /\ Goto(w, "verify")
     \/ /\ thumb' = [thumb EXCEPT ![thread[w].key] = NoFile]
        /\ Set(w, [thread[w] EXCEPT !.pc = "failed", !.cause = Blame(w, @)])
  /\ Elsewhere /\ NoRequests /\ UNCHANGED <<marker, mem>>

\* The file is opened again after the disk lock has been released.
Verify(w) ==
  /\ thread[w].pc = "verify"
  /\ Set(w, IF Usable(thumb[thread[w].key]) THEN Resolved(w)
            ELSE [thread[w] EXCEPT !.pc = "failed", !.cause = Blame(w, "vanished")])
  /\ Elsewhere /\ NoRequests /\ UNCHANGED <<diskVars, mem>>

\* Mutant: the generation is not compared before the file is blamed.
MarksIfEnabled(w) == thread[w].kind = "pregen" => enabled[KeyType(w)]

\* A regeneration deletes only while its generation is current, and
\* pre-generation looks at the switch again before it blames the file.
MayMark(w) ==
  /\ Current(w)
  /\ thread[w].kind = "pregen" => enabled[KeyType(w)]

GiveUp(w) ==
  /\ thread[w].pc = "failed" /\ DiskLockFree(KeyType(w))
  /\ thumb' = IF thread[w].kind = "regen" /\ ~Current(w) THEN thumb
              ELSE [thumb EXCEPT ![thread[w].key] = NoFile]
  /\ Set(w, IF MayMark(w) THEN [thread[w] EXCEPT !.pc = "mark"] ELSE Unresolved(w))
  /\ Elsewhere /\ NoRequests /\ UNCHANGED <<marker, mem>>

MarkFailure(w) ==
  /\ thread[w].pc = "mark"
  /\ marker' = [marker EXCEPT ![thread[w].key] =
       [state |-> "failed", cause |-> thread[w].cause, by |-> thread[w].kind]]
  /\ Set(w, Unresolved(w))
  /\ Elsewhere /\ NoRequests /\ UNCHANGED <<thumb, mem>>

\* The key leaves the in-flight table: later requests start a job of their own.
Collect(w) ==
  /\ thread[w].pc = "collect"
  /\ inFlight' = [inFlight EXCEPT ![thread[w].key] = {}]
  /\ Set(w, [thread[w] EXCEPT !.pc = "deliver", !.batch = inFlight[thread[w].key],
               !.show = @ /\ Current(w) /\ enabled[KeyType(w)]])
  /\ Elsewhere /\ UNCHANGED <<answers, diskVars, mem>>

\* One request of the batch: skipped, answered with null, or decoded for, which
\* may yield nothing although the file is there.
Decode(w, r) ==
  /\ thread[w].pc = "deliver" /\ r \in thread[w].batch
  /\ LET rest == [thread[w] EXCEPT !.batch = @ \ {r}] IN
       \/ r \in cancelled /\ Set(w, rest) /\ UNCHANGED answers
       \/ r \notin cancelled /\ ~thread[w].show /\ Set(w, rest) /\ answers' = Post({r})
       \/ /\ r \notin cancelled /\ thread[w].show
          /\ \E b \in {thumb[thread[w].key], NoFile} :
               Set(w, [rest EXCEPT !.pc = "put", !.serving = r,
                         !.bitmap = IF @ = NoFile THEN b ELSE @])
          /\ UNCHANGED answers
  /\ Elsewhere /\ UNCHANGED <<inFlight, diskVars, mem>>

\* Neither the generation nor the switch is looked at again before the put.
PutInMemory(w) ==
  /\ thread[w].pc = "put"
  /\ IF thread[w].bitmap = NoFile /\ thread[w].kind = "regen"
     THEN /\ Set(w, [thread[w] EXCEPT !.pc = "failed",
                       !.cause = Blame(w, IF thumb[thread[w].key] = NoFile THEN "vanished" ELSE "none"),
                       !.batch = @ \cup {thread[w].serving}, !.serving = None])
          /\ UNCHANGED <<answers, mem>>
     ELSE /\ Set(w, [thread[w] EXCEPT !.pc = "deliver", !.serving = None])
          /\ answers' = Post({thread[w].serving})
          /\ mem' = IF thread[w].bitmap = NoFile THEN mem
                    ELSE [mem EXCEPT ![thread[w].key] = thread[w].bitmap]
  /\ Elsewhere /\ UNCHANGED <<inFlight, diskVars>>

Unlock(w) ==
  /\ thread[w].pc = "deliver" /\ thread[w].batch = {}
  /\ Set(w, IdleThread)
  /\ Elsewhere /\ NoRequests /\ UNCHANGED <<diskVars, mem>>

-----------------------------------------------------------------------------
ThreadStep(w) ==
  \/ LockLoad(w) \/ LockPreGenerate(w) \/ LockRegenerate(w)
  \/ Probe(w) \/ Extract(w) \/ CheckBeforeWrite(w) \/ WriteThumbnail(w) \/ Verify(w)
  \/ GiveUp(w) \/ MarkFailure(w) \/ Collect(w)
  \/ \E r \in Requests : Decode(w, r)
  \/ PutInMemory(w) \/ Unlock(w)

MaintenanceStep ==
  \/ StartClear \/ Wipe \/ StartImport \/ EndImport
  \/ \E k \in Keys : ImportEntry(k)

MainStep ==
  \/ \E r \in Requests, k \in Keys : Load(r, k) \/ Regenerate(r, k)
  \/ \E r \in Requests : Cancel(r)
  \/ \E t \in Types, on \in BOOLEAN : SetEnabled(t, on)
  \/ PreferenceListener
  \/ \E t \in Types : ClearCache(t)
  \/ \E t \in Types : \E S \in SUBSET KeysOf(t) \ {{}} : ImportCache(t, S)

Next ==
  \/ MainStep
  \/ \E M \in SUBSET Types : InitializeCaches(M)
  \/ MaintenanceStep
  \/ \E t \in Types : \E S \in SUBSET KeysOf(t) : Trim(t, S)
  \/ \E k \in Keys : Expire(k) \/ PreGenerate(k)
  \/ \E w \in Threads, j \in queued : Dequeue(w, j)
  \/ \E w \in Threads : ThreadStep(w)

Spec == Init /\ [][Next]_vars

\* Threads keep running, a download ends (it has an idle timeout), and the
\* main looper runs the listener.  Users owe nothing.
Fairness ==
  /\ WF_vars(PreferenceListener)
  /\ WF_vars(\E M \in SUBSET Types : InitializeCaches(M))
  /\ WF_vars(MaintenanceStep)
  /\ \A w \in Threads : WF_vars(ThreadStep(w)) /\ WF_vars(\E j \in queued : Dequeue(w, j))

FairSpec == Spec /\ Fairness

-----------------------------------------------------------------------------
(* Properties *)

BeforeCollect ==
  {"lock", "probe", "extract", "check", "writing", "verify", "failed", "mark", "collect"}
QueuedLoads(k) == {j \in queued : j.kind = "load" /\ j.key = k}
RunningLoads(k) ==
  {w \in Threads : thread[w].kind = "load" /\ thread[w].pc \in BeforeCollect
                   /\ thread[w].key = k}

\* Concurrent requests for one file share one job: a key is in the in-flight
\* table exactly as long as one, and only one, load job for it is queued or has
\* not yet taken the waiting requests (load, loadOrGenerate).
OneJobPerKey ==
  \A k \in Keys :
    /\ \A i, j \in QueuedLoads(k) : i = j
    /\ \A v, w \in RunningLoads(k) : v = w
    /\ QueuedLoads(k) = {} \/ RunningLoads(k) = {}
    /\ inFlight[k] = {} <=> QueuedLoads(k) = {} /\ RunningLoads(k) = {}

Awaited(r) ==
  \/ r \in inFlight[asked[r]]
  \/ \E j \in queued : j.kind = "regen" /\ j.by = r
  \/ \E w \in Threads : r \in thread[w].batch \cup {thread[w].serving}

\* A request that was neither cancelled nor answered is still on its way, and
\* no callback is posted twice, whatever is cancelled, cleared, imported or
\* switched off meanwhile.
AnsweredOnceOrAwaited ==
  \A r \in Requests :
    /\ answers[r] <= 1
    /\ asked[r] # None /\ answers[r] = 0 /\ r \notin cancelled => Awaited(r)

\* What a finished clear deleted does not come back: no thumbnail written for
\* a generation older than the clear is found on disk (clearCache raises the
\* generation first, generateThumbnail compares it under the disk lock).
ClearedStaysCleared ==
  \A k \in Keys : thumb[k].kind # "none" => thumb[k].gen >= cleared[TypeOf[k]]

\* An imported thumbnail is shown from then on: no bitmap decoded before the
\* import is left in, or comes back to, the memory cache (importCacheInternal).
MemoryShowsImport ==
  \A k \in Keys : thumb[k].kind = "imported" /\ mem[k] # NoFile => mem[k] = thumb[k]

\* An imported thumbnail is removed only by a clear, a trim, another import or
\* the user's own regeneration, never by a job that was running meanwhile.
ImportedIsKept ==
  [][\A k \in Keys : thumb[k].kind = "imported" /\ thumb'[k] # thumb[k] =>
       \/ maint.pc = "wipe"
       \/ maint.pc = "import"
       \/ spent'.trims # spent.trims
       \/ \E w \in Threads : thread[w].pc = "lock" /\ thread[w].kind = "regen"]_vars

\* A job that fails, at whatever step, after a clear, an import or the switch ended
\* its generation leaves no 12-hour failure marker, and neither does a
\* pre-generation that the switch stopped (loadOrGenerate, preGenerateThumbnail,
\* regenerateVideoThumbnail).  Not claimed: a generation that ends between the last
\* comparison (GiveUp) and the write of the marker does leave one, and so does a
\* load that the switch stopped before its listener ended the generation.
MarkersOfLiveJobs ==
  \A k \in Keys : /\ marker[k].cause # "stale"
                  /\ ~(marker[k].cause = "disabled" /\ marker[k].by = "pregen")

\* Every request that is not cancelled gets its callback.
EveryRequestAnswered ==
  \A r \in Requests : asked[r] # None ~> answers[r] = 1 \/ r \in cancelled

\* A clear waits for the threads that write, and is carried out.
EveryClearFinishes ==
  \A t \in Types : \A g \in 1..MaxBumps + 1 :
    (\E i \in DOMAIN tasks : tasks[i].op = "clear" /\ tasks[i].type = t /\ tasks[i].gen = g)
      ~> cleared[t] >= g

\* THUMBNAIL_REDESIGN.md:36 and FFMPEG_THUMBNAIL_FALLBACK.md:69: the negative
\* cache is written when extraction failed, not because a clear took the source
\* or the thumbnail away from a generation that started after it was requested.
NegativeCacheIsEarned ==
  \A k \in Keys : marker[k].state = "failed" => marker[k].cause # "vanished"

\* strings.xml:649: clearing removes the in-memory and the on-disk cache.
ClearEmptiesMemory ==
  \A k \in Keys : mem[k] # NoFile => mem[k].gen >= cleared[TypeOf[k]]
=============================================================================
