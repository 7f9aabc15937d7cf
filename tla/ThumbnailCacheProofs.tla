------------------------ MODULE ThumbnailCacheProofs ------------------------
(***************************************************************************)
(* Proofs about ThumbnailCache, for every set of files, requests and       *)
(* threads and without the bounds the model checker needs.                 *)
(***************************************************************************)
EXTENDS ThumbnailCache, TLAPS

-----------------------------------------------------------------------------
(* Types.  TypeOK is inductive; it is a conjunction of parts, and a step is *)
(* looked at for the parts it disturbs.                                     *)

\* An idle thread is well typed (IdleThread).
LEMMA IdleIsSound == IdleThread \in SoundState
  BY DEF SoundState, IdleThread, ThreadState, Kinds, Generation, Unread, Causes, File, NoFile

\* Nothing on disk, no marker: the values files are reset to (NoFile, NoMarker).
LEMMA NothingTyped == NoFile \in File /\ NoMarker \in Marker
  BY DEF File, Marker, NoFile, NoMarker, Causes, Kinds

\* A step that gives one thread a well-typed state keeps all threads well typed.
LEMMA SetTyped ==
  ASSUME ThreadsTyped, NEW w \in Threads, NEW s \in SoundState, Set(w, s),
         queued' \subseteq Job
  PROVE  ThreadsTyped'
  BY DEF ThreadsTyped, Set

\* So does a step that only moves a thread past the request lock.
LEMMA GotoTyped ==
  ASSUME ThreadsTyped, NEW w \in Threads, NEW l, Goto(w, l), UNCHANGED queued,
         thread[w].pc # "idle", thread[w].gen \in Nat,
         l \in {"probe", "extract", "check", "writing", "verify", "failed", "mark", "collect"}
  PROVE  ThreadsTyped'
  <1> DEFINE s == [thread[w] EXCEPT !.pc = l]
  <1>1. s \in SoundState
    BY DEF ThreadsTyped, SoundState, ThreadState
  <1>2. Set(w, s)
    BY DEF Goto
  <1> QED
    BY <1>1, <1>2, SetTyped DEF ThreadsTyped

\* Answering a set of requests keeps the answers well typed (Post).
LEMMA PostTyped ==
  ASSUME RequestsTyped, NEW S
  PROVE  Post(S) \in [Requests -> Nat]
  BY DEF RequestsTyped, Post

\* The initial states are well typed.
LEMMA InitTyped == Init => TypeOK
  <1> SUFFICES ASSUME Init PROVE TypeOK
    OBVIOUS
  <1>1. SwitchesTyped /\ RequestsTyped
    BY DEF Init, SwitchesTyped, RequestsTyped
  <1>2. CacheTyped
    BY NothingTyped DEF Init, CacheTyped, File
  <1>3. ThreadsTyped
    BY IdleIsSound DEF Init, ThreadsTyped
  <1>4. MaintTyped
    BY DEF Init, MaintTyped, MaintState, IdleMaint
  <1> QED
    BY <1>1, <1>2, <1>3, <1>4 DEF TypeOK

-----------------------------------------------------------------------------
\* What the main thread does is well typed.
LEMMA MainTyped == TypeOK /\ MainStep => TypeOK'
  <1> SUFFICES ASSUME TypeOK, MainStep PROVE TypeOK'
    OBVIOUS
  <1> USE DEF TypeOK, switchVars, diskVars, requestVars, maintVars
  <1>1. ASSUME NEW r \in Requests, NEW k \in Keys, Load(r, k) PROVE TypeOK'
    <2>1. inFlight' \in [Keys -> SUBSET Requests]
      BY <1>1 DEF Load, NewLoad, RequestsTyped
    <2>2. answers' \in [Requests -> Nat] /\ asked' \in [Requests -> Keys \cup {None}]
      BY <1>1, PostTyped DEF Load, NewLoad, RequestsTyped
    <2>3. queued' \subseteq Job
      BY <1>1, KeysAssumption
      DEF Load, NewLoad, Job, Kinds, Generation, Unread, ThreadsTyped, SwitchesTyped
    <2> QED
      BY <1>1, <2>1, <2>2, <2>3
      DEF Load, SwitchesTyped, CacheTyped, RequestsTyped, ThreadsTyped, MaintTyped
  <1>2. ASSUME NEW r \in Requests, NEW k \in Keys, Regenerate(r, k) PROVE TypeOK'
    <2>1. answers' \in [Requests -> Nat] /\ asked' \in [Requests -> Keys \cup {None}]
      BY <1>2, PostTyped DEF Regenerate, RequestsTyped
    <2>2. queued' \subseteq Job
      BY <1>2 DEF Regenerate, Job, Kinds, Generation, Unread, ThreadsTyped
    <2> QED
      BY <1>2, <2>1, <2>2
      DEF Regenerate, SwitchesTyped, CacheTyped, RequestsTyped, ThreadsTyped, MaintTyped
  <1>3. ASSUME NEW r \in Requests, Cancel(r) PROVE TypeOK'
    BY <1>3 DEF Cancel, SwitchesTyped, CacheTyped, RequestsTyped, ThreadsTyped, MaintTyped
  <1>4. ASSUME NEW t \in Types, NEW on \in BOOLEAN, SetEnabled(t, on) PROVE TypeOK'
    <2>1. spent' \in [bumps : Nat, trims : Nat, passes : Nat]
      BY SMTT(30), <1>4 DEF SetEnabled, MaintTyped
    <2>2. SwitchesTyped'
      BY <1>4 DEF SetEnabled, SwitchesTyped
    <2> QED
      BY <1>4, <2>1, <2>2 DEF SetEnabled, CacheTyped, RequestsTyped, ThreadsTyped, MaintTyped
  <1>5. CASE PreferenceListener
    <2>1. gen' \in [Types -> Nat] /\ mem' \in [Keys -> File]
      BY <1>5, NothingTyped DEF PreferenceListener, EvictAll, SwitchesTyped, CacheTyped
    <2> QED
      BY <1>5, <2>1
      DEF PreferenceListener, SwitchesTyped, CacheTyped, RequestsTyped, ThreadsTyped, MaintTyped
  <1>6. ASSUME NEW t \in Types, ClearCache(t) PROVE TypeOK'
    <2>1. [op |-> "clear", type |-> t, gen |-> gen[t] + 1, keys |-> {}] \in Task
      BY DEF Task, SwitchesTyped
    <2>2. gen' \in [Types -> Nat]
      BY <1>6 DEF ClearCache, SwitchesTyped
    <2>3. spent' \in [bumps : Nat, trims : Nat, passes : Nat]
      BY <1>6 DEF ClearCache, MaintTyped
    <2>4. MaintTyped'
      BY <1>6, <2>1, <2>3 DEF ClearCache, MaintTyped
    <2> QED
      BY <1>6, <2>2, <2>4 DEF ClearCache, SwitchesTyped, CacheTyped, RequestsTyped, ThreadsTyped
  <1>7. ASSUME NEW t \in Types, NEW S \in SUBSET KeysOf(t) \ {{}}, ImportCache(t, S)
        PROVE  TypeOK'
    <2>1. [op |-> "import", type |-> t, gen |-> 0, keys |-> S] \in Task
      BY DEF Task, KeysOf
    <2>2. MaintTyped'
      BY <1>7, <2>1 DEF ImportCache, MaintTyped
    <2> QED
      BY <1>7, <2>2 DEF ImportCache, SwitchesTyped, CacheTyped, RequestsTyped, ThreadsTyped
  <1> QED
    BY <1>1, <1>2, <1>3, <1>4, <1>5, <1>6, <1>7 DEF MainStep

\* What the maintenance thread does is well typed.
LEMMA MaintenanceTyped == TypeOK /\ MaintenanceStep => TypeOK'
  <1> SUFFICES ASSUME TypeOK, MaintenanceStep PROVE TypeOK'
    OBVIOUS
  <1> USE DEF TypeOK, switchVars, diskVars, requestVars, maintVars
  <1> DEFINE t == maint.type
  <1>1. CASE StartClear
    <2>1. Head(tasks) \in Task /\ Tail(tasks) \in Seq(Task)
      BY <1>1 DEF StartClear, NextTask, MaintTyped
    <2>2. MaintTyped'
      BY <1>1, <2>1 DEF StartClear, NextTask, MaintTyped, MaintState, Task
    <2>3. CacheTyped'
      BY <1>1, NothingTyped DEF StartClear, EvictAll, CacheTyped
    <2> QED
      BY <1>1, <2>2, <2>3 DEF StartClear, SwitchesTyped, RequestsTyped, ThreadsTyped
  <1>2. CASE Wipe
    <2>1. maint \in MaintState /\ t \in Types /\ maint.gen \in Nat
      BY <1>2 DEF Wipe, MaintTyped, MaintState
    <2>2. MaintTyped'
      BY <1>2, <2>1 DEF Wipe, MaintTyped, MaintState, IdleMaint
    <2>3. CacheTyped'
      BY <1>2, NothingTyped DEF Wipe, CacheTyped
    <2>4. \A w \in Threads : [thread[w] EXCEPT !.cause = "vanished"] \in SoundState
      BY DEF ThreadsTyped, SoundState, ThreadState, Causes
    <2>5. ThreadsTyped'
      BY <1>2, <2>4 DEF Wipe, ThreadsTyped
    <2> QED
      BY <1>2, <2>2, <2>3, <2>5 DEF Wipe, SwitchesTyped, RequestsTyped
  <1>3. CASE StartImport
    <2>1. Head(tasks) \in Task /\ Tail(tasks) \in Seq(Task)
      BY <1>3 DEF StartImport, NextTask, MaintTyped
    <2> DEFINE i == Head(tasks)
    <2>2. [pc |-> "import", type |-> i.type, gen |-> gen[i.type] + 1, keys |-> i.keys]
            \in MaintState
      BY <2>1 DEF MaintState, Task, SwitchesTyped
    <2>3. MaintTyped'
      BY <1>3, <2>1, <2>2 DEF StartImport, NextTask, MaintTyped, MaintState, Task
    <2>4. CacheTyped'
      BY <1>3, NothingTyped DEF StartImport, EvictAll, CacheTyped
    <2>5. SwitchesTyped'
      BY <1>3, <2>1 DEF StartImport, NextTask, SwitchesTyped, Task
    <2> QED
      BY <1>3, <2>3, <2>4, <2>5 DEF StartImport, RequestsTyped, ThreadsTyped
  <1>4. CASE EndImport
    BY <1>4 DEF EndImport, IdleMaint, MaintState, SwitchesTyped, CacheTyped, RequestsTyped,
                ThreadsTyped, MaintTyped
  <1>5. ASSUME NEW k \in Keys, ImportEntry(k) PROVE TypeOK'
    <2>1. maint \in MaintState /\ t \in Types /\ maint.gen \in Nat
      BY <1>5 DEF ImportEntry, MaintTyped, MaintState
    <2>2. MaintTyped'
      BY <1>5, <2>1 DEF ImportEntry, MaintTyped, MaintState
    <2>3. [kind |-> "imported", gen |-> maint.gen] \in File
      BY <2>1 DEF File
    <2>4. CacheTyped'
      BY <1>5, <2>3, NothingTyped DEF ImportEntry, EvictEntry, CacheTyped
    <2> QED
      BY <1>5, <2>2, <2>4 DEF ImportEntry, SwitchesTyped, RequestsTyped, ThreadsTyped
  <1> QED
    BY <1>1, <1>2, <1>3, <1>4, <1>5 DEF MaintenanceStep

\* The first task, a trim, the passing of time and the start of a job are
\* well typed.
LEMMA OtherTyped ==
  ASSUME TypeOK,
         \/ \E M \in SUBSET Types : InitializeCaches(M)
         \/ \E t \in Types : \E S \in SUBSET KeysOf(t) : Trim(t, S)
         \/ \E k \in Keys : Expire(k) \/ PreGenerate(k)
         \/ \E w \in Threads, j \in queued : Dequeue(w, j)
  PROVE  TypeOK'
  <1> USE DEF TypeOK, switchVars, diskVars, requestVars, maintVars
  <1>1. ASSUME NEW M \in SUBSET Types, InitializeCaches(M) PROVE TypeOK'
    <2>1. SwitchesTyped'
      BY <1>1 DEF InitializeCaches, SwitchesTyped
    <2>2. CacheTyped'
      BY <1>1, NothingTyped DEF InitializeCaches, CacheTyped
    <2> QED
      BY <1>1, <2>1, <2>2 DEF InitializeCaches, RequestsTyped, ThreadsTyped, MaintTyped
  <1>2. ASSUME NEW t \in Types, NEW S \in SUBSET KeysOf(t), Trim(t, S) PROVE TypeOK'
    <2>1. CacheTyped'
      BY <1>2, NothingTyped DEF Trim, CacheTyped
    <2>2. spent' \in [bumps : Nat, trims : Nat, passes : Nat]
      BY <1>2 DEF Trim, MaintTyped
    <2> QED
      BY <1>2, <2>1, <2>2 DEF Trim, SwitchesTyped, RequestsTyped, ThreadsTyped, MaintTyped
  <1>3. ASSUME NEW k \in Keys, Expire(k) PROVE TypeOK'
    BY <1>3, NothingTyped
    DEF Expire, SwitchesTyped, CacheTyped, RequestsTyped, ThreadsTyped, MaintTyped
  <1>4. ASSUME NEW k \in Keys, PreGenerate(k) PROVE TypeOK'
    <2>1. [IdleThread EXCEPT !.pc = "lock", !.kind = "pregen", !.key = k] \in SoundState
      BY IdleIsSound DEF SoundState, IdleThread, ThreadState, Kinds
    <2>2. ThreadsTyped'
      BY <1>4, <2>1, SetTyped DEF PreGenerate, Threads, ThreadsTyped
    <2>3. spent' \in [bumps : Nat, trims : Nat, passes : Nat]
      <3>1. spent' = [spent EXCEPT !.passes = @ + 1]
        BY <1>4, Zenon DEF PreGenerate
      <3> QED
        BY <3>1 DEF MaintTyped
    <2> QED
      BY <1>4, <2>2, <2>3 DEF PreGenerate, SwitchesTyped, CacheTyped, RequestsTyped, MaintTyped
  <1>5. ASSUME NEW w \in Threads, NEW j \in queued, Dequeue(w, j) PROVE TypeOK'
    <2>1. j \in Job /\ gen[TypeOf[j.key]] \in Generation
      BY KeysAssumption DEF ThreadsTyped, Job, SwitchesTyped, Generation
    <2> DEFINE g == IF j.kind = "load" /\ j.gen = Unread THEN gen[TypeOf[j.key]] ELSE j.gen
               b == IF j.kind = "regen" THEN {j.by} ELSE {}
    <2>2. g \in Generation /\ b \in SUBSET Requests /\ j.kind \in Kinds /\ j.key \in Keys
      BY <2>1 DEF Job
    <2>3. [IdleThread EXCEPT !.pc = "lock", !.kind = j.kind, !.key = j.key, !.gen = g,
             !.batch = b] \in SoundState
      <3> HIDE DEF g, b
      <3> QED
        BY <2>2, IdleIsSound DEF SoundState, IdleThread, ThreadState
    <2>4. ThreadsTyped'
      BY <1>5, <2>3, SetTyped DEF Dequeue, ThreadsTyped
    <2> QED
      BY <1>5, <2>4 DEF Dequeue, SwitchesTyped, CacheTyped, RequestsTyped, MaintTyped
  <1> QED
    BY <1>1, <1>2, <1>3, <1>4, <1>5

-----------------------------------------------------------------------------
(* The threads that produce thumbnails. *)

\* A thread past the request lock has a key of some type and a generation, and
\* may be moved to another place (HoldsRequestLock).
LEMMA WorkingThread ==
  ASSUME ThreadsTyped, NEW w \in Threads, HoldsRequestLock(w)
  PROVE  /\ thread[w] \in SoundState /\ thread[w].key \in Keys /\ thread[w].gen \in Nat
         /\ KeyType(w) \in Types
         /\ thread[w].batch \in SUBSET Requests
         /\ \A c \in Causes : [thread[w] EXCEPT !.pc = "failed", !.cause = c] \in SoundState
  BY ZenonT(40), KeysAssumption DEF ThreadsTyped, SoundState, HoldsRequestLock, KeyType, ThreadState

\* Wherever a job ends, the thread is well typed (Resolved, Unresolved).
LEMMA EndTyped ==
  ASSUME ThreadsTyped, NEW w \in Threads, HoldsRequestLock(w)
  PROVE  Resolved(w) \in SoundState /\ Unresolved(w) \in SoundState
  <1>1. thread[w] \in ThreadState /\ thread[w].key \in Keys /\ thread[w].gen \in Nat
    BY WorkingThread DEF SoundState
  <1> DEFINE e(l, b) == [thread[w] EXCEPT !.pc = l, !.show = b]
  <1>2. \A l \in {"collect", "deliver"}, b \in BOOLEAN : e(l, b) \in SoundState
    BY <1>1 DEF SoundState, ThreadState
  <1>3. Resolved(w) \in {e("collect", TRUE), e("deliver", TRUE), IdleThread}
    BY DEF Resolved
  <1>4. Unresolved(w) \in {e("collect", FALSE), e("deliver", FALSE), IdleThread}
    BY DEF Unresolved
  <1> QED
    BY <1>2, <1>3, <1>4, IdleIsSound

\* Taking the request lock is well typed, for each kind of job.
LEMMA LockTyped ==
  ASSUME TypeOK, NEW w \in Threads, LockLoad(w) \/ LockPreGenerate(w) \/ LockRegenerate(w)
  PROVE  TypeOK'
  <1> USE DEF TypeOK, switchVars, diskVars, requestVars, maintVars, Elsewhere, NoRequests
  <1>1. /\ thread[w] \in SoundState /\ thread[w] \in ThreadState /\ thread[w].pc = "lock"
        /\ thread[w].key \in Keys /\ KeyType(w) \in Types /\ gen[KeyType(w)] \in Nat
    BY KeysAssumption DEF LockLoad, LockPreGenerate, LockRegenerate, Waiting, ThreadsTyped,
                          SoundState, KeyType, SwitchesTyped
  <1>2. CASE LockLoad(w)
    <2>1. CASE Goto(w, "probe") /\ NoRequests /\ Current(w)
      <3>1. thread[w].gen \in Nat
        BY <1>1, <2>1 DEF Current
      <3>2. ThreadsTyped'
        BY <1>1, <1>2, <2>1, <3>1, GotoTyped DEF LockLoad
      <3> QED
        BY <1>2, <2>1, <3>2 DEF LockLoad, SwitchesTyped, CacheTyped, RequestsTyped, MaintTyped
    <2>2. CASE AbandonLoad(w)
      <3>1. ThreadsTyped'
        BY <1>2, <2>2, IdleIsSound, SetTyped DEF LockLoad, AbandonLoad, ThreadsTyped
      <3>2. answers' \in [Requests -> Nat] /\ inFlight' \in [Keys -> SUBSET Requests]
        BY <2>2, PostTyped DEF AbandonLoad, RequestsTyped
      <3> QED
        BY <1>2, <3>1, <3>2 DEF LockLoad, SwitchesTyped, CacheTyped, RequestsTyped, MaintTyped
    <2> QED
      BY <1>2, <2>1, <2>2 DEF LockLoad
  <1>3. CASE LockPreGenerate(w)
    <2> DEFINE s == [thread[w] EXCEPT !.pc = "probe", !.gen = gen[KeyType(w)]]
    <2>1. s \in SoundState
      BY <1>1 DEF SoundState, ThreadState, Generation
    <2>2. ThreadsTyped'
      BY <1>3, <2>1, IdleIsSound, SetTyped DEF LockPreGenerate, ThreadsTyped
    <2> QED
      BY <1>3, <2>2 DEF LockPreGenerate, SwitchesTyped, CacheTyped, RequestsTyped, MaintTyped
  <1>4. CASE LockRegenerate(w)
    <2> DEFINE s == [thread[w] EXCEPT !.pc = "extract", !.gen = gen[KeyType(w)]]
    <2>1. s \in SoundState
      BY <1>1 DEF SoundState, ThreadState, Generation
    <2>2. ThreadsTyped'
      BY <1>4, <2>1, SetTyped DEF LockRegenerate, GenerationNow, ThreadsTyped
    <2>3. CacheTyped'
      BY <1>4, NothingTyped DEF LockRegenerate, EvictEntry, CacheTyped
    <2> QED
      BY <1>4, <2>2, <2>3 DEF LockRegenerate, SwitchesTyped, RequestsTyped, MaintTyped
  <1> QED
    BY <1>2, <1>3, <1>4

\* Making a thumbnail, or giving up, is well typed.
LEMMA MakeTyped ==
  ASSUME TypeOK, NEW w \in Threads,
         \/ Probe(w) \/ Extract(w) \/ CheckBeforeWrite(w) \/ WriteThumbnail(w) \/ Verify(w)
         \/ GiveUp(w) \/ MarkFailure(w)
  PROVE  TypeOK'
  <1> USE DEF TypeOK, switchVars, diskVars, requestVars, maintVars, Elsewhere, NoRequests
  <1>1. HoldsRequestLock(w)
    BY DEF Probe, Extract, CheckBeforeWrite, WriteThumbnail, Verify, GiveUp, MarkFailure,
           HoldsRequestLock
  <1>2. /\ thread[w] \in SoundState /\ thread[w].key \in Keys /\ thread[w].gen \in Nat
        /\ thread[w].pc # "idle"
        /\ \A c \in Causes : [thread[w] EXCEPT !.pc = "failed", !.cause = c] \in SoundState
    BY <1>1, WorkingThread DEF HoldsRequestLock
  <1> DEFINE at(l) == [thread[w] EXCEPT !.pc = l]
  <1>3. \A l \in {"probe", "extract", "check", "writing", "verify", "failed", "mark", "collect"} :
          at(l) \in SoundState
    BY <1>2 DEF SoundState, ThreadState
  <1>4. CacheTyped'
    <2>1. CASE Probe(w)
      BY <2>1, NothingTyped DEF Probe, CacheTyped
    <2>2. CASE Extract(w) \/ CheckBeforeWrite(w) \/ Verify(w)
      BY <2>2 DEF Extract, CheckBeforeWrite, Verify, CacheTyped
    <2>3. CASE WriteThumbnail(w)
      <3>1. [kind |-> "made", gen |-> thread[w].gen] \in File
        BY <1>2 DEF File
      <3> QED
        BY <2>3, <3>1, NothingTyped DEF WriteThumbnail, CacheTyped
    <2>4. CASE GiveUp(w)
      BY <2>4, NothingTyped DEF GiveUp, CacheTyped
    <2>5. CASE MarkFailure(w)
      <3>1. [state |-> "failed", cause |-> thread[w].cause, by |-> thread[w].kind] \in Marker
        BY <1>2 DEF Marker, SoundState, ThreadState
      <3> QED
        BY <2>5, <3>1 DEF MarkFailure, CacheTyped
    <2> QED
      BY <2>1, <2>2, <2>3, <2>4, <2>5
  <1>5. \E s \in SoundState : Set(w, s)
    <2>1. CASE Probe(w)
      BY <2>1, <1>1, <1>3, EndTyped DEF Probe
    <2>2. CASE Extract(w) \/ WriteThumbnail(w)
      <3>1. Blame(w, thread[w].cause) \in Causes
        BY <1>2 DEF Blame, Causes, SoundState, ThreadState
      <3> QED
        BY <2>2, <1>2, <1>3, <3>1 DEF Extract, WriteThumbnail, Goto
    <2>3. CASE CheckBeforeWrite(w)
      BY <2>3, <1>2, <1>3 DEF CheckBeforeWrite, Goto, Blame, Causes
    <2>4. CASE Verify(w)
      BY <2>4, <1>1, <1>2, EndTyped DEF Verify, Blame, Causes
    <2>5. CASE GiveUp(w) \/ MarkFailure(w)
      BY <2>5, <1>1, <1>3, EndTyped DEF GiveUp, MarkFailure
    <2> QED
      BY <2>1, <2>2, <2>3, <2>4, <2>5
  <1>6. UNCHANGED <<switchVars, requestVars, queued, maintVars, spent>>
    BY DEF Probe, Extract, CheckBeforeWrite, WriteThumbnail, Verify, GiveUp, MarkFailure
  <1> QED
    BY <1>4, <1>5, <1>6, SetTyped DEF SwitchesTyped, RequestsTyped, ThreadsTyped, MaintTyped

\* Answering the requests of a batch is well typed.
LEMMA DeliverTyped ==
  ASSUME TypeOK, NEW w \in Threads,
         \/ Collect(w) \/ PutInMemory(w) \/ Unlock(w)
         \/ \E r \in Requests : Decode(w, r)
  PROVE  TypeOK'
  <1> USE DEF TypeOK, switchVars, diskVars, requestVars, maintVars, Elsewhere, NoRequests
  <1>1. HoldsRequestLock(w)
    BY DEF Collect, PutInMemory, Unlock, Decode, HoldsRequestLock
  <1>2. /\ thread[w] \in SoundState /\ thread[w].key \in Keys /\ thread[w].batch \in SUBSET Requests
        /\ thread[w].bitmap \in File
    BY <1>1, WorkingThread DEF SoundState, ThreadState
  <1>3. CASE Collect(w)
    <2> DEFINE b == inFlight[thread[w].key]
               v == thread[w].show /\ Current(w) /\ enabled[KeyType(w)]
    <2>1. b \in SUBSET Requests /\ v \in BOOLEAN /\ inFlight' \in [Keys -> SUBSET Requests]
      BY <1>2, <1>3 DEF Collect, RequestsTyped
    <2>2. [thread[w] EXCEPT !.pc = "deliver", !.batch = b, !.show = v] \in SoundState
      <3> HIDE DEF b, v
      <3> QED
        BY <1>2, <1>3, <2>1 DEF Collect, SoundState, ThreadState
    <2>3. ThreadsTyped'
      BY <1>3, <2>2, SetTyped DEF Collect, ThreadsTyped
    <2> QED
      BY <1>3, <2>1, <2>3 DEF Collect, SwitchesTyped, CacheTyped, RequestsTyped, MaintTyped
  <1>4. ASSUME NEW r \in Requests, Decode(w, r) PROVE TypeOK'
    <2> DEFINE rest == [thread[w] EXCEPT !.batch = @ \ {r}]
               put(b) == [rest EXCEPT !.pc = "put", !.serving = r,
                            !.bitmap = IF @ = NoFile THEN b ELSE @]
    <2>1. rest \in SoundState /\ rest.bitmap = thread[w].bitmap
      BY <1>2, <1>4 DEF SoundState, ThreadState
    <2>2. ASSUME NEW b \in {thumb[thread[w].key], NoFile} PROVE put(b) \in SoundState
      <3> DEFINE c == IF thread[w].bitmap = NoFile THEN b ELSE thread[w].bitmap
      <3>1. c \in File
        BY <1>2, NothingTyped DEF CacheTyped
      <3> HIDE DEF c
      <3>2. [rest EXCEPT !.pc = "put", !.serving = r, !.bitmap = c] \in SoundState
        BY <1>2, <1>4, <2>1, <3>1 DEF Decode, SoundState, ThreadState
      <3> QED
        BY <2>1, <3>2 DEF c
    <2>3. ThreadsTyped'
      <3>1. \E s \in SoundState : Set(w, s)
        BY <1>4, <2>1, <2>2 DEF Decode
      <3> QED
        BY <1>4, <3>1, SetTyped DEF Decode, ThreadsTyped
    <2>4. answers' \in [Requests -> Nat]
      BY <1>4, PostTyped DEF Decode, RequestsTyped
    <2> QED
      BY <1>4, <2>3, <2>4 DEF Decode, SwitchesTyped, CacheTyped, RequestsTyped, MaintTyped
  <1>5. CASE PutInMemory(w)
    <2>1. thread[w].serving \in Requests
      BY <1>2, <1>5 DEF PutInMemory, SoundState
    <2>2. \A c \in Causes :
            [thread[w] EXCEPT !.pc = "failed", !.cause = c,
               !.batch = @ \cup {thread[w].serving}, !.serving = None] \in SoundState
      BY <1>2, <1>5, <2>1 DEF PutInMemory, SoundState, ThreadState, Causes
    <2>3. [thread[w] EXCEPT !.pc = "deliver", !.serving = None] \in SoundState
      BY <1>2, <1>5 DEF PutInMemory, SoundState, ThreadState
    <2>4. ThreadsTyped'
      <3>1. \A c \in {"vanished", "none"} : Blame(w, c) \in Causes
        BY DEF Blame, Causes
      <3>2. \E s \in SoundState : Set(w, s)
        BY <1>5, <2>2, <2>3, <3>1 DEF PutInMemory
      <3> QED
        BY <1>5, <3>2, SetTyped DEF PutInMemory, ThreadsTyped
    <2>5. answers' \in [Requests -> Nat] /\ mem' \in [Keys -> File]
      BY <1>2, <1>5, PostTyped DEF PutInMemory, RequestsTyped, CacheTyped
    <2> QED
      BY <1>5, <2>4, <2>5 DEF PutInMemory, SwitchesTyped, CacheTyped, RequestsTyped, MaintTyped
  <1>6. CASE Unlock(w)
    BY <1>6, IdleIsSound, SetTyped
    DEF Unlock, SwitchesTyped, CacheTyped, RequestsTyped, ThreadsTyped, MaintTyped
  <1> QED
    BY <1>3, <1>4, <1>5, <1>6

\* Every step preserves the types.
LEMMA NextTyped == TypeOK /\ [Next]_vars => TypeOK'
  <1> SUFFICES ASSUME TypeOK, [Next]_vars PROVE TypeOK'
    OBVIOUS
  <1>1. CASE UNCHANGED vars
    BY <1>1 DEF vars, switchVars, diskVars, requestVars, maintVars, TypeOK, SwitchesTyped,
                CacheTyped, RequestsTyped, ThreadsTyped, MaintTyped
  <1>2. ASSUME NEW w \in Threads, ThreadStep(w) PROVE TypeOK'
    BY <1>2, LockTyped, MakeTyped, DeliverTyped DEF ThreadStep
  <1> QED
    BY <1>1, <1>2, MainTyped, MaintenanceTyped, OtherTyped DEF Next

\* The types are kept by every behaviour of the program.
THEOREM Typing == Spec => []TypeOK
  BY InitTyped, NextTyped, PTL DEF Spec

-----------------------------------------------------------------------------
(* Clearing.  Why a deleted thumbnail cannot come back: generations only    *)
(* grow, whoever may write holds one that is at least the last finished     *)
(* clear's, and nobody is writing while a clear deletes.                    *)

Orderly(c) ==
  (c.op = "clear" => c.gen <= gen[c.type]) /\ c.keys \subseteq KeysOf(c.type)

\* What is announced, queued or running is not ahead of the store, and an
\* import writes only files of its own type, for a generation after the clear.
ClearOrder ==
  /\ \A t \in Types : cleared[t] <= gen[t]
  /\ \A i \in DOMAIN tasks : Orderly(tasks[i])
  /\ maint.pc # "idle" => maint.gen <= gen[maint.type] /\ maint.keys \subseteq KeysOf(maint.type)
  /\ maint.pc = "import" => cleared[maint.type] <= maint.gen

\* A thread is writing only for a generation after the clear, and not while a
\* clear of the same type deletes.
WriteExclusion ==
  \A w \in Threads : thread[w].pc = "writing" =>
    /\ cleared[KeyType(w)] <= thread[w].gen
    /\ ~(maint.pc = "wipe" /\ maint.type = KeyType(w))

ClearedInv == ClearOrder /\ WriteExclusion /\ ClearedStaysCleared

\* Nothing has been cleared yet (Init).
LEMMA ClearedInit == Init => ClearedInv
  BY KeysAssumption
  DEF Init, ClearedInv, ClearOrder, WriteExclusion, ClearedStaysCleared, IdleMaint, IdleThread, NoFile

\* Steps outside the disk: a request, a cancellation, a switch, a generation
\* that grows, a new task.
LEMMA ClearedMain ==
  ASSUME TypeOK, ClearedInv, MainStep
  PROVE  ClearedInv'
  <1> USE DEF TypeOK
  <1>1. \A t \in Types : gen[t] \in Nat /\ gen'[t] \in Nat /\ gen[t] <= gen'[t] /\ cleared[t] \in Nat
    <2>1. CASE UNCHANGED gen
      BY <2>1 DEF SwitchesTyped, MaintTyped
    <2>2. CASE PreferenceListener
      BY SMTT(30), <2>2 DEF PreferenceListener, SwitchesTyped, MaintTyped
    <2>3. ASSUME NEW t \in Types, ClearCache(t) PROVE <1>1
      BY <2>3 DEF ClearCache, SwitchesTyped, MaintTyped
    <2> QED
      BY <2>1, <2>2, <2>3 DEF MainStep, Load, Regenerate, Cancel, SetEnabled, ImportCache, switchVars
  <1>2. UNCHANGED <<thumb, thread, maint, cleared>>
    BY DEF MainStep, Load, Regenerate, Cancel, SetEnabled, PreferenceListener, ClearCache,
           ImportCache, diskVars, maintVars
  <1>3. ClearedStaysCleared'
    BY <1>2 DEF ClearedInv, ClearedStaysCleared
  <1>4. WriteExclusion'
    BY <1>2 DEF ClearedInv, WriteExclusion, KeyType
  <1>5. maint.pc # "idle" => maint.gen \in Nat /\ maint.type \in Types
    BY DEF MaintTyped, MaintState
  <1>6. \A i \in DOMAIN tasks' : Orderly(tasks[i])'
    <2>1. \A i \in DOMAIN tasks : Orderly(tasks[i]) /\ tasks[i] \in Task
      BY DEF ClearedInv, ClearOrder, MaintTyped
    <2>2. ASSUME NEW c \in Task, Orderly(c)
          PROVE  (c.op = "clear" => c.gen <= gen'[c.type]) /\ c.keys \subseteq KeysOf(c.type)
      BY <1>1, <2>2 DEF Orderly, Task
    <2>3. CASE UNCHANGED tasks
      BY <2>1, <2>2, <2>3 DEF Orderly
    <2>4. ASSUME NEW c \in Task, tasks' = Append(tasks, c), c.keys \subseteq KeysOf(c.type),
                 c.op = "clear" => c.gen <= gen'[c.type]
          PROVE  \A i \in DOMAIN tasks' : Orderly(tasks[i])'
      <3>1. tasks \in Seq(Task)
        BY DEF MaintTyped
      <3>2. \A i \in DOMAIN tasks' : tasks'[i] = c \/ (i \in DOMAIN tasks /\ tasks'[i] = tasks[i])
        BY <2>4, <3>1
      <3> QED
        BY <2>1, <2>2, <2>4, <3>2 DEF Orderly
    <2>5. ASSUME NEW t \in Types, ClearCache(t) PROVE \A i \in DOMAIN tasks' : Orderly(tasks[i])'
      <3> DEFINE c == [op |-> "clear", type |-> t, gen |-> gen[t] + 1, keys |-> {}]
      <3>1. c \in Task /\ c.gen = gen'[t] /\ c.type = t /\ c.keys = {}
        BY <1>1, <2>5 DEF ClearCache, SwitchesTyped, Task
      <3>2. tasks' = Append(tasks, c)
        BY <2>5 DEF ClearCache
      <3> HIDE DEF c
      <3> QED
        BY <1>1, <2>4, <3>1, <3>2
    <2>6. ASSUME NEW t \in Types, NEW S \in SUBSET KeysOf(t), ImportCache(t, S)
          PROVE  \A i \in DOMAIN tasks' : Orderly(tasks[i])'
      <3> DEFINE c == [op |-> "import", type |-> t, gen |-> 0, keys |-> S]
      <3>1. c \in Task /\ c.op = "import" /\ c.keys \subseteq KeysOf(c.type)
        BY DEF Task, KeysOf
      <3>2. tasks' = Append(tasks, c)
        BY <2>6 DEF ImportCache
      <3> HIDE DEF c
      <3> QED
        BY <2>4, <3>1, <3>2
    <2> QED
      BY <2>3, <2>5, <2>6 DEF MainStep, Load, Regenerate, Cancel, SetEnabled,
           PreferenceListener, maintVars
  <1>7. ClearOrder'
    BY <1>1, <1>2, <1>5, <1>6 DEF ClearedInv, ClearOrder
  <1> QED
    BY <1>3, <1>4, <1>7 DEF ClearedInv

\* The maintenance thread: a clear raises cleared and leaves no file behind, an
\* import writes for a generation of its own.
LEMMA ClearedMaintenance ==
  ASSUME TypeOK, ClearedInv, MaintenanceStep
  PROVE  ClearedInv'
  <1> USE DEF TypeOK, switchVars, diskVars, requestVars
  <1> DEFINE mt == maint.type
  <1>1. \A t \in Types : gen[t] \in Nat /\ cleared[t] \in Nat /\ cleared[t] <= gen[t]
    BY DEF SwitchesTyped, MaintTyped, ClearedInv, ClearOrder
  <1>2. maint \in MaintState /\ (maint.pc # "idle" => maint.gen \in Nat /\ mt \in Types)
    BY DEF MaintTyped, MaintState
  <1>3. \A i \in DOMAIN tasks : Orderly(tasks[i]) /\ tasks[i] \in Task
    BY DEF ClearedInv, ClearOrder, MaintTyped
  <1>4. ASSUME NEW op, NextTask(op)
        PROVE  /\ Head(tasks) \in Task /\ Orderly(Head(tasks)) /\ maint.pc = "idle"
               /\ \A i \in DOMAIN tasks' : tasks'[i] \in Task /\ Orderly(tasks'[i])
    <2>1. tasks \in Seq(Task) /\ tasks # <<>> /\ tasks' = Tail(tasks) /\ maint.pc = "idle"
      BY <1>4 DEF NextTask, MaintTyped
    <2>2. Head(tasks) = tasks[1] /\ 1 \in DOMAIN tasks
      BY <2>1
    <2>3. \A i \in DOMAIN tasks' : tasks'[i] = tasks[i + 1] /\ i + 1 \in DOMAIN tasks
      BY <2>1
    <2> QED
      BY <1>3, <2>1, <2>2, <2>3
  <1>5. CASE StartClear
    <2> DEFINE c == Head(tasks)
    <2>1. /\ c.type \in Types /\ c.gen \in Nat /\ c.gen <= gen[c.type]
          /\ \A i \in DOMAIN tasks' : Orderly(tasks'[i])
      BY <1>4, <1>5 DEF StartClear, NextTask, Task, Orderly
    <2>2. ClearOrder'
      BY <1>1, <1>5, <2>1 DEF StartClear, ClearOrder, Orderly
    <2>3. WriteExclusion'
      BY <1>5, <2>1 DEF StartClear, DiskLockFree, ClearedInv, WriteExclusion, KeyType
    <2> QED
      BY <1>5, <2>2, <2>3 DEF StartClear, ClearedInv, ClearedStaysCleared
  <1>6. CASE Wipe
    <2>1. /\ mt \in Types /\ maint.gen \in Nat /\ maint.gen <= gen[mt]
          /\ cleared' = [cleared EXCEPT ![mt] = maint.gen] /\ maint' = IdleMaint
          /\ UNCHANGED <<gen, tasks>>
      BY <1>2, <1>6 DEF Wipe, ClearedInv, ClearOrder
    <2>2. ClearOrder'
      BY <1>1, <1>3, <2>1 DEF ClearOrder, Orderly, IdleMaint, MaintTyped
    <2>3. \A w \in Threads : /\ thread'[w].pc = thread[w].pc /\ thread'[w].gen = thread[w].gen
                             /\ thread'[w].key = thread[w].key
      BY <1>6 DEF Wipe, ThreadsTyped, SoundState, ThreadState
    <2>4. WriteExclusion'
      BY <1>6, <2>1, <2>3 DEF Wipe, ClearedInv, WriteExclusion, KeyType, IdleMaint, MaintTyped
    <2>5. ClearedStaysCleared'
      BY <1>6, <2>1 DEF Wipe, ClearedInv, ClearedStaysCleared, NoFile, MaintTyped
    <2> QED
      BY <2>2, <2>4, <2>5 DEF ClearedInv
  <1>7. CASE StartImport
    <2> DEFINE i == Head(tasks)
    <2>1. /\ i.type \in Types /\ i.keys \subseteq KeysOf(i.type)
          /\ gen' = [gen EXCEPT ![i.type] = @ + 1]
          /\ maint'.pc = "import" /\ maint'.type = i.type /\ maint'.keys = i.keys
          /\ maint'.gen = gen[i.type] + 1 /\ UNCHANGED <<thread, thumb, cleared>>
      BY <1>4, <1>7 DEF StartImport, NextTask, Task, Orderly
    <2>2. \A t \in Types : gen[t] <= gen'[t] /\ gen'[t] \in Nat
      BY <1>1, <2>1 DEF SwitchesTyped
    <2>3. gen'[i.type] = gen[i.type] + 1
      BY <2>1 DEF SwitchesTyped
    <2>4. \A j \in DOMAIN tasks' : Orderly(tasks[j])'
      BY <1>1, <1>4, <1>7, <2>2 DEF StartImport, NextTask, Orderly, Task
    <2>5. ClearOrder'
      BY <1>1, <2>1, <2>2, <2>3, <2>4 DEF ClearOrder
    <2>6. WriteExclusion'
      BY <2>1 DEF ClearedInv, WriteExclusion, KeyType
    <2> QED
      BY <2>1, <2>5, <2>6 DEF ClearedInv, ClearedStaysCleared
  <1>8. CASE EndImport
    BY <1>8 DEF EndImport, IdleMaint, ClearedInv, ClearOrder, Orderly, WriteExclusion,
                ClearedStaysCleared, KeyType
  <1>9. ASSUME NEW k \in Keys, ImportEntry(k) PROVE ClearedInv'
    <2>1. /\ maint.pc = "import" /\ k \in maint.keys /\ maint.keys \subseteq KeysOf(mt)
          /\ cleared[mt] <= maint.gen /\ maint.gen <= gen[mt]
          /\ UNCHANGED <<gen, tasks, thread, cleared>>
      BY <1>9 DEF ImportEntry, ClearedInv, ClearOrder
    <2>2. maint' = [maint EXCEPT !.keys = @ \ {k}]
      BY <1>9 DEF ImportEntry
    <2>3. /\ maint'.pc = "import" /\ maint'.type = mt /\ maint'.gen = maint.gen
          /\ maint'.keys \subseteq maint.keys
      BY <1>2, <2>1, <2>2 DEF MaintState
    <2>4. ClearOrder'
      BY <2>1, <2>3 DEF ClearedInv, ClearOrder, Orderly
    <2>5. WriteExclusion'
      BY <2>1, <2>3 DEF ClearedInv, WriteExclusion, KeyType
    <2>6. ClearedStaysCleared'
      BY <1>9, <2>1 DEF ImportEntry, ClearedInv, ClearedStaysCleared, KeysOf, CacheTyped
    <2> QED
      BY <2>4, <2>5, <2>6 DEF ClearedInv
  <1> QED
    BY <1>5, <1>6, <1>7, <1>8, <1>9 DEF MaintenanceStep

\* Initialization, trims and expiry only remove files; a new job writes nothing.
LEMMA ClearedOther ==
  ASSUME TypeOK, ClearedInv,
         \/ \E M \in SUBSET Types : InitializeCaches(M)
         \/ \E t \in Types : \E S \in SUBSET KeysOf(t) : Trim(t, S)
         \/ \E k \in Keys : Expire(k) \/ PreGenerate(k)
         \/ \E w \in Threads, j \in queued : Dequeue(w, j)
  PROVE  ClearedInv'
  <1> USE DEF TypeOK, switchVars, diskVars, requestVars, maintVars
  <1>1. UNCHANGED <<tasks, maint, cleared>>
    BY DEF InitializeCaches, Trim, Expire, PreGenerate, Dequeue
  <1>2. \A t \in Types : gen[t] \in Nat /\ gen'[t] \in Nat /\ gen[t] <= gen'[t]
                         /\ cleared[t] \in Nat
    <2>1. ASSUME NEW M \in SUBSET Types, InitializeCaches(M) PROVE <1>2
      BY <2>1 DEF InitializeCaches, SwitchesTyped, MaintTyped
    <2>2. CASE UNCHANGED gen
      BY <2>2 DEF SwitchesTyped, MaintTyped
    <2> QED
      BY <2>1, <2>2 DEF Trim, Expire, PreGenerate, Dequeue
  <1>3. \A i \in DOMAIN tasks : Orderly(tasks[i]) /\ tasks[i] \in Task
    BY DEF ClearedInv, ClearOrder, MaintTyped
  <1>4. ClearOrder'
    <2>1. maint.pc # "idle" => maint.gen \in Nat /\ maint.type \in Types
      BY DEF MaintTyped, MaintState
    <2>2. \A i \in DOMAIN tasks' : Orderly(tasks[i])'
      BY <1>1, <1>2, <1>3 DEF Orderly, Task
    <2> QED
      BY <1>1, <1>2, <2>1, <2>2 DEF ClearedInv, ClearOrder
  <1>5. \A w \in Threads : thread'[w] = thread[w] \/ thread'[w].pc = "lock"
    <2>1. ASSUME NEW w \in Threads, NEW s, Set(w, s), s.pc = "lock"
          PROVE  \A v \in Threads : thread'[v] = thread[v] \/ thread'[v].pc = "lock"
      BY <2>1 DEF Set, ThreadsTyped
    <2>2. ASSUME NEW k \in Keys, PreGenerate(k) PROVE <1>5
      BY <2>1, <2>2 DEF PreGenerate, IdleThread, Threads
    <2>3. ASSUME NEW w \in Threads, NEW j \in queued, Dequeue(w, j) PROVE <1>5
      BY <2>1, <2>3 DEF Dequeue, IdleThread
    <2> QED
      BY <2>2, <2>3 DEF InitializeCaches, Trim, Expire
  <1>6. WriteExclusion'
    BY <1>1, <1>5 DEF ClearedInv, WriteExclusion, KeyType
  <1>7. \A k \in Keys : thumb'[k] = thumb[k] \/ thumb'[k] = NoFile
    BY DEF InitializeCaches, Trim, Expire, PreGenerate, Dequeue, CacheTyped
  <1>8. ClearedStaysCleared'
    BY <1>1, <1>7 DEF ClearedInv, ClearedStaysCleared, NoFile
  <1> QED
    BY <1>4, <1>6, <1>8 DEF ClearedInv

\* What a thread's step changes: only its own state; it is writing afterwards
\* only if it was let in under the disk lock, and it puts only its own
\* thumbnail on disk (CheckBeforeWrite, WriteThumbnail).
LEMMA ThreadStepEffect ==
  ASSUME TypeOK, NEW w \in Threads, ThreadStep(w)
  PROVE  /\ UNCHANGED <<switchVars, maintVars>>
         /\ \A v \in Threads \ {w} : thread'[v] = thread[v]
         /\ thread'[w].pc = "writing" =>
              /\ DiskLockFree(KeyType(w)) /\ Current(w)
              /\ thread'[w].key = thread[w].key /\ thread'[w].gen = thread[w].gen
         /\ \A k \in Keys :
              \/ thumb'[k] = thumb[k]
              \/ thumb'[k] = NoFile
              \/ /\ thread[w].pc = "writing" /\ k = thread[w].key
                 /\ thumb'[k] = [kind |-> "made", gen |-> thread[w].gen]
  <1> USE DEF TypeOK, diskVars, Elsewhere
  <1>1. UNCHANGED <<switchVars, maintVars>>
    BY DEF ThreadStep, LockLoad, LockPreGenerate, LockRegenerate, Probe, Extract,
           CheckBeforeWrite, WriteThumbnail, Verify, GiveUp, MarkFailure, Collect, Decode,
           PutInMemory, Unlock
  <1>2. \E s : Set(w, s)
    BY DEF ThreadStep, LockLoad, AbandonLoad, LockPreGenerate, LockRegenerate, Probe, Extract,
           CheckBeforeWrite, WriteThumbnail, Verify, GiveUp, MarkFailure, Collect, Decode,
           PutInMemory, Unlock, Goto
  <1>3. \A v \in Threads \ {w} : thread'[v] = thread[v]
    BY <1>2 DEF Set, ThreadsTyped
  <1>4. ASSUME NEW s, Set(w, s) PROVE thread'[w] = s
    BY <1>4 DEF Set, ThreadsTyped
  <1>5. thread[w] \in ThreadState
    BY DEF ThreadsTyped, SoundState
  <1>6. Resolved(w).pc # "writing" /\ Unresolved(w).pc # "writing" /\ IdleThread.pc # "writing"
    BY <1>5 DEF Resolved, Unresolved, IdleThread, ThreadState
  <1>7. ASSUME thread'[w].pc = "writing" PROVE CheckBeforeWrite(w) /\ Wanted(w)
    <2>1. ~(LockLoad(w) \/ LockPreGenerate(w) \/ LockRegenerate(w))
      BY <1>4, <1>5, <1>6, <1>7
      DEF LockLoad, AbandonLoad, LockPreGenerate, LockRegenerate, Goto, ThreadState
    <2>2. ~(Probe(w) \/ Extract(w) \/ WriteThumbnail(w) \/ Verify(w))
      BY <1>4, <1>5, <1>6, <1>7 DEF Probe, Extract, WriteThumbnail, Verify, Goto, ThreadState
    <2>3. ~(GiveUp(w) \/ MarkFailure(w) \/ Collect(w) \/ PutInMemory(w) \/ Unlock(w))
      BY <1>4, <1>5, <1>6, <1>7
      DEF GiveUp, MarkFailure, Collect, PutInMemory, Unlock, ThreadState
    <2>4. ASSUME NEW r \in Requests, Decode(w, r) PROVE FALSE
      <3> DEFINE rest == [thread[w] EXCEPT !.batch = @ \ {r}]
      <3>1. rest.pc = "deliver"
        BY <1>5, <2>4 DEF Decode, ThreadState
      <3>2. \A b : [rest EXCEPT !.pc = "put", !.serving = r, !.bitmap = b].pc = "put"
        BY <1>5 DEF ThreadState
      <3>3. thread'[w] = rest \/ \E b : thread'[w] = [rest EXCEPT !.pc = "put", !.serving = r, !.bitmap = b]
        BY <1>4, <2>4 DEF Decode
      <3> HIDE DEF rest
      <3> QED
        BY <1>7, <3>1, <3>2, <3>3
    <2>5. CheckBeforeWrite(w)
      BY <2>1, <2>2, <2>3, <2>4 DEF ThreadStep
    <2> QED
      BY <1>4, <1>5, <1>7, <2>5 DEF CheckBeforeWrite, ThreadState
  <1>8. thread'[w].pc = "writing" =>
          /\ DiskLockFree(KeyType(w)) /\ Current(w)
          /\ thread'[w].key = thread[w].key /\ thread'[w].gen = thread[w].gen
    BY <1>4, <1>5, <1>7 DEF CheckBeforeWrite, Wanted, Goto, ThreadState
  <1>9. \A k \in Keys :
          \/ thumb'[k] = thumb[k]
          \/ thumb'[k] = NoFile
          \/ /\ thread[w].pc = "writing" /\ k = thread[w].key
             /\ thumb'[k] = [kind |-> "made", gen |-> thread[w].gen]
    BY DEF ThreadStep, LockLoad, LockPreGenerate, LockRegenerate, Probe, Extract,
           CheckBeforeWrite, WriteThumbnail, Verify, GiveUp, MarkFailure, Collect, Decode,
           PutInMemory, Unlock, CacheTyped
  <1> QED
    BY <1>1, <1>3, <1>8, <1>9

\* A thread writes only for a generation that no finished clear has passed.
LEMMA ClearedThread ==
  ASSUME TypeOK, ClearedInv, NEW w \in Threads, ThreadStep(w)
  PROVE  ClearedInv'
  <1>1. UNCHANGED <<gen, tasks, maint, cleared>>
    BY ThreadStepEffect DEF switchVars, maintVars
  <1>2. ClearOrder'
    BY <1>1 DEF ClearedInv, ClearOrder, Orderly
  <1>3. WriteExclusion'
    <2> SUFFICES ASSUME NEW v \in Threads, thread'[v].pc = "writing"
                 PROVE  /\ cleared[TypeOf[thread'[v].key]] <= thread'[v].gen
                        /\ ~(maint.pc = "wipe" /\ maint.type = TypeOf[thread'[v].key])
      BY <1>1 DEF WriteExclusion, KeyType
    <2>1. CASE v # w
      <3>1. thread'[v] = thread[v]
        BY <2>1, ThreadStepEffect
      <3> QED
        BY <3>1 DEF ClearedInv, WriteExclusion, KeyType
    <2>2. CASE v = w
      <3>1. /\ DiskLockFree(KeyType(w)) /\ Current(w)
            /\ thread'[w].key = thread[w].key /\ thread'[w].gen = thread[w].gen
        BY <2>2, ThreadStepEffect
      <3>2. thread[w].pc # "idle"
        BY DEF ThreadStep, LockLoad, LockPreGenerate, LockRegenerate, Waiting, Probe, Extract,
               CheckBeforeWrite, WriteThumbnail, Verify, GiveUp, MarkFailure, Collect, Decode,
               PutInMemory, Unlock
      <3>3. KeyType(w) \in Types
        BY <3>2, KeysAssumption DEF TypeOK, ThreadsTyped, SoundState, KeyType
      <3> QED
        BY <2>2, <3>1, <3>3 DEF DiskLockFree, Current, ClearedInv, ClearOrder, KeyType
    <2> QED
      BY <2>1, <2>2
  <1>4. ClearedStaysCleared'
    <2> SUFFICES ASSUME NEW k \in Keys, thumb'[k].kind # "none"
                 PROVE  thumb'[k].gen >= cleared[TypeOf[k]]
      BY <1>1 DEF ClearedStaysCleared
    <2>1. CASE thumb'[k] = thumb[k]
      BY <2>1 DEF ClearedInv, ClearedStaysCleared
    <2>2. CASE thumb'[k] = [kind |-> "made", gen |-> thread[w].gen]
               /\ thread[w].pc = "writing" /\ k = thread[w].key
      <3>1. cleared[TypeOf[k]] \in Nat /\ thread[w].gen \in Nat
        BY <2>2, KeysAssumption DEF TypeOK, MaintTyped, ThreadsTyped, SoundState
      <3> QED
        BY <2>2, <3>1 DEF ClearedInv, WriteExclusion, KeyType
    <2> QED
      BY <2>1, <2>2, ThreadStepEffect DEF NoFile
  <1> QED
    BY <1>2, <1>3, <1>4 DEF ClearedInv

\* ClearedInv is inductive.
LEMMA ClearedNext == TypeOK /\ ClearedInv /\ [Next]_vars => ClearedInv'
  <1> SUFFICES ASSUME TypeOK, ClearedInv, [Next]_vars PROVE ClearedInv'
    OBVIOUS
  <1>1. CASE UNCHANGED vars
    BY <1>1 DEF vars, switchVars, diskVars, maintVars, ClearedInv, ClearOrder, Orderly,
                WriteExclusion, ClearedStaysCleared, KeyType
  <1> QED
    BY <1>1, ClearedMain, ClearedMaintenance, ClearedOther, ClearedThread DEF Next

\* What a finished clear deleted does not come back, for any number of clears,
\* imports, switches, trims and threads (clearCache, generateThumbnail).
THEOREM ClearIsFinal == Spec => []ClearedStaysCleared
  <1>1. ClearedInv => ClearedStaysCleared
    BY DEF ClearedInv
  <1> QED
    BY <1>1, ClearedInit, ClearedNext, Typing, PTL DEF Spec

-----------------------------------------------------------------------------
(* Failure markers.  A job that lost its generation never regains it, and a *)
(* switch that is turned off is not turned on again before its listener has *)
(* raised the generation: a cause that must not be recorded implies that    *)
(* the job is not current, or that pre-generation still sees the switch off.*)

Honest(s) ==
  LET t == TypeOf[s.key] IN
  /\ s.pc = "lock" => s.cause = "none"
  /\ s.pc \notin {"idle", "lock"} =>
       /\ s.gen <= gen[t]
       /\ s.cause = "stale" => s.gen < gen[t]
       /\ s.kind = "pregen" =>
            /\ s.gen = gen[t] => enabled[t] \/ notice = t
            /\ s.cause = "disabled" => s.gen < gen[t] \/ (notice = t /\ ~enabled[t])
       /\ s.pc = "mark" => /\ s.cause # "stale"
                           /\ ~(s.cause = "disabled" /\ s.kind = "pregen")

MarkerInv == (\A w \in Threads : Honest(thread[w])) /\ MarkersOfLiveJobs

\* How switches and generations may move: generations grow, and a switch that
\* went off is followed by a new generation before it is on again.
SwitchesMove ==
  \A t \in Types :
    /\ gen[t] \in Nat /\ gen'[t] \in Nat /\ gen[t] <= gen'[t]
    /\ gen'[t] = gen[t] /\ (enabled[t] \/ notice = t) => enabled'[t] \/ notice' = t
    /\ notice = t /\ ~enabled[t] => gen[t] < gen'[t] \/ (notice' = t /\ ~enabled'[t])

\* Idle threads are honest (Init).
LEMMA IdleIsHonest == Honest(IdleThread)
  BY DEF Honest, IdleThread

\* Nothing is marked yet (Init).
LEMMA MarkerInit == Init => MarkerInv
  BY IdleIsHonest DEF Init, MarkerInv, MarkersOfLiveJobs, NoMarker

\* The switches and generations move only like that (SetEnabled,
\* PreferenceListener, ClearCache, importCacheInternal, initializeCacheDirectories).
LEMMA SwitchesMoveLikeThat == TypeOK /\ [Next]_vars => SwitchesMove
  <1> SUFFICES ASSUME TypeOK, [Next]_vars PROVE SwitchesMove
    OBVIOUS
  <1> USE DEF TypeOK, switchVars, diskVars, requestVars, maintVars
  <1>1. CASE UNCHANGED switchVars
    BY <1>1 DEF SwitchesMove, SwitchesTyped
  <1>2. ASSUME NEW t \in Types, NEW on \in BOOLEAN, SetEnabled(t, on) PROVE SwitchesMove
    <2>1. notice = None /\ notice' = t /\ enabled' = [enabled EXCEPT ![t] = on] /\ UNCHANGED gen
      BY <1>2 DEF SetEnabled, MainFree
    <2>2. None \notin Types
      BY NoneAssumption
    <2> QED
      BY <2>1, <2>2 DEF SwitchesMove, SwitchesTyped
  <1>3. CASE PreferenceListener
    BY <1>3 DEF PreferenceListener, SwitchesMove, SwitchesTyped
  <1>4. ASSUME NEW t \in Types, ClearCache(t) PROVE SwitchesMove
    BY <1>4 DEF ClearCache, SwitchesMove, SwitchesTyped
  <1>5. ASSUME NEW M \in SUBSET Types, InitializeCaches(M) PROVE SwitchesMove
    BY <1>5 DEF InitializeCaches, SwitchesMove, SwitchesTyped
  <1>6. CASE StartImport
    <2>1. Head(tasks).type \in Types
      <3>1. tasks \in Seq(Task) /\ tasks # <<>>
        BY <1>6 DEF StartImport, NextTask, MaintTyped
      <3>2. Head(tasks) \in Task
        BY <3>1
      <3> QED
        BY <3>2 DEF Task
    <2> QED
      BY <1>6, <2>1 DEF StartImport, SwitchesMove, SwitchesTyped
  <1>7. ASSUME NEW w \in Threads, ThreadStep(w) PROVE SwitchesMove
    BY <1>1, <1>7, ThreadStepEffect
  <1>8. CASE Next
    <2>1. CASE MainStep
      BY <1>1, <1>2, <1>3, <1>4, <2>1 DEF MainStep, Load, Regenerate, Cancel, ImportCache
    <2>2. CASE MaintenanceStep
      BY <1>1, <1>6, <2>2 DEF MaintenanceStep, StartClear, Wipe, EndImport, ImportEntry
    <2>3. CASE \/ \E t \in Types : \E S \in SUBSET KeysOf(t) : Trim(t, S)
               \/ \E k \in Keys : Expire(k) \/ PreGenerate(k)
               \/ \E w \in Threads, j \in queued : Dequeue(w, j)
      BY <1>1, <2>3 DEF Trim, Expire, PreGenerate, Dequeue
    <2> QED
      BY <1>5, <1>7, <1>8, <2>1, <2>2, <2>3 DEF Next
  <1> QED
    BY <1>1, <1>8 DEF vars

\* A thread that does not move stays honest when switches and generations do.
LEMMA HonestyKept ==
  ASSUME SwitchesMove, NEW s \in SoundState, Honest(s)
  PROVE  LET t == TypeOf[s.key] IN
         /\ s.pc = "lock" => s.cause = "none"
         /\ s.pc \notin {"idle", "lock"} =>
              /\ s.gen <= gen'[t]
              /\ s.cause = "stale" => s.gen < gen'[t]
              /\ s.kind = "pregen" =>
                   /\ s.gen = gen'[t] => enabled'[t] \/ notice' = t
                   /\ s.cause = "disabled" => s.gen < gen'[t] \/ (notice' = t /\ ~enabled'[t])
              /\ s.pc = "mark" => /\ s.cause # "stale"
                                  /\ ~(s.cause = "disabled" /\ s.kind = "pregen")
  <1> DEFINE t == TypeOf[s.key]
  <1>1. CASE s.pc \in {"idle", "lock"}
    BY <1>1 DEF Honest
  <1>2. CASE s.pc \notin {"idle", "lock"}
    <2>1. t \in Types /\ s.gen \in Nat
      BY <1>2, KeysAssumption DEF SoundState
    <2>2. /\ s.gen <= gen[t]
          /\ s.cause = "stale" => s.gen < gen[t]
          /\ s.kind = "pregen" =>
               /\ s.gen = gen[t] => enabled[t] \/ notice = t
               /\ s.cause = "disabled" => s.gen < gen[t] \/ (notice = t /\ ~enabled[t])
          /\ s.pc = "mark" => /\ s.cause # "stale"
                              /\ ~(s.cause = "disabled" /\ s.kind = "pregen")
      BY <1>2 DEF Honest
    <2> HIDE DEF t
    <2>3. /\ gen[t] \in Nat /\ gen'[t] \in Nat /\ gen[t] <= gen'[t]
          /\ gen'[t] = gen[t] /\ (enabled[t] \/ notice = t) => enabled'[t] \/ notice' = t
          /\ notice = t /\ ~enabled[t] => gen[t] < gen'[t] \/ (notice' = t /\ ~enabled'[t])
      BY <2>1 DEF SwitchesMove
    <2>4. s.gen <= gen'[t] /\ (s.cause = "stale" => s.gen < gen'[t])
      BY <2>1, <2>2, <2>3
    <2>5. s.kind = "pregen" /\ s.gen = gen'[t] => enabled'[t] \/ notice' = t
      <3>1. s.gen = gen'[t] => gen'[t] = gen[t] /\ s.gen = gen[t]
        BY <2>1, <2>2, <2>3
      <3> QED
        BY <2>2, <2>3, <3>1, Zenon
    <2>6. s.kind = "pregen" /\ s.cause = "disabled" =>
            s.gen < gen'[t] \/ (notice' = t /\ ~enabled'[t])
      <3>1. s.gen < gen[t] \/ gen[t] < gen'[t] => s.gen < gen'[t]
        BY <2>1, <2>2, <2>3
      <3> QED
        BY <2>2, <2>3, <3>1, Zenon
    <2> QED
      BY <1>2, <2>2, <2>4, <2>5, <2>6, Zenon DEF t
  <1> QED
    BY <1>1, <1>2

\* An honest thread that moves on, with its job and what interfered with it
\* unchanged, is honest (Goto, Resolved, Unresolved).
LEMMA MoveIsHonest ==
  ASSUME NEW s \in SoundState, Honest(s), s.pc \notin {"idle", "lock"},
         NEW u, u.pc \notin {"lock", "mark"}, u.key = s.key, u.gen = s.gen,
         u.kind = s.kind, u.cause = s.cause \/ u.cause \in {"none", "vanished"}
  PROVE  Honest(u)
  BY DEF Honest

\* Every place a job may end at is honest.
LEMMA EndIsHonest ==
  ASSUME ThreadsTyped, NEW w \in Threads, HoldsRequestLock(w), Honest(thread[w])
  PROVE  Honest(Resolved(w)) /\ Honest(Unresolved(w))
  <1> DEFINE e(l, b) == [thread[w] EXCEPT !.pc = l, !.show = b]
  <1>1. thread[w] \in SoundState /\ thread[w] \in ThreadState
        /\ thread[w].pc \notin {"idle", "lock"}
    BY DEF ThreadsTyped, SoundState, HoldsRequestLock
  <1>2. ASSUME NEW l \in {"collect", "deliver"}, NEW b \in BOOLEAN PROVE Honest(e(l, b))
    <2>1. /\ e(l, b).pc = l /\ e(l, b).key = thread[w].key /\ e(l, b).gen = thread[w].gen
          /\ e(l, b).kind = thread[w].kind /\ e(l, b).cause = thread[w].cause
      BY <1>1 DEF ThreadState
    <2> HIDE DEF e
    <2> QED
      BY <1>1, <2>1, MoveIsHonest
  <1>3. Resolved(w) \in {e("collect", TRUE), e("deliver", TRUE), IdleThread}
    BY DEF Resolved
  <1>4. Unresolved(w) \in {e("collect", FALSE), e("deliver", FALSE), IdleThread}
    BY DEF Unresolved
  <1> QED
    BY <1>2, <1>3, <1>4, IdleIsHonest

\* A step of a thread leaves it honest: it is blamed for nothing but what it met.
LEMMA StepIsHonest ==
  ASSUME TypeOK, NEW w \in Threads, Honest(thread[w]), ThreadStep(w)
  PROVE  Honest(thread'[w])
  <1> DEFINE s == thread[w]
             t == KeyType(w)
  <1>1. s \in SoundState /\ s \in ThreadState
    BY DEF TypeOK, ThreadsTyped, SoundState
  <1>2. ASSUME NEW u, Set(w, u) PROVE thread'[w] = u
    BY <1>2 DEF Set, TypeOK, ThreadsTyped
  <1>3. s.pc # "idle"
    BY DEF ThreadStep, LockLoad, LockPreGenerate, LockRegenerate, Waiting, Probe, Extract,
           CheckBeforeWrite, WriteThumbnail, Verify, GiveUp, MarkFailure, Collect, Decode,
           PutInMemory, Unlock
  <1>4. t \in Types /\ gen[t] \in Nat
    BY <1>1, <1>3, KeysAssumption DEF SoundState, KeyType, TypeOK, SwitchesTyped
  <1>5. ASSUME NEW l \in {"probe", "extract", "check", "writing", "verify", "failed", "collect"},
               s.pc # "lock", Goto(w, l)
        PROVE  Honest(thread'[w])
    <2> DEFINE u == [s EXCEPT !.pc = l]
    <2>1. thread'[w] = u
      BY <1>2, <1>5 DEF Goto
    <2>2. /\ u.pc = l /\ u.key = s.key /\ u.gen = s.gen /\ u.kind = s.kind /\ u.cause = s.cause
      BY <1>1 DEF ThreadState
    <2> HIDE DEF u
    <2> QED
      BY <1>1, <1>3, <1>5, <2>1, <2>2, MoveIsHonest
  <1>6. CASE s.pc = "lock"
    <2>1. s.cause = "none"
      BY <1>6 DEF Honest
    <2>2. CASE LockLoad(w)
      <3>1. CASE Goto(w, "probe") /\ Current(w)
        <4>1. thread'[w] = [s EXCEPT !.pc = "probe"]
          BY <1>2, <3>1 DEF Goto
        <4> QED
          BY <1>1, <1>4, <2>1, <2>2, <3>1, <4>1
          DEF Honest, Current, KeyType, ThreadState, LockLoad, Waiting
      <3> QED
        BY <1>2, <2>2, <3>1, IdleIsHonest DEF LockLoad, AbandonLoad
    <2>3. CASE LockPreGenerate(w)
      <3>1. CASE enabled[t] /\ thread'[w] = [s EXCEPT !.pc = "probe", !.gen = gen[t]]
        BY <1>1, <1>4, <2>1, <3>1 DEF Honest, KeyType, ThreadState
      <3> QED
        BY <1>2, <2>3, <3>1, IdleIsHonest DEF LockPreGenerate
    <2>4. CASE LockRegenerate(w)
      <3>1. thread'[w] = [s EXCEPT !.pc = "extract", !.gen = gen[t]] /\ s.kind = "regen"
        BY <1>2, <2>4 DEF LockRegenerate, GenerationNow, Waiting
      <3> QED
        BY <1>1, <1>4, <2>1, <3>1 DEF Honest, KeyType, ThreadState
    <2> QED
      BY <1>6, <2>2, <2>3, <2>4 DEF ThreadStep, Probe, Extract, CheckBeforeWrite, WriteThumbnail,
        Verify, GiveUp, MarkFailure, Collect, Decode, PutInMemory, Unlock
  <1>7. CASE s.pc # "lock"
    <2>1. HoldsRequestLock(w) /\ ~LockLoad(w) /\ ~LockPreGenerate(w) /\ ~LockRegenerate(w)
      BY <1>3, <1>7 DEF HoldsRequestLock, LockLoad, LockPreGenerate, LockRegenerate, Waiting
    <2>2. Honest(Resolved(w)) /\ Honest(Unresolved(w))
      BY <2>1, EndIsHonest DEF TypeOK
    <2>3. ASSUME NEW c \in Causes, thread'[w] = [s EXCEPT !.pc = "failed", !.cause = c],
                 c = "stale" => s.gen < gen[t],
                 c = "disabled" /\ s.kind = "pregen" =>
                   s.gen < gen[t] \/ (notice = t /\ ~enabled[t])
          PROVE  Honest(thread'[w])
      BY <1>1, <1>3, <1>7, <2>3 DEF Honest, KeyType, ThreadState
    <2>4. CASE Probe(w)
      BY <1>2, <1>5, <1>7, <2>2, <2>4 DEF Probe, Goto
    <2>14. \A c : Blame(w, c) = "stale" => c = "stale" \/ s.gen < gen[t]
      BY <1>1, <1>3, <1>4, <1>7 DEF Blame, Honest, Current, KeyType, SoundState
    <2>15. \A c : Blame(w, c) \in {c, "stale"}
      BY DEF Blame
    <2>5. CASE Extract(w) \/ WriteThumbnail(w)
      <3> DEFINE c == Blame(w, s.cause)
      <3>1. CASE thread'[w] = [s EXCEPT !.pc = "failed", !.cause = c]
        <4>1. c \in Causes
          BY <1>1, <2>15 DEF ThreadState, Causes
        <4>2. c = "stale" => s.gen < gen[t]
          BY <1>3, <1>7, <2>14 DEF Honest, KeyType
        <4>3. c = "disabled" /\ s.kind = "pregen" =>
                s.gen < gen[t] \/ (notice = t /\ ~enabled[t])
          BY <1>3, <1>7, <2>15 DEF Honest, KeyType
        <4> HIDE DEF c
        <4> QED
          BY <2>3, <3>1, <4>1, <4>2, <4>3
      <3> QED
        BY <1>2, <1>5, <1>7, <2>5, <3>1 DEF Extract, WriteThumbnail
    <2>6. CASE CheckBeforeWrite(w)
      <3>1. CASE Goto(w, "writing")
        BY <1>5, <1>7, <3>1
      <3>2. CASE ~Wanted(w)
        <4> DEFINE c == Blame(w, "disabled")
        <4>1. thread'[w] = [s EXCEPT !.pc = "failed", !.cause = c] /\ c \in Causes
          BY <1>2, <2>6, <2>15, <3>2 DEF CheckBeforeWrite, Causes
        <4>2. c = "stale" => s.gen < gen[t]
          BY <2>14
        <4>3. c = "disabled" /\ s.kind = "pregen" =>
                s.gen < gen[t] \/ (notice = t /\ ~enabled[t])
          BY <1>3, <1>7, <3>2 DEF Honest, Current, KeyType, Wanted, Blame
        <4> HIDE DEF c
        <4> QED
          BY <2>3, <4>1, <4>2, <4>3
      <3> QED
        BY <2>6, <3>1, <3>2 DEF CheckBeforeWrite
    <2>7. CASE Verify(w)
      <3> DEFINE c == Blame(w, "vanished")
      <3>1. c \in Causes /\ c # "disabled" /\ (c = "stale" => s.gen < gen[t])
        BY <2>14, <2>15 DEF Causes
      <3>2. thread'[w] = Resolved(w) \/ thread'[w] = [s EXCEPT !.pc = "failed", !.cause = c]
        BY <1>2, <2>7 DEF Verify
      <3> HIDE DEF c
      <3> QED
        BY <2>2, <2>3, <3>1, <3>2
    <2>8. CASE GiveUp(w)
      <3>1. CASE MayMark(w)
        <4>1. thread'[w] = [s EXCEPT !.pc = "mark"]
          BY <1>2, <2>8, <3>1 DEF GiveUp
        <4>2. s.gen = gen[t] /\ (s.kind = "pregen" => enabled[t])
          BY <3>1 DEF MayMark, Current
        <4> QED
          BY <1>1, <1>3, <1>4, <1>7, <4>1, <4>2 DEF Honest, KeyType, ThreadState
      <3> QED
        BY <1>2, <2>2, <2>8, <3>1 DEF GiveUp
    <2>9. CASE MarkFailure(w)
      BY <1>2, <2>2, <2>9 DEF MarkFailure
    <2>10. CASE Collect(w)
      <3> DEFINE u == [s EXCEPT !.pc = "deliver", !.batch = inFlight[s.key],
                         !.show = @ /\ Current(w) /\ enabled[KeyType(w)]]
      <3>1. thread'[w] = u
        BY <1>2, <2>10 DEF Collect
      <3>2. u.pc = "deliver" /\ u.key = s.key /\ u.gen = s.gen /\ u.kind = s.kind /\ u.cause = s.cause
        BY <1>1 DEF ThreadState
      <3> HIDE DEF u
      <3> QED
        BY <1>1, <1>3, <1>7, <3>1, <3>2, MoveIsHonest
    <2>11. ASSUME NEW r \in Requests, Decode(w, r) PROVE Honest(thread'[w])
      <3> DEFINE rest == [s EXCEPT !.batch = @ \ {r}]
                 put(b) == [rest EXCEPT !.pc = "put", !.serving = r, !.bitmap = b]
      <3>1. thread'[w] = rest \/ \E b : thread'[w] = put(b)
        <4>1. rest.bitmap = s.bitmap
          BY <1>1 DEF ThreadState
        <4> QED
          BY <1>2, <2>11, <4>1 DEF Decode
      <3>2. /\ rest.pc = s.pc /\ rest.key = s.key /\ rest.gen = s.gen /\ rest.kind = s.kind
            /\ rest.cause = s.cause
        BY <1>1 DEF ThreadState
      <3>3. \A b : /\ put(b).pc = "put" /\ put(b).key = s.key /\ put(b).gen = s.gen
                   /\ put(b).kind = s.kind /\ put(b).cause = s.cause
        BY <1>1 DEF ThreadState
      <3>4. s.pc = "deliver"
        BY <2>11 DEF Decode
      <3> HIDE DEF rest, put
      <3> QED
        BY <1>1, <3>1, <3>2, <3>3, <3>4, MoveIsHonest
    <2>12. CASE PutInMemory(w)
      <3> DEFINE u == [s EXCEPT !.pc = "deliver", !.serving = None]
                 c == Blame(w, IF thumb[s.key] = NoFile THEN "vanished" ELSE "none")
                 v == [s EXCEPT !.pc = "failed", !.cause = c,
                         !.batch = @ \cup {s.serving}, !.serving = None]
      <3>1. thread'[w] = u \/ thread'[w] = v
        BY <1>2, <2>12 DEF PutInMemory
      <3>2. u.pc = "deliver" /\ u.key = s.key /\ u.gen = s.gen /\ u.kind = s.kind /\ u.cause = s.cause
        BY <1>1 DEF ThreadState
      <3>3. v.pc = "failed" /\ v.key = s.key /\ v.gen = s.gen /\ v.kind = s.kind /\ v.cause = c
        BY <1>1 DEF ThreadState
      <3>4. c \in {"vanished", "none", "stale"} /\ (c = "stale" => s.gen < gen[t])
        BY <2>14, <2>15
      <3> HIDE DEF u, v, c
      <3>5. Honest(v)
        BY <1>1, <1>3, <1>7, <3>3, <3>4 DEF Honest, KeyType
      <3> QED
        BY <1>1, <1>3, <1>7, <3>1, <3>2, <3>5, MoveIsHonest
    <2>13. CASE Unlock(w)
      BY <1>2, <2>13, IdleIsHonest DEF Unlock
    <2> QED
      BY <2>1, <2>4, <2>5, <2>6, <2>7, <2>8, <2>9, <2>10, <2>11, <2>12, <2>13 DEF ThreadStep
  <1> QED
    BY <1>6, <1>7

\* A step leaves every thread honest, as seen before generations and switches
\* move: threads move, or the others do, never both (Next).
LEMMA ThreadsStayHonest ==
  ASSUME TypeOK, TypeOK', MarkerInv, [Next]_vars
  PROVE  \A w \in Threads : Honest(thread'[w])
  <1>1. \A w \in Threads : Honest(thread[w])
    BY DEF MarkerInv
  <1>2. CASE UNCHANGED thread
    BY <1>1, <1>2
  <1>3. ASSUME NEW v \in Threads, ThreadStep(v) PROVE \A w \in Threads : Honest(thread'[w])
    BY <1>1, <1>3, StepIsHonest, ThreadStepEffect
  <1>4. CASE Wipe
    <2> SUFFICES ASSUME NEW w \in Threads PROVE Honest(thread'[w])
      OBVIOUS
    <2> DEFINE u == [thread[w] EXCEPT !.cause = "vanished"]
    <2>1. thread[w] \in SoundState /\ thread[w] \in ThreadState
      BY DEF TypeOK, ThreadsTyped, SoundState
    <2>2. thread'[w] = thread[w] \/ (thread[w].pc = "extract" /\ thread'[w] = u)
      BY <1>4 DEF Wipe
    <2>3. /\ u.pc = thread[w].pc /\ u.key = thread[w].key /\ u.gen = thread[w].gen
          /\ u.kind = thread[w].kind /\ u.cause = "vanished"
      BY <2>1 DEF ThreadState
    <2> HIDE DEF u
    <2> QED
      BY <1>1, <2>1, <2>2, <2>3, MoveIsHonest
  <1>5. ASSUME NEW w \in Threads, NEW s, Set(w, s), s.pc = "lock", s.cause = "none"
        PROVE  \A v \in Threads : Honest(thread'[v])
    <2>1. Honest(s)
      BY <1>5 DEF Honest
    <2> QED
      BY <1>1, <1>5, <2>1 DEF Set, TypeOK, ThreadsTyped
  <1>6. ASSUME NEW k \in Keys, PreGenerate(k) PROVE \A w \in Threads : Honest(thread'[w])
    BY <1>5, <1>6 DEF PreGenerate, IdleThread, Threads
  <1>7. ASSUME NEW w \in Threads, NEW j \in queued, Dequeue(w, j)
        PROVE  \A v \in Threads : Honest(thread'[v])
    BY <1>5, <1>7 DEF Dequeue, IdleThread
  <1>8. CASE MainStep \/ MaintenanceStep
    BY <1>2, <1>4, <1>8 DEF MainStep, Load, Regenerate, Cancel, SetEnabled, PreferenceListener,
       ClearCache, ImportCache, MaintenanceStep, StartClear, StartImport, EndImport, ImportEntry
  <1> QED
    BY <1>2, <1>3, <1>6, <1>7, <1>8 DEF Next, InitializeCaches, Trim, Expire, vars

\* Markers are written by MarkFailure alone, with the cause of an honest thread.
LEMMA MarkersStayEarned ==
  ASSUME TypeOK, MarkerInv, [Next]_vars
  PROVE  MarkersOfLiveJobs'
  <1> USE DEF TypeOK, diskVars
  <1>1. ASSUME \A k \in Keys : marker'[k] = marker[k] \/ marker'[k] = NoMarker
        PROVE  MarkersOfLiveJobs'
    BY <1>1 DEF MarkerInv, MarkersOfLiveJobs, NoMarker
  <1>2. ASSUME NEW w \in Threads, MarkFailure(w) PROVE MarkersOfLiveJobs'
    <2> DEFINE m == [state |-> "failed", cause |-> thread[w].cause, by |-> thread[w].kind]
    <2>1. thread[w].pc = "mark" /\ Honest(thread[w])
      BY <1>2 DEF MarkFailure, MarkerInv
    <2>2. m.cause # "stale" /\ ~(m.cause = "disabled" /\ m.by = "pregen")
      BY <2>1 DEF Honest
    <2>3. \A k \in Keys : marker'[k] = marker[k] \/ marker'[k] = m
      BY <1>2 DEF MarkFailure, CacheTyped
    <2> HIDE DEF m
    <2> QED
      BY <2>2, <2>3 DEF MarkerInv, MarkersOfLiveJobs
  <1>3. ASSUME NEW w \in Threads, ThreadStep(w), ~MarkFailure(w) PROVE MarkersOfLiveJobs'
    <2>1. \A k \in Keys : marker'[k] = marker[k] \/ marker'[k] = NoMarker
      BY <1>3 DEF ThreadStep, LockLoad, LockPreGenerate, LockRegenerate, Probe, Extract,
         CheckBeforeWrite, WriteThumbnail, Verify, GiveUp, Collect, Decode, PutInMemory,
         Unlock, CacheTyped, Elsewhere
    <2> QED
      BY <1>1, <2>1
  <1>4. CASE UNCHANGED marker
    BY <1>1, <1>4
  <1>5. CASE MainStep \/ MaintenanceStep
    <2>1. UNCHANGED marker \/ Wipe
      BY <1>5 DEF MainStep, Load, Regenerate, Cancel, SetEnabled, PreferenceListener,
         ClearCache, ImportCache, MaintenanceStep, StartClear, StartImport, EndImport, ImportEntry
    <2> QED
      BY <1>1, <2>1 DEF Wipe
  <1>6. ASSUME NEW k \in Keys, Expire(k) PROVE MarkersOfLiveJobs'
    BY <1>1, <1>6 DEF Expire, CacheTyped
  <1>7. ASSUME NEW M \in SUBSET Types, InitializeCaches(M) PROVE MarkersOfLiveJobs'
    BY <1>1, <1>7 DEF InitializeCaches
  <1> QED
    BY <1>2, <1>3, <1>4, <1>5, <1>6, <1>7 DEF Next, Trim, PreGenerate, Dequeue, vars

\* MarkerInv is inductive.
LEMMA MarkerNext == TypeOK /\ TypeOK' /\ MarkerInv /\ [Next]_vars => MarkerInv'
  <1> SUFFICES ASSUME TypeOK, TypeOK', MarkerInv, [Next]_vars PROVE MarkerInv'
    OBVIOUS
  <1>1. SwitchesMove
    BY SwitchesMoveLikeThat
  <1>2. \A w \in Threads : Honest(thread'[w]) /\ thread'[w] \in SoundState
    BY ThreadsStayHonest DEF TypeOK, ThreadsTyped
  <1>3. \A w \in Threads : Honest(thread[w])'
    BY <1>1, <1>2, HonestyKept DEF Honest
  <1> QED
    BY <1>3, MarkersStayEarned DEF MarkerInv

\* A job that fails after its generation is over leaves no failure marker, and
\* neither does a pre-generation stopped by the switch (preGenerateThumbnail,
\* loadOrGenerate, regenerateVideoThumbnail).
THEOREM MarkersAreEarned == Spec => []MarkersOfLiveJobs
  <1>1. MarkerInv => MarkersOfLiveJobs
    BY DEF MarkerInv
  <1> QED
    BY <1>1, MarkerInit, MarkerNext, Typing, PTL DEF Spec

-----------------------------------------------------------------------------
(* What a step of a thread changes, with the data of its job told apart     *)
(* from its place: the request lock is taken, the job moves on, ends, takes *)
(* the waiting requests, or serves one of them.                             *)

\* The job, its requests and its bitmap are those from before.
SameJob(s, u) == u.kind = s.kind /\ u.key = s.key
SameWork(s, u) ==
  SameJob(s, u) /\ u.batch = s.batch /\ u.serving = s.serving /\ u.bitmap = s.bitmap

\* A job that has nothing to answer ends.
Ends(w) ==
  /\ NoRequests /\ thread'[w] = IdleThread
  /\ \/ thread[w].kind \notin {"load", "regen"}
     \/ thread[w].pc = "deliver" /\ thread[w].batch = {}

Abandons(w) == thread[w].pc = "lock" /\ thread[w].kind = "load" /\ AbandonLoad(w)

Working == BeforeCollect \ {"collect"}

Moves(w) ==
  /\ NoRequests /\ SameWork(thread[w], thread'[w])
  /\ thread[w].pc \in Working
  /\ thread'[w].pc \in (BeforeCollect \ {"lock"}) \cup {"deliver"}
  /\ thread'[w].pc = "collect" => thread[w].kind = "load"
  /\ thread'[w].pc = "deliver" => thread[w].kind = "regen"

Collects(w) ==
  /\ thread[w].pc = "collect" /\ thread'[w].pc = "deliver"
  /\ SameJob(thread[w], thread'[w])
  /\ thread'[w].serving = thread[w].serving /\ thread'[w].bitmap = thread[w].bitmap
  /\ thread'[w].batch = inFlight[thread[w].key]
  /\ inFlight' = [inFlight EXCEPT ![thread[w].key] = {}]
  /\ UNCHANGED answers

Serves(w, r) ==
  /\ thread[w].pc = "deliver" /\ r \in thread[w].batch
  /\ SameJob(thread[w], thread'[w])
  /\ thread'[w].batch = thread[w].batch \ {r}
  /\ UNCHANGED inFlight
  /\ \/ /\ answers' = IF r \in cancelled THEN answers ELSE Post({r})
        /\ thread'[w].pc = "deliver"
        /\ thread'[w].serving = thread[w].serving /\ thread'[w].bitmap = thread[w].bitmap
     \/ /\ r \notin cancelled /\ UNCHANGED answers
        /\ thread'[w].pc = "put" /\ thread'[w].serving = r
        /\ thread'[w].bitmap \in {thread[w].bitmap, thumb[thread[w].key], NoFile}
        /\ thread[w].bitmap # NoFile => thread'[w].bitmap = thread[w].bitmap

Puts(w) ==
  /\ thread[w].pc = "put"
  /\ SameJob(thread[w], thread'[w])
  /\ thread'[w].serving = None /\ thread'[w].bitmap = thread[w].bitmap
  /\ UNCHANGED inFlight
  /\ \/ /\ thread[w].bitmap = NoFile /\ thread[w].kind = "regen"
        /\ thread'[w].pc = "failed" /\ UNCHANGED <<answers, mem>>
        /\ thread'[w].batch = thread[w].batch \cup {thread[w].serving}
     \/ /\ thread'[w].pc = "deliver" /\ answers' = Post({thread[w].serving})
        /\ thread'[w].batch = thread[w].batch
        /\ mem' = IF thread[w].bitmap = NoFile THEN mem
                  ELSE [mem EXCEPT ![thread[w].key] = thread[w].bitmap]

\* A thread that moves to another place takes its job with it (Goto).
LEMMA PlaceMoves ==
  ASSUME NEW s \in ThreadState, NEW l
  PROVE  LET u == [s EXCEPT !.pc = l]
         IN u.pc = l /\ SameWork(s, u) /\ u.show = s.show
  BY DEF ThreadState, SameWork, SameJob

\* Where a job goes once its thumbnail is resolved or not, its data goes too
\* (Resolved, Unresolved).
LEMMA EndMoves ==
  ASSUME NEW w \in Threads, thread[w] \in ThreadState, NEW u \in {Resolved(w), Unresolved(w)}
  PROVE  \/ thread[w].kind = "load" /\ u.pc = "collect" /\ SameWork(thread[w], u)
         \/ thread[w].kind = "regen" /\ u.pc = "deliver" /\ SameWork(thread[w], u)
         \/ thread[w].kind \notin {"load", "regen"} /\ u = IdleThread
  <1> DEFINE s == thread[w]
             e(l, b) == [s EXCEPT !.pc = l, !.show = b]
  <1>1. \A l \in {"collect", "deliver"}, b \in BOOLEAN : e(l, b).pc = l /\ SameWork(s, e(l, b))
    BY DEF ThreadState, SameWork, SameJob
  <1>2. \/ s.kind = "load" /\ u \in {e("collect", TRUE), e("collect", FALSE)}
        \/ s.kind = "regen" /\ u \in {e("deliver", TRUE), e("deliver", FALSE)}
        \/ s.kind \notin {"load", "regen"} /\ u = IdleThread
    BY DEF Resolved, Unresolved
  <1> HIDE DEF e
  <1> QED
    BY <1>1, <1>2

\* Every step of a thread is one of these (ThreadStep).
LEMMA StepCases ==
  ASSUME TypeOK, NEW w \in Threads, ThreadStep(w)
  PROVE  \/ Ends(w) \/ Abandons(w) \/ Moves(w) \/ Collects(w) \/ Puts(w)
         \/ \E r \in Requests : Serves(w, r)
  <1> DEFINE s == thread[w]
  <1>1. s \in ThreadState
    BY DEF TypeOK, ThreadsTyped, SoundState
  <1>2. ASSUME NEW u, Set(w, u) PROVE thread'[w] = u
    BY <1>2 DEF Set, TypeOK, ThreadsTyped
  <1> USE DEF BeforeCollect, Working
  <1>3. ASSUME NEW l \in {"probe", "extract", "check", "writing", "verify", "failed", "mark"},
               Goto(w, l), NoRequests, s.pc \in Working
        PROVE  Moves(w)
    <2> DEFINE u == [s EXCEPT !.pc = l]
    <2>1. u.pc = l /\ SameWork(s, u)
      BY <1>1, PlaceMoves
    <2>2. thread'[w] = u
      BY <1>2, <1>3 DEF Goto
    <2> HIDE DEF u
    <2> QED
      BY <1>3, <2>1, <2>2 DEF Moves
  <1>4. ASSUME NEW u \in {Resolved(w), Unresolved(w)}, Set(w, u), NoRequests, s.pc \in Working
        PROVE  Moves(w) \/ Ends(w)
    BY <1>1, <1>2, <1>4, EndMoves DEF Moves, Ends
  <1>5. ASSUME NEW c, Set(w, [s EXCEPT !.pc = "failed", !.cause = c]), NoRequests,
               s.pc \in Working
        PROVE  Moves(w)
    <2> DEFINE u == [s EXCEPT !.pc = "failed", !.cause = c]
    <2>1. u.pc = "failed" /\ SameWork(s, u)
      BY <1>1 DEF ThreadState, SameWork, SameJob
    <2>2. thread'[w] = u
      BY <1>2, <1>5
    <2> HIDE DEF u
    <2> QED
      BY <1>5, <2>1, <2>2 DEF Moves
  <1>6. ASSUME NEW g, NEW l \in {"probe", "extract"}, NoRequests, s.pc = "lock",
               Set(w, [s EXCEPT !.pc = l, !.gen = g])
        PROVE  Moves(w)
    <2> DEFINE u == [s EXCEPT !.pc = l, !.gen = g]
    <2>1. u.pc = l /\ SameWork(s, u)
      BY <1>1 DEF ThreadState, SameWork, SameJob
    <2>2. thread'[w] = u
      BY <1>2, <1>6
    <2> HIDE DEF u
    <2> QED
      BY <1>6, <2>1, <2>2 DEF Moves
  <1>7. CASE LockLoad(w)
    BY <1>3, <1>7 DEF LockLoad, Waiting, Abandons
  <1>8. CASE LockPreGenerate(w)
    BY <1>2, <1>6, <1>8 DEF LockPreGenerate, Waiting, Ends
  <1>9. CASE LockRegenerate(w)
    BY <1>6, <1>9 DEF LockRegenerate, Waiting
  <1>10. CASE Probe(w)
    BY <1>3, <1>4, <1>10 DEF Probe, Goto
  <1>11. CASE Extract(w) \/ WriteThumbnail(w)
    BY <1>3, <1>5, <1>11 DEF Extract, WriteThumbnail
  <1>12. CASE CheckBeforeWrite(w) \/ Verify(w)
    BY <1>3, <1>4, <1>5, <1>12 DEF CheckBeforeWrite, Verify
  <1>13. CASE GiveUp(w) \/ MarkFailure(w)
    BY <1>3, <1>4, <1>13 DEF GiveUp, MarkFailure, Goto
  <1>14. CASE Collect(w)
    <2> DEFINE u == [s EXCEPT !.pc = "deliver", !.batch = inFlight[s.key],
                       !.show = @ /\ Current(w) /\ enabled[KeyType(w)]]
    <2>1. /\ u.pc = "deliver" /\ SameJob(s, u) /\ u.batch = inFlight[s.key]
          /\ u.serving = s.serving /\ u.bitmap = s.bitmap
      BY <1>1 DEF ThreadState, SameJob
    <2>2. thread'[w] = u
      BY <1>2, <1>14 DEF Collect
    <2> HIDE DEF u
    <2> QED
      BY <1>14, <2>1, <2>2 DEF Collect, Collects
  <1>15. ASSUME NEW r \in Requests, Decode(w, r) PROVE Serves(w, r)
    <2> DEFINE rest == [s EXCEPT !.batch = @ \ {r}]
               put(b) == [rest EXCEPT !.pc = "put", !.serving = r,
                            !.bitmap = IF @ = NoFile THEN b ELSE @]
    <2>1. /\ rest.pc = s.pc /\ SameJob(s, rest) /\ rest.batch = s.batch \ {r}
          /\ rest.serving = s.serving /\ rest.bitmap = s.bitmap
      BY <1>1 DEF ThreadState, SameJob
    <2>2. \A b : /\ put(b).pc = "put" /\ SameJob(s, put(b)) /\ put(b).batch = s.batch \ {r}
                 /\ put(b).serving = r
                 /\ put(b).bitmap = IF s.bitmap = NoFile THEN b ELSE s.bitmap
      BY <1>1 DEF ThreadState, SameJob
    <2>3. \/ r \in cancelled /\ thread'[w] = rest /\ UNCHANGED answers
          \/ r \notin cancelled /\ thread'[w] = rest /\ answers' = Post({r})
          \/ /\ r \notin cancelled /\ UNCHANGED answers
             /\ \E b \in {thumb[s.key], NoFile} : thread'[w] = put(b)
      BY <1>2, <1>15 DEF Decode
    <2>4. s.pc = "deliver" /\ r \in s.batch /\ UNCHANGED inFlight
      BY <1>15 DEF Decode
    <2> HIDE DEF rest, put
    <2> QED
      BY <2>1, <2>2, <2>3, <2>4 DEF Serves
  <1>16. CASE PutInMemory(w)
    <2> DEFINE u == [s EXCEPT !.pc = "deliver", !.serving = None]
               v == [s EXCEPT !.pc = "failed",
                       !.cause = Blame(w, IF thumb[s.key] = NoFile THEN "vanished" ELSE "none"),
                       !.batch = @ \cup {s.serving}, !.serving = None]
    <2>1. /\ u.pc = "deliver" /\ SameJob(s, u) /\ u.batch = s.batch /\ u.serving = None
          /\ u.bitmap = s.bitmap
      BY <1>1 DEF ThreadState, SameJob
    <2>2. /\ v.pc = "failed" /\ SameJob(s, v) /\ v.batch = s.batch \cup {s.serving}
          /\ v.serving = None /\ v.bitmap = s.bitmap
      BY <1>1 DEF ThreadState, SameJob
    <2>3. s.pc = "put" /\ UNCHANGED inFlight
      BY <1>16 DEF PutInMemory
    <2>4. \/ /\ s.bitmap = NoFile /\ s.kind = "regen"
             /\ thread'[w] = v /\ UNCHANGED <<answers, mem>>
          \/ /\ thread'[w] = u /\ answers' = Post({s.serving})
             /\ mem' = IF s.bitmap = NoFile THEN mem ELSE [mem EXCEPT ![s.key] = s.bitmap]
      BY <1>2, <1>16 DEF PutInMemory
    <2> HIDE DEF u, v
    <2> QED
      BY <2>1, <2>2, <2>3, <2>4 DEF Puts
  <1>17. CASE Unlock(w)
    BY <1>2, <1>17 DEF Unlock, Ends
  <1> QED
    BY <1>7, <1>8, <1>9, <1>10, <1>11, <1>12, <1>13, <1>14, <1>15, <1>16, <1>17 DEF ThreadStep

\* The step that starts a job gives one idle thread a new one, without requests or
\* with the one of a regeneration (preGenerateThumbnail, executor).
StartsJob(w, kind, k, S) ==
  /\ thread[w].pc = "idle" /\ thread'[w].pc = "lock"
  /\ thread'[w].kind = kind /\ thread'[w].key = k /\ thread'[w].batch = S
  /\ thread'[w].serving = None /\ thread'[w].bitmap = NoFile
  /\ \A v \in Threads \ {w} : thread'[v] = thread[v]
  /\ UNCHANGED <<thumb, mem, requestVars, maintVars>>

\* Pre-generation has no requests (preGenerateThumbnail).
LEMMA PreGenerateStarts ==
  ASSUME TypeOK, NEW k \in Keys, PreGenerate(k)
  PROVE  StartsJob(PreGenThread, "pregen", k, {}) /\ UNCHANGED queued
  <1> DEFINE u == [IdleThread EXCEPT !.pc = "lock", !.kind = "pregen", !.key = k]
  <1>1. /\ u.pc = "lock" /\ u.kind = "pregen" /\ u.key = k /\ u.batch = {}
        /\ u.serving = None /\ u.bitmap = NoFile
    BY DEF IdleThread
  <1>2. Set(PreGenThread, u) /\ PreGenThread \in Threads
    BY DEF PreGenerate, Threads
  <1>3. thread'[PreGenThread] = u /\ \A v \in Threads \ {PreGenThread} : thread'[v] = thread[v]
    BY <1>2 DEF Set, TypeOK, ThreadsTyped
  <1> HIDE DEF u
  <1> QED
    BY <1>1, <1>3 DEF PreGenerate, StartsJob, diskVars

\* A worker takes a job off the queue (executor).
LEMMA DequeueStarts ==
  ASSUME TypeOK, NEW w \in Threads, NEW j \in queued, Dequeue(w, j)
  PROVE  /\ StartsJob(w, j.kind, j.key, IF j.kind = "regen" THEN {j.by} ELSE {})
         /\ queued' = queued \ {j}
  <1> DEFINE g == IF j.kind = "load" /\ j.gen = Unread THEN gen[TypeOf[j.key]] ELSE j.gen
             b == IF j.kind = "regen" THEN {j.by} ELSE {}
             u == [IdleThread EXCEPT !.pc = "lock", !.kind = j.kind, !.key = j.key, !.gen = g,
                     !.batch = b]
  <1>1. Set(w, u)
    BY DEF Dequeue
  <1> HIDE DEF g, b
  <1>2. /\ u.pc = "lock" /\ u.kind = j.kind /\ u.key = j.key /\ u.batch = b
        /\ u.serving = None /\ u.bitmap = NoFile
    BY DEF IdleThread
  <1>3. thread'[w] = u /\ \A v \in Threads \ {w} : thread'[v] = thread[v]
    BY <1>1 DEF Set, TypeOK, ThreadsTyped
  <1> HIDE DEF u
  <1> QED
    BY <1>2, <1>3 DEF Dequeue, StartsJob, b, diskVars

Requesting ==
  \/ \E r \in Requests, k \in Keys : Load(r, k) \/ Regenerate(r, k)
  \/ \E r \in Requests : Cancel(r)
Starting ==
  \/ \E k \in Keys : PreGenerate(k)
  \/ \E w \in Threads, j \in queued : Dequeue(w, j)

\* The rest changes neither requests nor jobs (clearing only takes the source of a
\* job away).
LEMMA OthersKeepJobs ==
  ASSUME TypeOK, [Next]_vars, ~Requesting, ~Starting, ~\E w \in Threads : ThreadStep(w)
  PROVE  /\ UNCHANGED <<requestVars, queued>>
         /\ \A w \in Threads : thread'[w].pc = thread[w].pc /\ SameWork(thread[w], thread'[w])
  <1> USE DEF SameWork, SameJob
  <1>1. CASE UNCHANGED vars
    BY <1>1 DEF vars
  <1>2. CASE Wipe
    <2>1. ASSUME NEW w \in Threads
          PROVE  thread'[w].pc = thread[w].pc /\ SameWork(thread[w], thread'[w])
      <3>1. thread[w] \in ThreadState
        BY DEF TypeOK, ThreadsTyped, SoundState
      <3>2. thread'[w] \in {thread[w], [thread[w] EXCEPT !.cause = "vanished"]}
        BY <1>2 DEF Wipe
      <3> QED
        BY <3>1, <3>2 DEF ThreadState
    <2> QED
      BY <1>2, <2>1 DEF Wipe
  <1>3. CASE MainStep /\ ~Requesting
    BY <1>3 DEF MainStep, Requesting, SetEnabled, PreferenceListener, ClearCache, ImportCache,
                requestVars
  <1>4. CASE MaintenanceStep /\ ~Wipe
    BY <1>4 DEF MaintenanceStep, StartClear, StartImport, EndImport, ImportEntry
  <1>5. CASE \E M \in SUBSET Types : InitializeCaches(M)
    BY <1>5 DEF InitializeCaches
  <1>6. CASE \E t \in Types : \E S \in SUBSET KeysOf(t) : Trim(t, S)
    BY <1>6 DEF Trim
  <1>7. CASE \E k \in Keys : Expire(k)
    BY <1>7 DEF Expire
  <1> QED
    BY <1>1, <1>2, <1>3, <1>4, <1>5, <1>6, <1>7 DEF Next, Starting

\* A thread step leaves the queue and the other threads alone.
LEMMA OneThreadMoves ==
  ASSUME TypeOK, NEW w \in Threads, ThreadStep(w)
  PROVE  UNCHANGED <<asked, cancelled, queued>> /\ \A v \in Threads \ {w} : thread'[v] = thread[v]
  <1>1. UNCHANGED <<asked, cancelled, queued>>
    BY DEF ThreadStep, LockLoad, LockPreGenerate, LockRegenerate, Probe, Extract,
           CheckBeforeWrite, WriteThumbnail, Verify, GiveUp, MarkFailure, Collect, Decode,
           PutInMemory, Unlock, Elsewhere
  <1> QED
    BY <1>1, ThreadStepEffect

-----------------------------------------------------------------------------
(* One job for each key.  The property is inductive with the place where     *)
(* only a load job goes: whoever takes the waiting requests runs a load.     *)

JobInv ==
  /\ OneJobPerKey
  /\ \A w \in Threads : thread[w].pc = "collect" => thread[w].kind = "load"

Loading(s, k) == s.kind = "load" /\ s.pc \in BeforeCollect /\ s.key = k

OneJob(k) ==
  /\ \A i, j \in QueuedLoads(k) : i = j
  /\ \A v, w \in Threads : Loading(thread[v], k) /\ Loading(thread[w], k) => v = w
  /\ QueuedLoads(k) = {} \/ \A w \in Threads : ~Loading(thread[w], k)
  /\ inFlight[k] = {} <=> QueuedLoads(k) = {} /\ \A w \in Threads : ~Loading(thread[w], k)

\* The same, thread by thread.
LEMMA JobByJob == OneJobPerKey <=> \A k \in Keys : OneJob(k)
  <1>1. \A k \in Keys : RunningLoads(k) = {w \in Threads : Loading(thread[w], k)}
    BY DEF RunningLoads, Loading
  <1> QED
    BY <1>1 DEF OneJobPerKey, OneJob

\* A step after which there is one job for each key.
LEMMA JobsAfter ==
  ASSUME \A i \in Keys : OneJob(i)',
         \A w \in Threads : thread'[w].pc = "collect" => thread'[w].kind = "load"
  PROVE  JobInv'
  <1>1. (\A k \in Keys : OneJob(k))' => OneJobPerKey'
    BY JobByJob, PTL
  <1>2. OneJobPerKey'
    BY <1>1
  <1> QED
    BY <1>2 DEF JobInv

\* A step that leaves the load jobs alone keeps them one for each key.
LEMMA SameLoads ==
  ASSUME JobInv, \A k \in Keys : inFlight'[k] = {} <=> inFlight[k] = {},
         \A k \in Keys : QueuedLoads(k)' = QueuedLoads(k),
         \A w \in Threads : /\ \A k \in Keys : Loading(thread'[w], k) <=> Loading(thread[w], k)
                            /\ thread'[w].pc = "collect" => thread'[w].kind = "load"
  PROVE  JobInv'
  <1>1. ASSUME NEW k \in Keys PROVE OneJob(k)'
    <2>1. OneJob(k)
      BY JobByJob DEF JobInv
    <2> QED
      BY <2>1 DEF OneJob
  <1> QED
    BY <1>1, JobsAfter

\* A request joins the job of its key or starts the only one (load).
LEMMA LoadKeepsJobs ==
  ASSUME TypeOK, JobInv, NEW r \in Requests, NEW k \in Keys, Load(r, k)
  PROVE  JobInv'
  <1>1. UNCHANGED thread
    BY DEF Load
  <1>2. CASE UNCHANGED <<inFlight, queued>>
    BY <1>1, <1>2, SameLoads DEF JobInv, QueuedLoads
  <1>3. CASE NewLoad(r, k)
    <2>1. inFlight' = [inFlight EXCEPT ![k] = @ \cup {r}] /\ inFlight \in [Keys -> SUBSET Requests]
      BY <1>3 DEF NewLoad, TypeOK, RequestsTyped
    <2>2. CASE inFlight[k] # {}
      <3>1. UNCHANGED queued
        BY <1>3, <2>2 DEF NewLoad, StartsWork
      <3> QED
        BY <1>1, <2>1, <2>2, <3>1, SameLoads DEF JobInv, QueuedLoads
    <2>3. CASE inFlight[k] = {}
      <3>1. PICK j : j.kind = "load" /\ j.key = k /\ queued' = queued \cup {j}
        <4> DEFINE j == [kind |-> "load", key |-> k, by |-> r,
                         gen |-> IF ready THEN gen[TypeOf[k]] ELSE Unread]
        <4>1. queued' = queued \cup {j}
          BY <1>3, <2>3 DEF NewLoad, StartsWork
        <4>2. j.kind = "load" /\ j.key = k
          OBVIOUS
        <4> HIDE DEF j
        <4> QED
          BY <4>1, <4>2
      <3>2. QueuedLoads(k) = {} /\ \A w \in Threads : ~Loading(thread[w], k)
        BY <2>3, JobByJob DEF JobInv, OneJob
      <3>3. QueuedLoads(k)' = {j} /\ \A i \in Keys \ {k} : QueuedLoads(i)' = QueuedLoads(i)
        BY <3>1, <3>2 DEF QueuedLoads
      <3>4. inFlight'[k] # {} /\ \A i \in Keys \ {k} : inFlight'[i] = inFlight[i]
        BY <2>1
      <3>5. ASSUME NEW i \in Keys PROVE OneJob(i)'
        <4>1. CASE i = k
          BY <1>1, <3>2, <3>3, <3>4, <4>1 DEF OneJob
        <4>2. CASE i # k
          <5>1. OneJob(i)
            BY JobByJob DEF JobInv
          <5> QED
            BY <1>1, <3>3, <3>4, <4>2, <5>1 DEF OneJob
        <4> QED
          BY <4>1, <4>2
      <3> QED
        BY <1>1, <3>5, JobsAfter DEF JobInv
    <2> QED
      BY <2>2, <2>3
  <1> QED
    BY <1>2, <1>3 DEF Load

\* A job leaves the queue when a worker has it (executor).
LEMMA DequeueKeepsJobs ==
  ASSUME TypeOK, JobInv, NEW w \in Threads, NEW j \in queued, Dequeue(w, j)
  PROVE  JobInv'
  <1>1. /\ thread[w].pc = "idle" /\ thread'[w].pc = "lock" /\ thread'[w].kind = j.kind
        /\ thread'[w].key = j.key /\ \A v \in Threads \ {w} : thread'[v] = thread[v]
        /\ inFlight' = inFlight /\ queued' = queued \ {j} /\ j.key \in Keys
    BY DequeueStarts DEF StartsJob, requestVars, TypeOK, ThreadsTyped, Job
  <1> DEFINE k == j.key
  <1>2. \A i : ~Loading(thread[w], i)
    BY <1>1 DEF Loading, BeforeCollect
  <1>3. \A i \in Keys : Loading(thread'[w], i) <=> j.kind = "load" /\ i = k
    BY <1>1 DEF Loading, BeforeCollect
  <1>4. \A i \in Keys : QueuedLoads(i)' = QueuedLoads(i) \ {j}
    BY <1>1 DEF QueuedLoads
  <1>5. ASSUME NEW i \in Keys PROVE OneJob(i)'
    <2>1. OneJob(i)
      BY JobByJob DEF JobInv
    <2>2. CASE j.kind = "load" /\ i = k
      <3>1. j \in QueuedLoads(i)
        BY <2>2 DEF QueuedLoads
      <3>2. QueuedLoads(i)' = {} /\ inFlight[i] # {} /\ \A v \in Threads : ~Loading(thread[v], i)
        BY <1>4, <2>1, <3>1 DEF OneJob
      <3>3. \A v \in Threads : Loading(thread'[v], i) <=> v = w
        BY <1>1, <1>3, <2>2, <3>2
      <3> QED
        BY <1>1, <3>2, <3>3 DEF OneJob
    <2>3. CASE ~(j.kind = "load" /\ i = k)
      <3>1. QueuedLoads(i)' = QueuedLoads(i)
        BY <1>4, <2>3 DEF QueuedLoads
      <3>2. \A v \in Threads : Loading(thread'[v], i) <=> Loading(thread[v], i)
        BY <1>1, <1>2, <1>3, <2>3
      <3> QED
        BY <1>1, <2>1, <3>1, <3>2 DEF OneJob
    <2> QED
      BY <2>2, <2>3
  <1> QED
    BY <1>1, <1>5, JobsAfter DEF JobInv

\* A job takes the key out of the table when it takes its requests or gives up
\* (loadOrGenerate, completeRequestsWithNull).
LEMMA EndKeepsJobs ==
  ASSUME TypeOK, JobInv, NEW w \in Threads, thread[w].kind = "load",
         thread[w].pc \in {"lock", "collect"},
         thread'[w].pc \notin BeforeCollect, \A v \in Threads \ {w} : thread'[v] = thread[v],
         UNCHANGED queued, inFlight' = [inFlight EXCEPT ![thread[w].key] = {}]
  PROVE  JobInv'
  <1> DEFINE k == thread[w].key
  <1>1. k \in Keys /\ inFlight \in [Keys -> SUBSET Requests]
    BY DEF TypeOK, ThreadsTyped, SoundState, RequestsTyped
  <1>2. Loading(thread[w], k) /\ \A i \in Keys \ {k} : ~Loading(thread[w], i)
    BY DEF Loading, BeforeCollect
  <1>3. \A i : ~Loading(thread'[w], i)
    BY DEF Loading
  <1>4. inFlight'[k] = {} /\ \A i \in Keys \ {k} : inFlight'[i] = inFlight[i]
    BY <1>1
  <1>5. \A i \in Keys : QueuedLoads(i)' = QueuedLoads(i)
    BY DEF QueuedLoads
  <1> HIDE DEF k
  <1>6. ASSUME NEW i \in Keys PROVE OneJob(i)'
    <2>1. OneJob(i)
      BY JobByJob DEF JobInv
    <2>2. CASE i = k
      <3>1. QueuedLoads(i) = {} /\ \A v \in Threads \ {w} : ~Loading(thread[v], i)
        BY <1>2, <2>1, <2>2 DEF OneJob
      <3> QED
        BY <1>3, <1>4, <1>5, <2>2, <3>1 DEF OneJob
    <2>3. CASE i # k
      <3>1. \A v \in Threads : Loading(thread'[v], i) <=> Loading(thread[v], i)
        BY <1>2, <1>3, <2>3
      <3> QED
        BY <1>4, <1>5, <2>1, <2>3, <3>1 DEF OneJob
    <2> QED
      BY <2>2, <2>3
  <1> QED
    BY <1>6, JobsAfter DEF JobInv, BeforeCollect

\* A thread's step keeps the job of each key the only one.
LEMMA ThreadKeepsJobs ==
  ASSUME TypeOK, JobInv, NEW w \in Threads, ThreadStep(w)
  PROVE  JobInv'
  <1>1. UNCHANGED queued /\ \A v \in Threads \ {w} : thread'[v] = thread[v]
    BY OneThreadMoves
  <1>2. \A k \in Keys : QueuedLoads(k)' = QueuedLoads(k)
    BY <1>1 DEF QueuedLoads
  <1>3. ASSUME inFlight' = inFlight,
               \A k \in Keys : Loading(thread'[w], k) <=> Loading(thread[w], k),
               thread'[w].pc = "collect" => thread'[w].kind = "load"
        PROVE  JobInv'
    <2>1. ASSUME NEW v \in Threads
          PROVE  /\ \A k \in Keys : Loading(thread'[v], k) <=> Loading(thread[v], k)
                 /\ thread'[v].pc = "collect" => thread'[v].kind = "load"
      BY <1>1, <1>3 DEF JobInv
    <2> QED
      BY <1>2, <1>3, <2>1, SameLoads
  <1>4. CASE Ends(w)
    BY <1>3, <1>4 DEF Ends, NoRequests, Loading, BeforeCollect, IdleThread
  <1>5. CASE Abandons(w)
    <2>1. thread'[w] = IdleThread
      BY <1>5 DEF Abandons, AbandonLoad, Set, TypeOK, ThreadsTyped
    <2>2. thread'[w].pc \notin BeforeCollect
      BY <2>1 DEF IdleThread, BeforeCollect
    <2>3. /\ thread[w].kind = "load" /\ thread[w].pc = "lock"
          /\ inFlight' = [inFlight EXCEPT ![thread[w].key] = {}]
      BY <1>5 DEF Abandons, AbandonLoad
    <2> QED
      BY <1>1, <2>2, <2>3, EndKeepsJobs
  <1>6. CASE Moves(w)
    BY <1>3, <1>6 DEF Moves, NoRequests, SameWork, SameJob, Loading, BeforeCollect, Working
  <1>7. CASE Collects(w)
    BY <1>1, <1>7, EndKeepsJobs DEF Collects, JobInv, BeforeCollect
  <1>8. CASE Puts(w)
    BY <1>3, <1>8 DEF Puts, SameJob, Loading, BeforeCollect
  <1>9. CASE \E r \in Requests : Serves(w, r)
    BY <1>3, <1>9 DEF Serves, SameJob, Loading, BeforeCollect
  <1> QED
    BY <1>4, <1>5, <1>6, <1>7, <1>8, <1>9, StepCases

\* JobInv is inductive.
LEMMA JobNext == TypeOK /\ JobInv /\ [Next]_vars => JobInv'
  <1> SUFFICES ASSUME TypeOK, JobInv, [Next]_vars PROVE JobInv'
    OBVIOUS
  <1>1. ASSUME NEW r \in Requests, NEW k \in Keys, Regenerate(r, k) PROVE JobInv'
    <2>1. UNCHANGED <<thread, inFlight>>
      BY <1>1 DEF Regenerate
    <2>2. queued' = queued \/ \E j : j.kind = "regen" /\ queued' = queued \cup {j}
      <3> DEFINE j == [kind |-> "regen", key |-> k, gen |-> Unread, by |-> r]
      <3>1. queued' = queued \/ (queued' = queued \cup {j} /\ j.kind = "regen")
        BY <1>1 DEF Regenerate
      <3> QED
        BY <3>1
    <2>3. \A i \in Keys : QueuedLoads(i)' = QueuedLoads(i)
      BY <2>2 DEF QueuedLoads
    <2> QED
      BY <2>1, <2>3, SameLoads DEF JobInv
  <1>2. ASSUME NEW r \in Requests, Cancel(r) PROVE JobInv'
    BY <1>2, SameLoads DEF Cancel, JobInv, QueuedLoads
  <1>3. ASSUME NEW k \in Keys, PreGenerate(k) PROVE JobInv'
    <2>1. StartsJob(PreGenThread, "pregen", k, {}) /\ UNCHANGED queued /\ PreGenThread \in Threads
      BY <1>3, PreGenerateStarts DEF Threads
    <2>2. ASSUME NEW v \in Threads
          PROVE  /\ \A i \in Keys : Loading(thread'[v], i) <=> Loading(thread[v], i)
                 /\ thread'[v].pc = "collect" => thread'[v].kind = "load"
      BY <2>1 DEF StartsJob, Loading, BeforeCollect, JobInv
    <2>3. inFlight' = inFlight /\ \A i \in Keys : QueuedLoads(i)' = QueuedLoads(i)
      BY <2>1 DEF StartsJob, requestVars, QueuedLoads
    <2> QED
      BY <2>2, <2>3, SameLoads
  <1>4. CASE ~Requesting /\ ~Starting /\ ~\E w \in Threads : ThreadStep(w)
    <2>1. /\ UNCHANGED <<requestVars, queued>>
          /\ \A w \in Threads : thread'[w].pc = thread[w].pc /\ SameWork(thread[w], thread'[w])
      BY <1>4, OthersKeepJobs
    <2>2. ASSUME NEW v \in Threads
          PROVE  /\ \A i \in Keys : Loading(thread'[v], i) <=> Loading(thread[v], i)
                 /\ thread'[v].pc = "collect" => thread'[v].kind = "load"
      BY <2>1 DEF SameWork, SameJob, Loading, JobInv
    <2>3. inFlight' = inFlight /\ \A i \in Keys : QueuedLoads(i)' = QueuedLoads(i)
      BY <2>1 DEF requestVars, QueuedLoads
    <2> QED
      BY <2>2, <2>3, SameLoads
  <1> QED
    BY <1>1, <1>2, <1>3, <1>4, LoadKeepsJobs, DequeueKeepsJobs, ThreadKeepsJobs
    DEF Requesting, Starting

\* No job at first (Init).
LEMMA JobInit == Init => JobInv
  BY DEF Init, JobInv, OneJobPerKey, QueuedLoads, RunningLoads, IdleThread

\* Concurrent requests for one file share one job, for any number of files,
\* requests and threads (load, loadOrGenerate).
THEOREM JobsAreShared == Spec => []OneJobPerKey
  <1>1. JobInv => OneJobPerKey
    BY DEF JobInv
  <1> QED
    BY <1>1, JobInit, JobNext, Typing, PTL DEF Spec

-----------------------------------------------------------------------------
(* Every request is answered once.  A request is always in one place: in the *)
(* table, with its queued regeneration, or with the one thread that has it,  *)
(* and leaves it with its answer.                                            *)

\* The requests a thread has.
Held(s) == s.batch \cup ({s.serving} \ {None})

\* Which threads have requests: the executor's, from the start of a regeneration
\* or from the end of the waiting on.
Carries(s) ==
  /\ s.serving # None <=> s.pc = "put"
  /\ s.serving \notin s.batch
  /\ s.batch # {} => \/ s.kind = "regen" /\ s.pc # "idle"
                     \/ s.kind = "load" /\ s.pc \in {"deliver", "put"}
  /\ s.pc = "collect" => s.kind = "load"
  /\ s.pc \in {"deliver", "put"} => s.kind \in {"load", "regen"}

\* A request is in one place: waiting in the table, with its queued
\* regeneration, or with one thread; and it has no answer while it is there.
AnsweredOnce ==
  \A r \in Requests : answers[r] <= 1 /\ (asked[r] = None => answers[r] = 0)
WaitsOnce ==
  \A k \in Keys : \A r \in inFlight[k] : r \in LoadRequests /\ asked[r] = k /\ answers[r] = 0

Regens == {j \in queued : j.kind = "regen"}
QueuedOnce ==
  \A j \in Regens : /\ j.by \in RegenRequests /\ asked[j.by] = j.key /\ answers[j.by] = 0
                    /\ \A i \in Regens \ {j} : i.by # j.by
HeldByOne ==
  \A w \in Threads : \A r \in Held(thread[w]) :
    /\ asked[r] # None /\ answers[r] = 0 /\ r \notin inFlight[asked[r]]
    /\ \A j \in Regens : j.by # r
    /\ \A v \in Threads \ {w} : r \notin Held(thread[v])

Somewhere(r) ==
  \/ r \in inFlight[asked[r]] \/ \E j \in Regens : j.by = r
  \/ \E w \in Threads : r \in Held(thread[w])
NoneIsLost ==
  \A r \in Requests : asked[r] # None /\ answers[r] = 0 /\ r \notin cancelled => Somewhere(r)

RequestInv ==
  /\ \A w \in Threads : Carries(thread[w])
  /\ AnsweredOnce /\ WaitsOnce /\ QueuedOnce /\ HeldByOne /\ NoneIsLost

\* The types the requests are about.
LEMMA RequestTypes ==
  ASSUME TypeOK
  PROVE  /\ \A w \in Threads : Held(thread[w]) \in SUBSET Requests
         /\ asked \in [Requests -> Keys \cup {None}] /\ answers \in [Requests -> Nat]
         /\ inFlight \in [Keys -> SUBSET Requests] /\ None \notin Keys \cup Requests
         /\ LoadRequests \cap RegenRequests = {}
         /\ LoadRequests \subseteq Requests /\ RegenRequests \subseteq Requests
  BY NoneAssumption, RequestAssumption
  DEF TypeOK, RequestsTyped, ThreadsTyped, SoundState, ThreadState, Held, Requests

\* What the invariant is for.
LEMMA RequestsMean ==
  ASSUME RequestInv
  PROVE  AnsweredOnceOrAwaited
  <1>1. ASSUME NEW r \in Requests, Somewhere(r) PROVE Awaited(r)
    BY <1>1 DEF Somewhere, Awaited, Regens, Held
  <1> QED
    BY <1>1 DEF RequestInv, AnsweredOnce, NoneIsLost, AnsweredOnceOrAwaited

\* A step after which every request is where it was.
LEMMA SamePlaces ==
  ASSUME RequestInv, UNCHANGED <<asked, answers, inFlight>>, cancelled \subseteq cancelled',
         Regens' = Regens,
         \A w \in Threads : Carries(thread'[w]) /\ Held(thread'[w]) = Held(thread[w])
  PROVE  RequestInv'
  <1>1. \A w \in Threads : Carries(thread'[w])
    OBVIOUS
  <1>2. AnsweredOnce' /\ WaitsOnce' /\ QueuedOnce'
    BY DEF RequestInv, AnsweredOnce, WaitsOnce, QueuedOnce
  <1>3. HeldByOne'
    BY DEF RequestInv, HeldByOne
  <1>4. NoneIsLost'
    BY DEF RequestInv, NoneIsLost, Somewhere
  <1> QED
    BY <1>1, <1>2, <1>3, <1>4 DEF RequestInv, Carries

\* A thread's step that leaves every request where it was.
LEMMA ThreadKeepsPlaces ==
  ASSUME TypeOK, RequestInv, NEW w \in Threads, ThreadStep(w), NoRequests,
         Carries(thread'[w]), Held(thread'[w]) = Held(thread[w])
  PROVE  RequestInv'
  <1>1. UNCHANGED <<asked, cancelled, queued>> /\ \A v \in Threads \ {w} : thread'[v] = thread[v]
    BY OneThreadMoves
  <1>2. \A v \in Threads : Carries(thread'[v]) /\ Held(thread'[v]) = Held(thread[v])
    BY <1>1 DEF RequestInv
  <1>3. Regens' = Regens
    BY <1>1 DEF Regens
  <1> QED
    BY <1>1, <1>2, <1>3, SamePlaces DEF NoRequests

\* One request leaves the thread that has it: cancelled, or answered.
LEMMA OneIsServed ==
  ASSUME TypeOK, RequestInv, NEW w \in Threads, ThreadStep(w), UNCHANGED inFlight,
         NEW r \in Held(thread[w]), Carries(thread'[w]),
         Held(thread'[w]) = Held(thread[w]) \ {r},
         answers' = Post({r}) \/ (r \in cancelled /\ UNCHANGED answers)
  PROVE  RequestInv'
  <1>1. UNCHANGED <<asked, cancelled, queued>> /\ \A v \in Threads \ {w} : thread'[v] = thread[v]
    BY OneThreadMoves
  <1>2. Regens' = Regens
    BY <1>1 DEF Regens
  <1>3. /\ r \in Requests /\ asked[r] \in Keys /\ asked[r] # None /\ answers[r] = 0
        /\ r \notin inFlight[asked[r]] /\ \A j \in Regens : j.by # r
        /\ \A v \in Threads \ {w} : r \notin Held(thread[v])
    BY RequestTypes DEF RequestInv, HeldByOne
  <1>4. \A k \in Keys : r \notin inFlight[k]
    BY <1>3 DEF RequestInv, WaitsOnce
  <1>5. /\ \A q \in Requests \ {r} : answers'[q] = answers[q]
        /\ answers'[r] = 1 \/ (answers'[r] = answers[r] /\ r \in cancelled)
    BY <1>3 DEF Post
  <1>6. \A v \in Threads : /\ Carries(thread'[v]) /\ r \notin Held(thread'[v])
                           /\ Held(thread'[v]) = Held(thread[v]) \ {r}
    BY <1>1, <1>3 DEF RequestInv
  <1>7. AnsweredOnce'
    BY <1>1, <1>3, <1>5 DEF RequestInv, AnsweredOnce
  <1>8. WaitsOnce'
    BY <1>1, <1>4, <1>5, RequestTypes DEF RequestInv, WaitsOnce
  <1>9. QueuedOnce'
    BY <1>1, <1>2, <1>3, <1>5, RequestTypes DEF RequestInv, QueuedOnce
  <1>10. HeldByOne'
    BY <1>1, <1>2, <1>5, <1>6, RequestTypes DEF RequestInv, HeldByOne
  <1>11. NoneIsLost'
    <2> SUFFICES ASSUME NEW q \in Requests, asked[q] # None, answers'[q] = 0, q \notin cancelled
                 PROVE  Somewhere(q)'
      BY <1>1 DEF NoneIsLost
    <2>1. q # r
      BY <1>5
    <2>2. Somewhere(q)
      BY <1>5, <2>1 DEF RequestInv, NoneIsLost
    <2> QED
      BY <1>1, <1>2, <1>6, <2>1, <2>2 DEF Somewhere
  <1> QED
    BY <1>6, <1>7, <1>8, <1>9, <1>10, <1>11 DEF RequestInv, Carries

\* A job that is given up answers the requests that wait for its key, except the
\* cancelled ones (completeRequestsWithNull).
LEMMA AbandonAnswers ==
  ASSUME TypeOK, RequestInv, NEW w \in Threads, ThreadStep(w), Abandons(w)
  PROVE  RequestInv'
  <1> DEFINE k == thread[w].key
  <1>1. UNCHANGED <<asked, cancelled, queued>> /\ \A v \in Threads \ {w} : thread'[v] = thread[v]
    BY OneThreadMoves
  <1>2. thread'[w] = IdleThread
    BY DEF Abandons, AbandonLoad, Set, TypeOK, ThreadsTyped
  <1>3. /\ k \in Keys /\ inFlight' = [inFlight EXCEPT ![k] = {}]
        /\ answers' = Post(inFlight[k] \ cancelled) /\ thread[w].kind = "load"
        /\ thread[w].pc = "lock"
    BY DEF Abandons, AbandonLoad, TypeOK, ThreadsTyped, SoundState
  <1> HIDE DEF k
  <1>4. Regens' = Regens
    BY <1>1 DEF Regens
  <1>5. Held(thread[w]) = {} /\ Held(thread'[w]) = {} /\ Carries(thread'[w])
    <2>1. Held(IdleThread) = {} /\ Carries(IdleThread)
      BY DEF Held, Carries, IdleThread
    <2>2. thread[w].batch = {} /\ thread[w].serving = None
      BY <1>3 DEF RequestInv, Carries
    <2> QED
      BY <1>2, <2>1, <2>2 DEF Held
  <1>6. \A v \in Threads : Carries(thread'[v]) /\ Held(thread'[v]) = Held(thread[v])
    BY <1>1, <1>5 DEF RequestInv
  <1>7. inFlight'[k] = {} /\ \A i \in Keys \ {k} : inFlight'[i] = inFlight[i]
    BY <1>3, RequestTypes
  <1>8. \A r \in Requests : \/ answers'[r] = answers[r]
                            \/ /\ r \in inFlight[k] \ cancelled /\ answers'[r] = 1
                               /\ answers[r] = 0 /\ asked[r] = k /\ r \in LoadRequests
    BY <1>3, RequestTypes DEF Post, RequestInv, WaitsOnce
  <1>9. AnsweredOnce'
    <2> SUFFICES ASSUME NEW r \in Requests
                 PROVE  answers'[r] <= 1 /\ (asked[r] = None => answers'[r] = 0)
      BY <1>1 DEF AnsweredOnce
    <2>1. answers[r] <= 1 /\ (asked[r] = None => answers[r] = 0)
      BY DEF RequestInv, AnsweredOnce
    <2>2. CASE answers'[r] = answers[r]
      BY <2>1, <2>2
    <2>3. CASE answers'[r] = 1 /\ asked[r] = k
      BY <1>3, <2>3, RequestTypes
    <2> QED
      BY <1>8, <2>2, <2>3
  <1>10. WaitsOnce'
    <2> SUFFICES ASSUME NEW i \in Keys, NEW r \in inFlight'[i]
                 PROVE  r \in LoadRequests /\ asked[r] = i /\ answers'[r] = 0
      BY <1>1 DEF WaitsOnce
    <2>1. i # k /\ r \in inFlight[i]
      BY <1>7
    <2>2. r \in LoadRequests /\ asked[r] = i /\ answers[r] = 0
      BY <2>1 DEF RequestInv, WaitsOnce
    <2> QED
      BY <1>8, <2>1, <2>2, RequestTypes
  <1>11. QueuedOnce'
    BY <1>1, <1>4, <1>8, RequestTypes DEF RequestInv, QueuedOnce
  <1>12. HeldByOne'
    <2> SUFFICES ASSUME NEW v \in Threads, NEW r \in Held(thread[v])
                 PROVE  /\ asked[r] # None /\ answers'[r] = 0 /\ r \notin inFlight'[asked[r]]
                        /\ \A j \in Regens : j.by # r
                        /\ \A u \in Threads \ {v} : r \notin Held(thread[u])
      BY <1>1, <1>4, <1>6 DEF HeldByOne
    <2>1. /\ asked[r] # None /\ answers[r] = 0 /\ r \notin inFlight[asked[r]] /\ r \in Requests
          /\ \A j \in Regens : j.by # r
          /\ \A u \in Threads \ {v} : r \notin Held(thread[u])
      BY RequestTypes DEF RequestInv, HeldByOne
    <2>2. asked[r] \in Keys
      BY <2>1, RequestTypes
    <2> QED
      BY <1>7, <1>8, <2>1, <2>2
  <1>13. NoneIsLost'
    <2> SUFFICES ASSUME NEW r \in Requests, asked[r] # None, answers'[r] = 0, r \notin cancelled
                 PROVE  Somewhere(r)'
      BY <1>1 DEF NoneIsLost
    <2>1. answers[r] = 0 /\ r \notin inFlight[k]
      BY <1>3, <1>8, RequestTypes DEF Post
    <2>2. Somewhere(r) /\ asked[r] \in Keys
      BY <2>1, RequestTypes DEF RequestInv, NoneIsLost
    <2> QED
      BY <1>1, <1>4, <1>6, <1>7, <2>1, <2>2 DEF Somewhere
  <1> QED
    BY <1>6, <1>9, <1>10, <1>11, <1>12, <1>13 DEF RequestInv, Carries

\* A job takes the requests that wait for its key with it (loadOrGenerate).
LEMMA CollectTakes ==
  ASSUME TypeOK, RequestInv, NEW w \in Threads, ThreadStep(w), Collects(w)
  PROVE  RequestInv'
  <1> DEFINE k == thread[w].key
  <1>1. UNCHANGED <<asked, cancelled, queued>> /\ \A v \in Threads \ {w} : thread'[v] = thread[v]
    BY OneThreadMoves
  <1>2. /\ k \in Keys /\ inFlight' = [inFlight EXCEPT ![k] = {}] /\ UNCHANGED answers
    BY DEF Collects, TypeOK, ThreadsTyped, SoundState
  <1>3. /\ thread[w].pc = "collect" /\ thread[w].kind = "load" /\ thread[w].batch = {}
        /\ thread[w].serving = None
        /\ thread'[w].pc = "deliver" /\ thread'[w].kind = "load" /\ thread'[w].serving = None
        /\ thread'[w].batch = inFlight[k]
    BY DEF Collects, SameJob, RequestInv, Carries
  <1> HIDE DEF k
  <1>4. Held(thread[w]) = {} /\ Held(thread'[w]) = inFlight[k]
    BY <1>3 DEF Held
  <1>5. Carries(thread'[w])
    <2>1. None \notin inFlight[k]
      BY <1>2, RequestTypes
    <2> QED
      BY <1>3, <2>1 DEF Carries
  <1>6. Regens' = Regens
    BY <1>1 DEF Regens
  <1>7. inFlight'[k] = {} /\ \A i \in Keys \ {k} : inFlight'[i] = inFlight[i]
    BY <1>2, RequestTypes
  <1>8. \A r \in inFlight[k] : /\ asked[r] = k /\ answers[r] = 0 /\ r \in LoadRequests
                               /\ \A j \in Regens : j.by # r
                               /\ \A v \in Threads : r \notin Held(thread[v])
    BY <1>2, RequestTypes DEF RequestInv, WaitsOnce, QueuedOnce, HeldByOne
  <1>9. AnsweredOnce'
    BY <1>1, <1>2 DEF RequestInv, AnsweredOnce
  <1>10. WaitsOnce'
    BY <1>1, <1>2, <1>7 DEF RequestInv, WaitsOnce
  <1>11. QueuedOnce'
    BY <1>1, <1>2, <1>6 DEF RequestInv, QueuedOnce
  <1>12. HeldByOne'
    <2> SUFFICES ASSUME NEW v \in Threads, NEW r \in Held(thread'[v])
                 PROVE  /\ asked[r] # None /\ answers[r] = 0 /\ r \notin inFlight'[asked[r]]
                        /\ \A j \in Regens : j.by # r
                        /\ \A u \in Threads \ {v} : r \notin Held(thread'[u])
      BY <1>1, <1>2, <1>6 DEF HeldByOne
    <2>1. CASE v = w
      BY <1>1, <1>2, <1>4, <1>7, <1>8, <2>1, RequestTypes
    <2>2. CASE v # w
      <3>1. /\ asked[r] # None /\ answers[r] = 0 /\ r \notin inFlight[asked[r]] /\ r \in Requests
            /\ \A j \in Regens : j.by # r
            /\ \A u \in Threads \ {v} : r \notin Held(thread[u])
            /\ r \in Held(thread[v])
        BY <1>1, <2>2, RequestTypes DEF RequestInv, HeldByOne
      <3>2. asked[r] \in Keys /\ r \notin inFlight[k]
        BY <1>8, <3>1, RequestTypes
      <3> QED
        BY <1>1, <1>4, <1>7, <3>1, <3>2
    <2> QED
      BY <2>1, <2>2
  <1>13. NoneIsLost'
    <2> SUFFICES ASSUME NEW r \in Requests, asked[r] # None, answers[r] = 0, r \notin cancelled
                 PROVE  Somewhere(r)'
      BY <1>1, <1>2 DEF NoneIsLost
    <2>1. Somewhere(r) /\ asked[r] \in Keys
      BY RequestTypes DEF RequestInv, NoneIsLost
    <2>2. CASE r \in inFlight[k]
      BY <1>4, <2>2 DEF Somewhere
    <2>3. CASE r \notin inFlight[k]
      BY <1>1, <1>4, <1>6, <1>7, <2>1, <2>3 DEF Somewhere
    <2> QED
      BY <2>2, <2>3
  <1>14. \A v \in Threads : Carries(thread'[v])
    BY <1>1, <1>5 DEF RequestInv
  <1> QED
    BY <1>9, <1>10, <1>11, <1>12, <1>13, <1>14 DEF RequestInv, Carries

\* Every step of a thread keeps the requests in their places or answers them once.
LEMMA ThreadServes ==
  ASSUME TypeOK, RequestInv, NEW w \in Threads, ThreadStep(w)
  PROVE  RequestInv'
  <1> DEFINE s == thread[w]
             u == thread'[w]
  <1>1. Carries(s)
    BY DEF RequestInv
  <1>2. /\ s \in SoundState /\ s.batch \in SUBSET Requests /\ None \notin Requests
        /\ s.pc = "put" => s.serving \in Requests
    BY NoneAssumption DEF TypeOK, ThreadsTyped, SoundState, ThreadState
  <1>3. CASE Ends(w)
    <2>1. s.batch = {} /\ s.serving = None
      <3>1. CASE s.kind \notin {"load", "regen"}
        <4>1. s.batch = {}
          BY <1>1, <3>1 DEF Carries
        <4>2. s.pc # "put"
          BY <1>1, <3>1 DEF Carries
        <4> QED
          BY <1>1, <4>1, <4>2 DEF Carries
      <3>2. CASE s.pc = "deliver" /\ s.batch = {}
        BY <1>1, <3>2 DEF Carries
      <3> QED
        BY <1>3, <3>1, <3>2 DEF Ends
    <2>2. Held(IdleThread) = {} /\ Carries(IdleThread)
      BY DEF Held, Carries, IdleThread
    <2>3. Held(s) = {}
      BY <2>1 DEF Held
    <2> QED
      BY <1>3, <2>2, <2>3, ThreadKeepsPlaces DEF Ends
  <1>4. CASE Abandons(w)
    BY <1>4, AbandonAnswers
  <1>5. CASE Moves(w)
    <2>1. Held(u) = Held(s)
      BY <1>5 DEF Moves, SameWork, Held
    <2>2. Carries(u)
      BY <1>1, <1>5 DEF Moves, SameWork, SameJob, Carries, BeforeCollect, Working
    <2> QED
      BY <1>5, <2>1, <2>2, ThreadKeepsPlaces DEF Moves
  <1>6. CASE Collects(w)
    BY <1>6, CollectTakes
  <1>7. CASE Puts(w)
    <2>1. /\ s.pc = "put" /\ u.serving = None /\ u.kind = s.kind /\ s.serving # None
          /\ s.serving \notin s.batch /\ s.serving \in Held(s) /\ UNCHANGED inFlight
      BY <1>1, <1>7 DEF Puts, SameJob, Carries, Held
    <2>2. CASE u.pc = "failed" /\ s.kind = "regen" /\ UNCHANGED answers
               /\ u.batch = s.batch \cup {s.serving}
      <3>1. Held(u) = Held(s)
        BY <2>1, <2>2 DEF Held
      <3>2. Carries(u)
        BY <1>2, <2>1, <2>2 DEF Carries
      <3> QED
        BY <2>1, <2>2, <3>1, <3>2, ThreadKeepsPlaces DEF NoRequests
    <2>3. CASE u.pc = "deliver" /\ answers' = Post({s.serving}) /\ u.batch = s.batch
      <3>1. Held(u) = Held(s) \ {s.serving}
        BY <2>1, <2>3 DEF Held
      <3>2. Carries(u)
        BY <1>1, <1>2, <2>1, <2>3 DEF Carries
      <3> QED
        BY <2>1, <2>3, <3>1, <3>2, OneIsServed
    <2> QED
      BY <1>7, <2>2, <2>3 DEF Puts
  <1>8. ASSUME NEW r \in Requests, Serves(w, r) PROVE RequestInv'
    <2>1. /\ s.pc = "deliver" /\ r \in s.batch /\ s.serving = None /\ u.kind = s.kind
          /\ u.batch = s.batch \ {r} /\ UNCHANGED inFlight /\ r # None
          /\ s.kind \in {"regen", "load"} /\ r \in Held(s)
      BY <1>1, <1>2, <1>8 DEF Serves, SameJob, Carries, Held
    <2>2. CASE u.pc = "deliver" /\ u.serving = s.serving
               /\ answers' = IF r \in cancelled THEN answers ELSE Post({r})
      <3>1. Held(u) = Held(s) \ {r}
        BY <2>1, <2>2 DEF Held
      <3>2. Carries(u)
        BY <1>2, <2>1, <2>2 DEF Carries
      <3> QED
        BY <2>1, <2>2, <3>1, <3>2, OneIsServed
    <2>3. CASE u.pc = "put" /\ u.serving = r /\ UNCHANGED answers
      <3>1. Held(u) = Held(s)
        BY <2>1, <2>3 DEF Held
      <3>2. Carries(u)
        BY <1>2, <2>1, <2>3 DEF Carries
      <3> QED
        BY <2>1, <2>3, <3>1, <3>2, ThreadKeepsPlaces DEF NoRequests
    <2> QED
      BY <1>8, <2>2, <2>3 DEF Serves
  <1> QED
    BY <1>3, <1>4, <1>5, <1>6, <1>7, <1>8, StepCases

\* A request made for the first time is answered at once, waits for its key, or has
\* its regeneration queued (load, regenerateVideoThumbnail).
LEMMA FirstAsked ==
  ASSUME TypeOK, RequestInv, NEW r \in Requests, NEW k \in Keys, asked[r] = None,
         asked' = [asked EXCEPT ![r] = k], UNCHANGED <<cancelled, thread>>,
         \/ answers' = Post({r}) /\ UNCHANGED inFlight /\ Regens' = Regens
         \/ /\ UNCHANGED answers /\ Regens' = Regens /\ r \in LoadRequests
            /\ inFlight' = [inFlight EXCEPT ![k] = @ \cup {r}]
         \/ /\ UNCHANGED <<answers, inFlight>> /\ r \in RegenRequests
            /\ \E j : j.key = k /\ j.by = r /\ Regens' = Regens \cup {j}
  PROVE  RequestInv'
  <1>1. answers[r] = 0 /\ asked'[r] = k /\ \A q \in Requests \ {r} : asked'[q] = asked[q]
    BY RequestTypes DEF RequestInv, AnsweredOnce
  <1>2. \A i \in Keys : r \notin inFlight[i]
    BY RequestTypes DEF RequestInv, WaitsOnce
  <1>3. \A j \in Regens : j.by # r
    <2>1. \A j \in Regens : j.key \in Keys
      BY DEF Regens, TypeOK, ThreadsTyped, Job
    <2> QED
      BY <2>1, RequestTypes DEF RequestInv, QueuedOnce
  <1>4. \A w \in Threads : r \notin Held(thread[w])
    BY DEF RequestInv, HeldByOne
  <1>5. \A q \in Requests \ {r} : answers'[q] = answers[q]
    BY RequestTypes DEF Post
  <1>6. answers'[r] \in {0, 1}
    BY <1>1, RequestTypes DEF Post
  <1>7. \A i \in Keys : inFlight'[i] = inFlight[i] \/ inFlight'[i] = inFlight[i] \cup {r}
    BY RequestTypes
  <1>8. AnsweredOnce'
    BY <1>1, <1>5, <1>6, RequestTypes DEF RequestInv, AnsweredOnce
  <1>9. WaitsOnce'
    <2> SUFFICES ASSUME NEW i \in Keys, NEW q \in inFlight'[i]
                 PROVE  q \in LoadRequests /\ asked'[q] = i /\ answers'[q] = 0
      BY DEF WaitsOnce
    <2>1. CASE q # r
      <3>1. q \in inFlight[i]
        BY <1>7, <2>1
      <3> QED
        BY <1>1, <1>5, <2>1, <3>1, RequestTypes DEF RequestInv, WaitsOnce
    <2>2. CASE q = r
      <3>1. inFlight' # inFlight /\ inFlight' = [inFlight EXCEPT ![k] = @ \cup {r}]
        BY <1>2, <2>2
      <3>2. i = k
        BY <1>2, <2>2, <3>1, RequestTypes
      <3> QED
        BY <1>1, <2>2, <3>1, <3>2
    <2> QED
      BY <2>1, <2>2
  <1>10. QueuedOnce'
    <2>1. ASSUME NEW j \in Regens
          PROVE  /\ j.by \in RegenRequests /\ asked'[j.by] = j.key /\ answers'[j.by] = 0
                 /\ j.by # r /\ \A i \in Regens \ {j} : i.by # j.by
      BY <1>1, <1>3, <1>5, RequestTypes DEF RequestInv, QueuedOnce
    <2>2. CASE Regens' = Regens
      BY <2>1, <2>2 DEF QueuedOnce
    <2>3. CASE /\ UNCHANGED <<answers, inFlight>> /\ r \in RegenRequests
               /\ \E j : j.key = k /\ j.by = r /\ Regens' = Regens \cup {j}
      BY <1>1, <2>1, <2>3 DEF QueuedOnce
    <2> QED
      BY <2>2, <2>3
  <1>11. HeldByOne'
    <2> SUFFICES ASSUME NEW w \in Threads, NEW q \in Held(thread[w])
                 PROVE  /\ asked'[q] # None /\ answers'[q] = 0 /\ q \notin inFlight'[asked'[q]]
                        /\ \A j \in Regens' : j.by # q
                        /\ \A v \in Threads \ {w} : q \notin Held(thread[v])
      BY DEF HeldByOne
    <2>1. /\ q # r /\ q \in Requests /\ asked[q] # None /\ answers[q] = 0
          /\ q \notin inFlight[asked[q]] /\ \A j \in Regens : j.by # q
          /\ \A v \in Threads \ {w} : q \notin Held(thread[v])
      BY <1>4, RequestTypes DEF RequestInv, HeldByOne
    <2>2. asked'[q] = asked[q] /\ asked[q] \in Keys /\ answers'[q] = 0
      BY <1>1, <1>5, <2>1, RequestTypes
    <2>3. q \notin inFlight'[asked[q]]
      BY <1>7, <2>1, <2>2
    <2>4. \A j \in Regens' : j.by # q
      BY <2>1
    <2> QED
      BY <2>1, <2>2, <2>3, <2>4
  <1>12. NoneIsLost'
    <2> SUFFICES ASSUME NEW q \in Requests, asked'[q] # None, answers'[q] = 0, q \notin cancelled
                 PROVE  Somewhere(q)'
      BY DEF NoneIsLost
    <2>1. CASE q # r
      <3>1. Somewhere(q) /\ asked'[q] = asked[q] /\ asked[q] \in Keys
        BY <1>1, <1>5, <2>1, RequestTypes DEF RequestInv, NoneIsLost
      <3>2. inFlight[asked[q]] \subseteq inFlight'[asked'[q]] /\ Regens \subseteq Regens'
        BY <1>7, <3>1
      <3> QED
        BY <3>1, <3>2 DEF Somewhere
    <2>2. CASE q = r
      <3>1. CASE answers' = Post({r})
        BY <1>1, <2>2, <3>1 DEF Post
      <3>2. CASE inFlight' = [inFlight EXCEPT ![k] = @ \cup {r}]
        BY <1>1, <2>2, <3>2, RequestTypes DEF Somewhere
      <3>3. CASE \E j : j.key = k /\ j.by = r /\ Regens' = Regens \cup {j}
        BY <2>2, <3>3 DEF Somewhere
      <3> QED
        BY <3>1, <3>2, <3>3
    <2> QED
      BY <2>1, <2>2
  <1> QED
    BY <1>8, <1>9, <1>10, <1>11, <1>12 DEF RequestInv

\* Asking, for either kind of request.
LEMMA AskingKeeps ==
  ASSUME TypeOK, RequestInv, NEW r \in Requests, NEW k \in Keys, Load(r, k) \/ Regenerate(r, k)
  PROVE  RequestInv'
  <1>1. asked[r] = None /\ asked' = [asked EXCEPT ![r] = k] /\ UNCHANGED <<cancelled, thread>>
    BY DEF Load, Regenerate
  <1>2. CASE answers' = Post({r}) /\ UNCHANGED <<inFlight, queued>>
    <2>1. Regens' = Regens
      BY <1>2 DEF Regens
    <2> QED
      BY <1>1, <1>2, <2>1, FirstAsked
  <1>3. CASE r \in LoadRequests /\ NewLoad(r, k)
    <2>1. \E j : j.kind = "load" /\ (queued' = queued \cup {j} \/ queued' = queued)
      <3> DEFINE j == [kind |-> "load", key |-> k, by |-> r,
                       gen |-> IF ready THEN gen[TypeOf[k]] ELSE Unread]
      <3>1. queued' = queued \cup {j} \/ queued' = queued
        BY <1>3 DEF NewLoad
      <3>2. j.kind = "load"
        OBVIOUS
      <3> HIDE DEF j
      <3> QED
        BY <3>1, <3>2
    <2>2. Regens' = Regens
      BY <2>1 DEF Regens
    <2>3. UNCHANGED answers /\ inFlight' = [inFlight EXCEPT ![k] = @ \cup {r}]
      BY <1>3 DEF NewLoad
    <2> QED
      BY <1>1, <1>3, <2>2, <2>3, FirstAsked
  <1>4. CASE /\ r \in RegenRequests /\ UNCHANGED <<answers, inFlight>>
             /\ queued' = queued \cup {[kind |-> "regen", key |-> k, gen |-> Unread, by |-> r]}
    <2> DEFINE j == [kind |-> "regen", key |-> k, gen |-> Unread, by |-> r]
    <2>1. j.kind = "regen" /\ j.key = k /\ j.by = r /\ queued' = queued \cup {j}
      BY <1>4
    <2> HIDE DEF j
    <2>2. Regens' = Regens \cup {j}
      BY <2>1 DEF Regens
    <2>3. \E i : i.key = k /\ i.by = r /\ Regens' = Regens \cup {i}
      BY <2>1, <2>2
    <2> QED
      BY <1>1, <1>4, <2>3, FirstAsked
  <1> QED
    BY <1>2, <1>3, <1>4 DEF Load, Regenerate

\* A worker that takes a regeneration has its request from then on (executor).
LEMMA DequeueTakes ==
  ASSUME TypeOK, RequestInv, NEW w \in Threads, NEW j \in queued, Dequeue(w, j)
  PROVE  RequestInv'
  <1>1. /\ StartsJob(w, j.kind, j.key, IF j.kind = "regen" THEN {j.by} ELSE {})
        /\ queued' = queued \ {j} /\ j.by \in Requests
    BY DequeueStarts DEF TypeOK, ThreadsTyped, Job
  <1>2. /\ UNCHANGED <<asked, cancelled, answers, inFlight>>
        /\ \A v \in Threads \ {w} : thread'[v] = thread[v]
    BY <1>1 DEF StartsJob, requestVars
  <1>3. Held(thread[w]) = {} /\ Held(thread'[w]) = IF j.kind = "regen" THEN {j.by} ELSE {}
    <2>1. thread[w].batch = {} /\ thread[w].serving = None
      BY <1>1 DEF StartsJob, RequestInv, Carries
    <2> QED
      BY <1>1, <2>1 DEF StartsJob, Held
  <1>4. Carries(thread'[w])
    <2>1. j.by # None
      BY <1>1, RequestTypes
    <2> QED
      BY <1>1, <2>1 DEF StartsJob, Carries
  <1>5. \A v \in Threads : Carries(thread'[v])
    BY <1>2, <1>4 DEF RequestInv
  <1>6. CASE j.kind # "regen"
    <2>1. Regens' = Regens
      BY <1>1, <1>6 DEF Regens
    <2>2. \A v \in Threads : Held(thread'[v]) = Held(thread[v])
      BY <1>2, <1>3, <1>6
    <2> QED
      BY <1>2, <1>5, <2>1, <2>2, SamePlaces
  <1>7. CASE j.kind = "regen"
    <2>1. Regens' = Regens \ {j} /\ j \in Regens
      BY <1>1, <1>7 DEF Regens
    <2>2. /\ j.by \in RegenRequests /\ asked[j.by] = j.key /\ answers[j.by] = 0 /\ j.key \in Keys
          /\ \A i \in Regens \ {j} : i.by # j.by
      BY <2>1 DEF RequestInv, QueuedOnce, Regens, TypeOK, ThreadsTyped, Job
    <2>3. (\A k \in Keys : j.by \notin inFlight[k]) /\ \A v \in Threads : j.by \notin Held(thread[v])
      BY <2>1, <2>2, RequestTypes DEF RequestInv, WaitsOnce, HeldByOne
    <2>4. AnsweredOnce' /\ WaitsOnce' /\ QueuedOnce'
      BY <1>2, <2>1 DEF RequestInv, AnsweredOnce, WaitsOnce, QueuedOnce
    <2>5. HeldByOne'
      <3> SUFFICES ASSUME NEW v \in Threads, NEW r \in Held(thread'[v])
                   PROVE  /\ asked[r] # None /\ answers[r] = 0 /\ r \notin inFlight[asked[r]]
                          /\ \A i \in Regens' : i.by # r
                          /\ \A u \in Threads \ {v} : r \notin Held(thread'[u])
        BY <1>2 DEF HeldByOne
      <3>1. CASE v = w
        BY <1>2, <1>3, <1>7, <2>1, <2>2, <2>3, <3>1, RequestTypes
      <3>2. CASE v # w
        <4>1. /\ asked[r] # None /\ answers[r] = 0 /\ r \notin inFlight[asked[r]]
              /\ \A i \in Regens : i.by # r
              /\ \A u \in Threads \ {v} : r \notin Held(thread[u])
          BY <1>2, <3>2 DEF RequestInv, HeldByOne
        <4> QED
          BY <1>2, <1>3, <1>7, <2>1, <4>1
      <3> QED
        BY <3>1, <3>2
    <2>6. NoneIsLost'
      <3> SUFFICES ASSUME NEW r \in Requests, asked[r] # None, answers[r] = 0, r \notin cancelled
                   PROVE  Somewhere(r)'
        BY <1>2 DEF NoneIsLost
      <3>1. Somewhere(r)
        BY DEF RequestInv, NoneIsLost
      <3>2. CASE r = j.by
        BY <1>3, <1>7, <3>2 DEF Somewhere
      <3>3. CASE r # j.by
        BY <1>2, <1>3, <2>1, <3>1, <3>3 DEF Somewhere
      <3> QED
        BY <3>2, <3>3
    <2> QED
      BY <1>5, <2>4, <2>5, <2>6 DEF RequestInv, Carries
  <1> QED
    BY <1>6, <1>7

\* RequestInv is inductive.
LEMMA RequestNext == TypeOK /\ RequestInv /\ [Next]_vars => RequestInv'
  <1> SUFFICES ASSUME TypeOK, RequestInv, [Next]_vars PROVE RequestInv'
    OBVIOUS
  <1>1. ASSUME NEW r \in Requests, Cancel(r) PROVE RequestInv'
    <2>1. /\ UNCHANGED <<asked, answers, inFlight, queued, thread>>
          /\ cancelled \subseteq cancelled'
      BY <1>1 DEF Cancel
    <2>2. Regens' = Regens
      BY <2>1 DEF Regens
    <2> QED
      BY <2>1, <2>2, SamePlaces DEF RequestInv
  <1>2. ASSUME NEW k \in Keys, PreGenerate(k) PROVE RequestInv'
    <2>1. StartsJob(PreGenThread, "pregen", k, {}) /\ UNCHANGED queued /\ PreGenThread \in Threads
      BY <1>2, PreGenerateStarts DEF Threads
    <2>2. Held(thread[PreGenThread]) = {} /\ Held(thread'[PreGenThread]) = {}
      <3>1. thread[PreGenThread].batch = {} /\ thread[PreGenThread].serving = None
        BY <2>1 DEF StartsJob, RequestInv, Carries
      <3> QED
        BY <2>1, <3>1 DEF StartsJob, Held
    <2>3. Carries(thread'[PreGenThread])
      BY <2>1 DEF StartsJob, Carries
    <2>4. \A w \in Threads : Carries(thread'[w]) /\ Held(thread'[w]) = Held(thread[w])
      BY <2>1, <2>2, <2>3 DEF StartsJob, RequestInv
    <2>5. Regens' = Regens
      BY <2>1 DEF Regens
    <2> QED
      BY <2>1, <2>4, <2>5, SamePlaces DEF StartsJob, requestVars
  <1>3. CASE ~Requesting /\ ~Starting /\ ~\E w \in Threads : ThreadStep(w)
    <2>1. /\ UNCHANGED <<requestVars, queued>>
          /\ \A w \in Threads : thread'[w].pc = thread[w].pc /\ SameWork(thread[w], thread'[w])
      BY <1>3, OthersKeepJobs
    <2>2. \A w \in Threads : Carries(thread'[w]) /\ Held(thread'[w]) = Held(thread[w])
      BY <2>1 DEF SameWork, SameJob, RequestInv, Carries, Held
    <2>3. Regens' = Regens
      BY <2>1 DEF Regens
    <2> QED
      BY <2>1, <2>2, <2>3, SamePlaces DEF requestVars
  <1> QED
    BY <1>1, <1>2, <1>3, AskingKeeps, DequeueTakes, ThreadServes DEF Requesting, Starting

\* Nothing is asked at first (Init).
LEMMA RequestInit == Init => RequestInv
  <1> SUFFICES ASSUME Init PROVE RequestInv
    OBVIOUS
  <1>1. Held(IdleThread) = {} /\ Carries(IdleThread)
    BY DEF Held, Carries, IdleThread
  <1>2. Regens = {}
    BY DEF Init, Regens
  <1> QED
    BY <1>1, <1>2 DEF Init, RequestInv, AnsweredOnce, WaitsOnce, QueuedOnce, HeldByOne, NoneIsLost

\* No callback is posted twice, and a request that is neither cancelled nor answered
\* is on its way, for any number of requests and threads and whatever is cleared,
\* imported, trimmed or switched off (load, regenerateVideoThumbnail, completeRequests).
THEOREM RequestsAreAnswered == Spec => []AnsweredOnceOrAwaited
  <1>1. RequestInv => AnsweredOnceOrAwaited
    BY RequestsMean
  <1> QED
    BY <1>1, RequestInit, RequestNext, Typing, PTL DEF Spec

-----------------------------------------------------------------------------
(* Imported thumbnails.  What a step of a thread writes is never an imported *)
(* thumbnail, so one that is there afterwards was there before.              *)

\* The places of a job that makes a thumbnail.
Making == {"extract", "check", "writing", "verify", "failed", "mark"}

\* A decoded bitmap belongs to a holder of the request lock, and is the imported
\* thumbnail's if there is one.
BitmapsInv ==
  /\ MemoryShowsImport
  /\ \A w \in Threads : thread[w].bitmap # NoFile =>
       /\ HoldsRequestLock(w)
       /\ thumb[thread[w].key].kind = "imported" => thread[w].bitmap = thumb[thread[w].key]

\* Nothing is imported before the caches are ready, and a thumbnail is made, or is
\* being regenerated, only for a key that has no imported one.
ImportInv ==
  /\ ~ready => maint.pc = "idle" /\ \A k \in Keys : thumb[k].kind # "imported"
  /\ \A w \in Threads :
       (thread[w].pc \in Making \/ (thread[w].kind = "regen" /\ HoldsRequestLock(w)))
         => thumb[thread[w].key].kind # "imported"

\* A thread's step puts nothing but its own bitmap in memory (PutInMemory), and no
\* imported thumbnail on disk.
LEMMA ThreadMemory ==
  ASSUME TypeOK, NEW w \in Threads, ThreadStep(w)
  PROVE  /\ \A k \in Keys :
              \/ mem'[k] = mem[k]
              \/ mem'[k] = NoFile
              \/ k = thread[w].key /\ thread[w].bitmap # NoFile /\ mem'[k] = thread[w].bitmap
         /\ \A k \in Keys : thumb'[k].kind = "imported" => thumb'[k] = thumb[k]
  <1>1. \A k \in Keys :
          \/ mem'[k] = mem[k]
          \/ mem'[k] = NoFile
          \/ k = thread[w].key /\ thread[w].bitmap # NoFile /\ mem'[k] = thread[w].bitmap
    <2>1. CASE LockRegenerate(w)
      BY <2>1 DEF LockRegenerate, EvictEntry, TypeOK, CacheTyped
    <2>2. CASE PutInMemory(w)
      BY <2>2 DEF PutInMemory, TypeOK, CacheTyped
    <2>3. CASE UNCHANGED mem
      BY <2>3
    <2>4. UNCHANGED mem \/ LockRegenerate(w) \/ PutInMemory(w)
      BY DEF ThreadStep, LockLoad, LockPreGenerate, Probe, Extract, CheckBeforeWrite,
             WriteThumbnail, Verify, GiveUp, MarkFailure, Collect, Decode, Unlock
    <2> QED
      BY <2>1, <2>2, <2>3, <2>4
  <1>2. \A k \in Keys : thumb'[k].kind = "imported" => thumb'[k] = thumb[k]
    <2>1. \A k \in Keys :
            \/ thumb'[k] = thumb[k]
            \/ thumb'[k] = NoFile
            \/ thumb'[k] = [kind |-> "made", gen |-> thread[w].gen]
      BY ThreadStepEffect, Zenon
    <2> QED
      BY <2>1 DEF NoFile
  <1> QED
    BY <1>1, <1>2

\* The other steps take thumbnails and bitmaps away; only an import puts one there.
LEMMA OtherFiles ==
  ASSUME TypeOK, [Next]_vars, ~\E w \in Threads : ThreadStep(w),
         ~\E k \in Keys : ImportEntry(k)
  PROVE  \A k \in Keys : /\ thumb'[k] = thumb[k] \/ thumb'[k] = NoFile
                         /\ mem'[k] = mem[k] \/ mem'[k] = NoFile
  <1>1. CASE UNCHANGED vars
    BY <1>1 DEF vars, diskVars
  <1>2. CASE MainStep
    BY <1>2 DEF MainStep, Load, Regenerate, Cancel, SetEnabled, PreferenceListener, ClearCache,
                ImportCache, EvictAll, diskVars
  <1>3. CASE MaintenanceStep
    BY <1>3 DEF MaintenanceStep, StartClear, Wipe, StartImport, EndImport, EvictAll, diskVars
  <1>4. CASE \E M \in SUBSET Types : InitializeCaches(M)
    BY <1>4 DEF InitializeCaches
  <1>5. CASE \E t \in Types : \E S \in SUBSET KeysOf(t) : Trim(t, S)
    BY <1>5 DEF Trim
  <1>6. CASE (\E k \in Keys : Expire(k)) \/ Starting
    BY <1>6 DEF Expire, Starting, PreGenerate, Dequeue, diskVars
  <1> QED
    BY <1>1, <1>2, <1>3, <1>4, <1>5, <1>6 DEF Next, Starting

\* So they leave the decoded bitmaps with their threads.
LEMMA OtherThreads ==
  ASSUME TypeOK, [Next]_vars, ~\E w \in Threads : ThreadStep(w)
  PROVE  \A w \in Threads :
           \/ /\ thread'[w].pc = thread[w].pc /\ thread'[w].key = thread[w].key
              /\ thread'[w].kind = thread[w].kind /\ thread'[w].bitmap = thread[w].bitmap
           \/ thread'[w].pc = "lock" /\ thread'[w].bitmap = NoFile
  <1>1. CASE Requesting
    BY <1>1 DEF Requesting, Load, Regenerate, Cancel
  <1>2. ASSUME NEW k \in Keys, PreGenerate(k)
        PROVE  \A w \in Threads  :
               \/ thread'[w] = thread[w]
               \/ thread'[w].pc = "lock" /\ thread'[w].bitmap = NoFile
    <2>1. StartsJob(PreGenThread, "pregen", k, {})
      BY <1>2, PreGenerateStarts
    <2> QED
      BY <2>1 DEF StartsJob
  <1>3. ASSUME NEW v \in Threads, NEW j \in queued, Dequeue(v, j)
        PROVE  \A w \in Threads  :
               \/ thread'[w] = thread[w]
               \/ thread'[w].pc = "lock" /\ thread'[w].bitmap = NoFile
    <2>1. StartsJob(v, j.kind, j.key, IF j.kind = "regen" THEN {j.by} ELSE {})
      BY <1>3, DequeueStarts
    <2> QED
      BY <2>1 DEF StartsJob
  <1>4. CASE ~Requesting /\ ~Starting
    BY <1>4, OthersKeepJobs DEF SameWork, SameJob
  <1> QED
    BY <1>1, <1>2, <1>3, <1>4 DEF Starting

\* The bitmap a thread has decoded is that of the imported thumbnail, if there is one.
ShowsImport(s) ==
  s.bitmap # NoFile =>
    /\ s.pc \notin {"idle", "lock"}
    /\ thumb[s.key].kind = "imported" => s.bitmap = thumb[s.key]

\* The same, thread by thread.
LEMMA BitmapByBitmap ==
  BitmapsInv <=> MemoryShowsImport /\ \A w \in Threads : ShowsImport(thread[w])
  BY DEF BitmapsInv, ShowsImport, HoldsRequestLock

\* A thread decodes under the request lock, and what it puts in memory is the imported
\* thumbnail if there is one (Decode, PutInMemory).
LEMMA ThreadShowsImport ==
  ASSUME TypeOK, BitmapsInv, NEW w \in Threads, ThreadStep(w)
  PROVE  BitmapsInv'
  <1>1. \A v \in Threads : ShowsImport(thread[v])
    BY BitmapByBitmap
  <1>2. /\ thread[w].pc # "idle" => thread[w].key \in Keys
        /\ \A v \in Threads : thread[v].pc # "idle" => thread[v].key \in Keys
    BY DEF TypeOK, ThreadsTyped, SoundState
  <1>3. MemoryShowsImport'
    BY <1>1, <1>2, ThreadMemory, BitmapByBitmap DEF MemoryShowsImport, ShowsImport
  <1>4. \/ thread'[w].bitmap = NoFile
        \/ /\ thread'[w].pc \notin {"idle", "lock"} /\ thread'[w].key = thread[w].key
           /\ thread[w].pc # "idle"
           /\ \/ thread'[w].bitmap = thread[w].bitmap
              \/ thread'[w].bitmap = thumb[thread[w].key]
    <2>1. CASE Ends(w) \/ Abandons(w)
      <3>1. thread'[w] = IdleThread
        BY <2>1 DEF Ends, Abandons, AbandonLoad, Set, TypeOK, ThreadsTyped
      <3> QED
        BY <3>1 DEF IdleThread
    <2>2. CASE Moves(w)
      BY <2>2 DEF Moves, SameWork, SameJob, Working, BeforeCollect
    <2>3. CASE Collects(w) \/ Puts(w)
      BY <2>3 DEF Collects, Puts, SameJob
    <2>4. ASSUME NEW r \in Requests, Serves(w, r) PROVE <1>4
      BY <2>4 DEF Serves, SameJob
    <2> QED
      BY <2>1, <2>2, <2>3, <2>4, StepCases
  <1>5. ASSUME NEW v \in Threads PROVE ShowsImport(thread[v])'
    <2>1. CASE v = w
      BY <1>1, <1>2, <1>4, <2>1, ThreadMemory DEF ShowsImport
    <2>2. CASE v # w
      BY <1>1, <1>2, <2>2, ThreadMemory, OneThreadMoves DEF ShowsImport
    <2> QED
      BY <2>1, <2>2
  <1> QED
    BY <1>3, <1>5 DEF BitmapsInv, ShowsImport, HoldsRequestLock

\* An import waits for whoever has the request lock, and then no thread has a bitmap of
\* the file it replaces (importCacheInternal).
LEMMA ImportShowsImport ==
  ASSUME TypeOK, BitmapsInv, NEW k \in Keys, ImportEntry(k)
  PROVE  BitmapsInv'
  <1>1. /\ thumb' = [thumb EXCEPT ![k] = [kind |-> "imported", gen |-> maint.gen]]
        /\ mem' = [mem EXCEPT ![k] = NoFile] /\ UNCHANGED thread /\ RequestLockFree(k)
    BY DEF ImportEntry, EvictEntry
  <1>2. \A i \in Keys \ {k} : thumb'[i] = thumb[i] /\ mem'[i] = mem[i]
    BY <1>1 DEF TypeOK, CacheTyped
  <1>3. mem'[k] = NoFile
    BY <1>1 DEF TypeOK, CacheTyped
  <1>4. MemoryShowsImport'
    BY <1>2, <1>3 DEF BitmapsInv, MemoryShowsImport
  <1>5. ASSUME NEW w \in Threads, thread[w].bitmap # NoFile
        PROVE  thread[w].key # k /\ thread[w].key \in Keys /\ HoldsRequestLock(w)
    BY <1>1, <1>5 DEF BitmapsInv, RequestLockFree, HoldsRequestLock, TypeOK, ThreadsTyped, SoundState
  <1> QED
    BY <1>1, <1>2, <1>4, <1>5 DEF BitmapsInv, HoldsRequestLock

\* BitmapsInv is inductive.
LEMMA BitmapsNext == TypeOK /\ BitmapsInv /\ [Next]_vars => BitmapsInv'
  <1> SUFFICES ASSUME TypeOK, BitmapsInv, [Next]_vars PROVE BitmapsInv'
    OBVIOUS
  <1>1. CASE ~(\E w \in Threads : ThreadStep(w)) /\ ~\E k \in Keys : ImportEntry(k)
    <2>1. \A k \in Keys : /\ thumb'[k] = thumb[k] \/ thumb'[k] = NoFile
                          /\ mem'[k] = mem[k] \/ mem'[k] = NoFile
      BY <1>1, OtherFiles
    <2>2. MemoryShowsImport'
      BY <2>1 DEF BitmapsInv, MemoryShowsImport, NoFile
    <2>3. \A w \in Threads : thread[w].pc # "idle" => thread[w].key \in Keys
      BY DEF TypeOK, ThreadsTyped, SoundState
    <2>4. \A w \in Threads : ShowsImport(thread[w])'
      BY <1>1, <2>1, <2>3, OtherThreads, BitmapByBitmap DEF ShowsImport, NoFile
    <2> QED
      BY <2>2, <2>4 DEF BitmapsInv, ShowsImport, HoldsRequestLock
  <1> QED
    BY <1>1, ThreadShowsImport, ImportShowsImport

\* Nothing is decoded at first (Init).
LEMMA BitmapsInit == Init => BitmapsInv
  BY DEF Init, BitmapsInv, MemoryShowsImport, IdleThread

\* Once an imported thumbnail is on disk, no older bitmap of its key is left in memory
\* or comes back to it (importCacheInternal against loadOrGenerate).
THEOREM ImportIsShown == Spec => []MemoryShowsImport
  <1>1. BitmapsInv => MemoryShowsImport
    BY DEF BitmapsInv
  <1> QED
    BY <1>1, BitmapsInit, BitmapsNext, Typing, PTL DEF Spec

-----------------------------------------------------------------------------
(* Whose job may take an imported thumbnail away.  A job that makes a        *)
(* thumbnail has seen under the request lock that there is none, and no      *)
(* import gets in until it lets that lock go.                                *)

\* The thread is making a thumbnail, or regenerates one and may still give up on it.
AtWork(s) == s.pc \in Making \/ (s.kind = "regen" /\ s.pc \notin {"idle", "lock"})

\* A job is at work because it was before, or because it has just removed the thumbnail
\* (LockRegenerate, Probe).
LEMMA WorkStarts ==
  ASSUME TypeOK, NEW w \in Threads, ThreadStep(w), AtWork(thread'[w])
  PROVE  /\ thread[w].pc # "idle" /\ thread'[w].key = thread[w].key
         /\ AtWork(thread[w]) \/ thumb'[thread[w].key] = NoFile
  <1> DEFINE s == thread[w]
             Goal == /\ s.pc # "idle" /\ thread'[w].key = s.key
                     /\ AtWork(s) \/ thumb'[s.key] = NoFile
  <1>1. s \in ThreadState /\ (s.pc # "idle" => s.key \in Keys)
    BY DEF TypeOK, ThreadsTyped, SoundState
  <1>2. ASSUME NEW u, Set(w, u) PROVE thread'[w] = u
    BY <1>2 DEF Set, TypeOK, ThreadsTyped
  <1>3. CASE Ends(w) \/ Abandons(w)
    <2>1. thread'[w] = IdleThread
      BY <1>2, <1>3 DEF Ends, Abandons, AbandonLoad
    <2> QED
      BY <2>1 DEF AtWork, Making, IdleThread
  <1>4. CASE Collects(w) \/ Puts(w)
    BY <1>4 DEF Collects, Puts, AtWork, Making, SameJob
  <1>5. ASSUME NEW r \in Requests, Serves(w, r) PROVE Goal
    BY <1>5 DEF Serves, AtWork, Making, SameJob
  <1>6. CASE Moves(w)
    <2>1. s.pc \in Working /\ thread'[w].key = s.key /\ thread'[w].kind = s.kind
      BY <1>6 DEF Moves, SameWork, SameJob
    <2>2. CASE s.pc = "lock"
      <3>1. LockLoad(w) \/ LockPreGenerate(w) \/ LockRegenerate(w)
        BY <2>2 DEF ThreadStep, Probe, Extract, CheckBeforeWrite, WriteThumbnail, Verify, GiveUp,
           MarkFailure, Collect, Decode, PutInMemory, Unlock
      <3>2. CASE LockLoad(w)
        <4>1. thread'[w].pc = "probe" \/ thread'[w] = IdleThread
          BY <1>1, <1>2, <3>2 DEF LockLoad, Goto, AbandonLoad, ThreadState
        <4> QED
          BY <2>1, <3>2, <4>1 DEF LockLoad, Waiting, AtWork, Making, IdleThread
      <3>3. CASE LockPreGenerate(w)
        <4>1. thread'[w].pc = "probe" \/ thread'[w] = IdleThread
          BY <1>1, <1>2, <3>3 DEF LockPreGenerate, ThreadState
        <4> QED
          BY <2>1, <3>3, <4>1 DEF LockPreGenerate, Waiting, AtWork, Making, IdleThread
      <3>4. CASE LockRegenerate(w)
        BY <1>1, <2>1, <2>2, <3>4 DEF LockRegenerate, TypeOK, CacheTyped
      <3> QED
        BY <3>1, <3>2, <3>3, <3>4
    <2>3. CASE s.pc = "probe" /\ s.kind # "regen"
      <3>1. Probe(w)
        BY <2>3 DEF ThreadStep, LockLoad, LockPreGenerate, LockRegenerate, Waiting, Extract,
           CheckBeforeWrite, WriteThumbnail, Verify, GiveUp, MarkFailure, Collect, Decode,
           PutInMemory, Unlock
      <3>2. thread'[w] # Resolved(w)
        <4>1. Resolved(w).pc \in {"collect", "deliver", "idle"}
          BY <1>1 DEF Resolved, IdleThread, ThreadState
        <4> QED
          BY <2>1, <2>3, <4>1 DEF AtWork, Making
      <3>3. thumb' = [thumb EXCEPT ![s.key] = NoFile]
        BY <1>2, <3>1, <3>2 DEF Probe
      <3> QED
        BY <1>1, <2>1, <2>3, <3>3 DEF TypeOK, CacheTyped
    <2>4. CASE AtWork(s)
      BY <2>1, <2>4 DEF AtWork, Making
    <2> QED
      BY <2>1, <2>2, <2>3, <2>4 DEF AtWork, Making, Working, BeforeCollect
  <1> QED
    BY <1>3, <1>4, <1>5, <1>6, StepCases

\* ImportInv is inductive.
LEMMA ImportNext == TypeOK /\ ImportInv /\ [Next]_vars => ImportInv'
  <1> SUFFICES ASSUME TypeOK, ImportInv, [Next]_vars PROVE ImportInv'
    OBVIOUS
  <1> DEFINE Absent(f) == f.kind # "imported"
  <1>1. \A w \in Threads : thread[w].pc # "idle" => thread[w].key \in Keys
    BY DEF TypeOK, ThreadsTyped, SoundState
  <1>2. \A w \in Threads : AtWork(thread[w]) => Absent(thumb[thread[w].key]) /\ thread[w].key \in Keys
    BY <1>1 DEF ImportInv, AtWork, Making, HoldsRequestLock
  <1>3. ASSUME ~ready' => maint'.pc = "idle" /\ \A k \in Keys : Absent(thumb'[k]),
               \A w \in Threads : AtWork(thread'[w]) => Absent(thumb'[thread'[w].key])
        PROVE  ImportInv'
    BY <1>3 DEF ImportInv, AtWork, HoldsRequestLock
  <1>4. ASSUME NEW w \in Threads, ThreadStep(w) PROVE ImportInv'
    <2>1. UNCHANGED <<ready, maint>> /\ \A v \in Threads \ {w} : thread'[v] = thread[v]
      BY <1>4, ThreadStepEffect DEF maintVars
    <2>2. \A k \in Keys : Absent(thumb[k]) => Absent(thumb'[k])
      BY <1>4, ThreadMemory
    <2>3. AtWork(thread'[w]) => Absent(thumb'[thread'[w].key])
      BY <1>1, <1>2, <1>4, <2>2, WorkStarts DEF NoFile
    <2>4. \A v \in Threads \ {w} : AtWork(thread'[v]) => Absent(thumb'[thread'[v].key])
      BY <1>2, <2>1, <2>2
    <2>5. ~ready' => maint'.pc = "idle" /\ \A k \in Keys : Absent(thumb'[k])
      BY <2>1, <2>2 DEF ImportInv
    <2> HIDE DEF Absent
    <2> QED
      BY <1>3, <2>3, <2>4, <2>5
  <1>5. ASSUME NEW k \in Keys, ImportEntry(k) PROVE ImportInv'
    <2>1. /\ ready /\ UNCHANGED <<ready, thread>> /\ RequestLockFree(k)
          /\ \A i \in Keys \ {k} : thumb'[i] = thumb[i]
      BY <1>5 DEF ImportEntry, ImportInv, TypeOK, CacheTyped
    <2>2. \A w \in Threads : AtWork(thread[w]) => thread[w].key # k
      BY <2>1 DEF RequestLockFree, HoldsRequestLock, AtWork, Making
    <2> QED
      BY <1>2, <1>3, <2>1, <2>2
  <1>6. CASE ~(\E w \in Threads : ThreadStep(w)) /\ ~\E k \in Keys : ImportEntry(k)
    <2>1. \A k \in Keys : Absent(thumb[k]) => Absent(thumb'[k])
      BY <1>6, OtherFiles DEF NoFile
    <2>2. \A w \in Threads : AtWork(thread'[w]) =>
            AtWork(thread[w]) /\ thread'[w].key = thread[w].key
      BY <1>6, OtherThreads DEF AtWork, Making
    <2>3. ~ready' => ~ready /\ UNCHANGED maint
      <3>1. CASE UNCHANGED vars
        BY <3>1 DEF vars, maintVars
      <3>2. CASE MainStep
        BY <3>2 DEF MainStep, Load, Regenerate, Cancel, SetEnabled, PreferenceListener,
           ClearCache, ImportCache, maintVars
      <3>3. CASE MaintenanceStep
        BY <1>6, <3>3 DEF MaintenanceStep, StartClear, Wipe, StartImport, EndImport, NextTask,
           ImportInv
      <3>4. CASE \E M \in SUBSET Types : InitializeCaches(M)
        BY <3>4 DEF InitializeCaches
      <3>5. CASE \E t \in Types : \E S \in SUBSET KeysOf(t) : Trim(t, S)
        BY <3>5 DEF Trim, maintVars
      <3>6. CASE (\E k \in Keys : Expire(k)) \/ Starting
        BY <3>6 DEF Expire, Starting, PreGenerate, Dequeue, maintVars
      <3> QED
        BY <1>6, <3>1, <3>2, <3>3, <3>4, <3>5, <3>6 DEF Next, Starting
    <2>4. ~ready' => maint'.pc = "idle" /\ \A k \in Keys : Absent(thumb'[k])
      BY <2>1, <2>3 DEF ImportInv
    <2>5. \A w \in Threads : AtWork(thread'[w]) => Absent(thumb'[thread'[w].key])
      BY <1>2, <2>1, <2>2
    <2> HIDE DEF Absent
    <2> QED
      BY <1>3, <2>4, <2>5
  <1> QED
    BY <1>4, <1>5, <1>6

\* Nothing has been imported at first (Init).
LEMMA ImportInit == Init => ImportInv
  BY SMTT(30) DEF Init, ImportInv, IdleMaint, IdleThread, Making, NoFile, HoldsRequestLock

\* An imported thumbnail disappears in the steps that are allowed to take it.
LEMMA ImportedStays ==
  ASSUME TypeOK, ImportInv, [Next]_vars,
         NEW k \in Keys, thumb[k].kind = "imported", thumb'[k] # thumb[k]
  PROVE  \/ maint.pc = "wipe"
         \/ maint.pc = "import"
         \/ spent'.trims # spent.trims
         \/ \E w \in Threads : thread[w].pc = "lock" /\ thread[w].kind = "regen"
  <1> DEFINE Goal == \/ maint.pc = "wipe"
                     \/ maint.pc = "import"
                     \/ spent'.trims # spent.trims
                     \/ \E w \in Threads : thread[w].pc = "lock" /\ thread[w].kind = "regen"
  <1>1. \A i : k # i => \A f : [thumb EXCEPT ![i] = f][k] = thumb[k]
    BY DEF TypeOK, CacheTyped
  <1>2. ASSUME NEW w \in Threads, ThreadStep(w) PROVE Goal
    <2>1. CASE LockRegenerate(w)
      BY <2>1 DEF LockRegenerate, Waiting
    <2>2. thread[w].pc \in {"writing", "failed"} => thread[w].key # k
      BY DEF ImportInv, Making
    <2>3. ~Probe(w) /\ ~WriteThumbnail(w) /\ ~GiveUp(w)
      <3>1. ASSUME NEW i, NEW f, i # k, thumb' = [thumb EXCEPT ![i] = f] PROVE FALSE
        BY <1>1, <3>1
      <3>2. ASSUME Probe(w) PROVE FALSE
        <4>1. ~Usable(thumb[thread[w].key]) /\ thumb' = [thumb EXCEPT ![thread[w].key] = NoFile]
          BY <3>2 DEF Probe
        <4>2. thread[w].key # k
          BY <4>1 DEF Usable
        <4> QED
          BY <3>1, <4>1, <4>2
      <3>3. ASSUME WriteThumbnail(w) PROVE FALSE
        BY <2>2, <3>1, <3>3 DEF WriteThumbnail
      <3>4. ASSUME GiveUp(w) PROVE FALSE
        BY <2>2, <3>1, <3>4 DEF GiveUp
      <3> QED
        BY <3>2, <3>3, <3>4
    <2>4. ~LockRegenerate(w) => UNCHANGED thumb
      BY <1>2, <2>3 DEF ThreadStep, LockLoad, LockPreGenerate, Extract, CheckBeforeWrite, Verify,
         MarkFailure, Collect, Decode, PutInMemory, Unlock, diskVars
    <2> QED
      BY <2>1, <2>4
  <1>3. CASE MaintenanceStep
    BY <1>3 DEF MaintenanceStep, StartClear, Wipe, StartImport, EndImport, ImportEntry, diskVars
  <1>4. ASSUME NEW M \in SUBSET Types, InitializeCaches(M) PROVE Goal
    BY <1>4 DEF InitializeCaches, ImportInv
  <1>5. ASSUME NEW t \in Types, NEW S \in SUBSET KeysOf(t), Trim(t, S) PROVE Goal
    BY <1>5 DEF Trim, TypeOK, MaintTyped
  <1>6. ~MainStep /\ ~UNCHANGED vars /\ ~Starting /\ ~\E i \in Keys : Expire(i)
    BY DEF MainStep, Load, Regenerate, Cancel, SetEnabled, PreferenceListener, ClearCache,
       ImportCache, Expire, Starting, PreGenerate, Dequeue, vars, diskVars
  <1> QED
    BY <1>2, <1>3, <1>4, <1>5, <1>6 DEF Next, Starting

\* An imported thumbnail is taken away by a clear, a trim, another import or the user's
\* own regeneration, never by a job that was running meanwhile (importCacheInternal
\* against loadOrGenerate and preGenerateThumbnail).
THEOREM ImportStays == Spec => ImportedIsKept
  <1>1. TypeOK /\ ImportInv /\ [Next]_vars =>
          [\A k \in Keys : thumb[k].kind = "imported" /\ thumb'[k] # thumb[k] =>
             \/ maint.pc = "wipe"
             \/ maint.pc = "import"
             \/ spent'.trims # spent.trims
             \/ \E w \in Threads : thread[w].pc = "lock" /\ thread[w].kind = "regen"]_vars
    BY ImportedStays
  <1> QED
    BY <1>1, ImportInit, ImportNext, Typing, PTL DEF Spec, ImportedIsKept
=============================================================================
