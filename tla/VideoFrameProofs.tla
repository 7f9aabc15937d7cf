-------------------------- MODULE VideoFrameProofs --------------------------
(***************************************************************************)
(* Proofs about the reading of a video, for every length of the file, size *)
(* of the listing, range and budget: whatever was cached before, readAt    *)
(* answers with bytes of the file (RangeSource), up to a known size, and a *)
(* stall is never taken for its end; nativeExtractFrame frees all but one  *)
(* buffer, converts the best frame it was offered and writes every pixel.  *)
(***************************************************************************)
EXTENDS VideoFrame, WellFoundedInduction, TLAPS

----------------------------------------------------------------------------
(* The ranges *)

\* The bytes of the file from a position.
FileBytes(s, from) == s \in Seq(Nat) /\ \A i \in 1..Len(s) : s[i] = from + i - 1

\* A part of such a sequence, and two of them joined (readAt copies from a range).
LEMMA PieceLength ==
  ASSUME NEW data \in Seq(Nat), NEW offset \in Nat, NEW length \in Nat,
         offset + length <= Len(data)
  PROVE  Len(SubSeq(data, offset + 1, offset + length)) = length
  OBVIOUS

\* A part of a range holds the file's bytes from where the part begins (readAt).
LEMMA PieceIsTrue ==
  ASSUME NEW start \in Nat, NEW data, FileBytes(data, start), NEW offset \in Nat,
         NEW length \in Nat, offset + length <= Len(data)
  PROVE  FileBytes(SubSeq(data, offset + 1, offset + length), start + offset)
  <1> DEFINE piece == SubSeq(data, offset + 1, offset + length)
  <1>1. data \in Seq(Nat) /\ Len(data) \in Nat
    BY DEF FileBytes
  <1>2. piece \in Seq(Nat) /\ Len(piece) = length
    BY <1>1
  <1>3. ASSUME NEW k \in 1..length
        PROVE  piece[k] = start + offset + k - 1
    <2>1. piece[k] = data[offset + k]
      BY <1>1
    <2>2. offset + k \in 1..Len(data)
      BY <1>1
    <2>3. data[offset + k] = start + (offset + k) - 1
      BY <2>2 DEF FileBytes
    <2> QED
      BY <2>1, <2>3
  <1> QED
    BY <1>2, <1>3 DEF FileBytes

\* What readAt has and what it copies next, joined, are the file's bytes from its position.
LEMMA JoinedIsTrue ==
  ASSUME NEW at \in Nat, NEW got, FileBytes(got, at), NEW piece, FileBytes(piece, at + Len(got))
  PROVE  FileBytes(got \o piece, at) /\ Len(got \o piece) = Len(got) + Len(piece)
  <1>1. got \in Seq(Nat) /\ piece \in Seq(Nat) /\ Len(got) \in Nat /\ Len(piece) \in Nat
    BY DEF FileBytes
  <1>2. got \o piece \in Seq(Nat) /\ Len(got \o piece) = Len(got) + Len(piece)
    BY <1>1
  <1>3. ASSUME NEW i \in 1..Len(got)
        PROVE  (got \o piece)[i] = at + i - 1
    BY <1>1 DEF FileBytes
  <1>4. ASSUME NEW i \in 1..Len(piece)
        PROVE  (got \o piece)[Len(got) + i] = at + (Len(got) + i) - 1
    <2>1. (got \o piece)[Len(got) + i] = piece[i]
      BY <1>1
    <2>2. piece[i] = at + Len(got) + i - 1
      BY DEF FileBytes
    <2> QED
      BY <1>1, <2>1, <2>2
  <1>5. ASSUME NEW i \in 1..Len(got \o piece)
        PROVE  (got \o piece)[i] = at + i - 1
    <2>1. CASE i <= Len(got)
      BY <1>1, <1>3, <2>1
    <2>2. CASE i > Len(got)
      <3>1. i - Len(got) \in 1..Len(piece) /\ Len(got) + (i - Len(got)) = i
        BY <1>1, <1>2, <2>2
      <3> QED
        BY <3>1, <1>4
    <2> QED
      BY <1>1, <1>2, <2>1, <2>2
  <1> QED
    BY <1>2, <1>5 DEF FileBytes

\* A range that holds the bytes of the file from its start.
TrueRange ==
  {r \in CachedRange : /\ FileBytes(r.data, r.start)
                       /\ Len(r.data) <= LargerOf(0, Length - r.start)}

\* What a fetch keeps (fetchRange).
LEMMA BytesOfTheFile ==
  ASSUME NEW from \in Nat, NEW count \in Nat
  PROVE  FileBytes(Bytes(from, count), from) /\ Len(Bytes(from, count)) = count
  BY DEF Bytes, FileBytes

\* A fetch that stayed inside the file leaves a range of the file (fetchRange).
LEMMA FetchedIsTrue ==
  ASSUME NEW from \in Nat, NEW count \in Nat, count <= LargerOf(0, Length - from)
  PROVE  [start |-> from, data |-> Bytes(from, count)] \in TrueRange
  BY BytesOfTheFile DEF TrueRange, CachedRange, FileBytes

\* Moving a range to the end, and keeping the last ones (findCachedRange).
LEMMA RangesStay ==
  ASSUME NEW S, NEW s \in Seq(S), NEW i \in DOMAIN s
  PROVE  s[i] \in S /\ Append(RemoveAt(s, i), s[i]) \in Seq(S)
  <1>1. s[i] \in S /\ i \in 1..Len(s) /\ Len(s) \in Nat
    OBVIOUS
  <1>2. SubSeq(s, 1, i - 1) \in Seq(S) /\ SubSeq(s, i + 1, Len(s)) \in Seq(S)
    BY <1>1
  <1>3. RemoveAt(s, i) \in Seq(S)
    BY <1>2 DEF RemoveAt
  <1> QED
    BY <1>1, <1>3

\* The ranges kept after a fetch are those there were, and the new one (fetchRange).
LEMMA KeepStays ==
  ASSUME NEW S, source.ranges \in Seq(S), NEW r \in S, RangeCount \in Nat \ {0}
  PROVE  Keep(r) \in Seq(S)
  <1>1. Append(source.ranges, r) \in Seq(S) /\ Append(source.ranges, r) # <<>>
    OBVIOUS
  <1> QED
    BY <1>1 DEF Keep

----------------------------------------------------------------------------
(* The inductive invariant of the reads *)

Delivered(s) == s.got <= SmallerOf(s.count, LargerOf(0, Length - s.at))

TrueSource(s) ==
  s \in [kind : {"remote", "document"}, size : Int, open : BOOLEAN,
         ranges : Seq(TrueRange), failed : BOOLEAN]

TrueCall(c) ==
  /\ c \in [pc : {"idle", "loop", "fetch", "done", "thrown"},
            at : Nat, want : Nat, got : Seq(Nat), cut : BOOLEAN]
  /\ FileBytes(c.got, c.at)
  /\ Len(c.got) <= c.want
  /\ c.at + Len(c.got) <= LargerOf(c.at, Length)
  /\ c.cut => c.pc = "thrown"

\* The watchdog kills only what it has flagged.
TrueStream(s) ==
  /\ s \in [pc : {"none", "open"}, at : Nat, count : Nat, got : Nat,
            closed : BOOLEAN, flagged : BOOLEAN, killed : BOOLEAN]
  /\ Delivered(s)
  /\ s.killed => s.flagged

TrueIo(i) == i \in [position : Nat, size : Int, total : Nat, failed : BOOLEAN]

ReadInv == TrueSource(source) /\ TrueCall(call) /\ TrueStream(stream) /\ TrueIo(io)

Assumptions ==
  /\ Length \in Nat \ {0}
  /\ Sizes \subseteq Int
  /\ ReadAhead \in Nat \ {0} /\ MaxFetch \in Nat \ {0} /\ RangeCount \in Nat \ {0}
  /\ BufferSize \in Nat \ {0} /\ MaxBytes \in Nat \ {0}

\* What the constants are assumed to be, in one formula.
LEMMA AssumptionsHold == Assumptions
  BY LengthAssumption, SizesAssumption, FetchAssumption, RangeAssumption, BudgetAssumption
  DEF Assumptions

\* A call that has no bytes yet (readAt, and its failures).
LEMMA EmptyCall ==
  ASSUME NEW p \in {"idle", "loop", "fetch", "done", "thrown"}, NEW at \in Nat,
         NEW want \in Nat, Assumptions
  PROVE  TrueCall([pc |-> p, at |-> at, want |-> want, got |-> <<>>, cut |-> FALSE])
  <1>1. <<>> \in Seq(Nat) /\ Len(<<>>) = 0
    OBVIOUS
  <1> QED
    BY <1>1 DEF TrueCall, FileBytes, LargerOf, Assumptions

\* A call of which only the progress changes.
LEMMA CallMoves ==
  ASSUME TrueCall(call), NEW p \in {"loop", "fetch", "done", "thrown"}, NEW cut \in BOOLEAN,
         cut => p = "thrown"
  PROVE  TrueCall([call EXCEPT !.pc = p, !.cut = cut])
  BY DEF TrueCall

\* No call and no stream satisfy the invariant (before a read, after a fetch).
LEMMA NothingRead ==
  ASSUME Assumptions
  PROVE  TrueCall(Idle) /\ TrueStream(NoStream)
  <1>1. TrueCall(Idle)
    BY EmptyCall DEF Idle
  <1>2. TrueStream(NoStream)
    BY DEF Assumptions, NoStream, TrueStream, Delivered, LargerOf, SmallerOf
  <1> QED
    BY <1>1, <1>2

\* Closing the source, its recorded failure and other true ranges keep it true.
LEMMA SourceMoves ==
  ASSUME TrueSource(source)
  PROVE  /\ TrueSource(Closed)
         /\ TrueSource([source EXCEPT !.failed = TRUE])
         /\ \A ranges \in Seq(TrueRange) : TrueSource([source EXCEPT !.ranges = ranges])
  <1>1. <<>> \in Seq(TrueRange)
    OBVIOUS
  <1> QED
    BY <1>1 DEF Closed, TrueSource

\* A source just opened has no range (RcloneRangeMediaDataSource).
LEMMA NewSourceIsTrue ==
  ASSUME NEW kind \in {"remote", "document"}, NEW size \in Int
  PROVE  TrueSource(NewSource(kind, size))
  <1>1. <<>> \in Seq(TrueRange)
    OBVIOUS
  <1> QED
    BY <1>1 DEF NewSource, TrueSource

----------------------------------------------------------------------------
(* The steps of readAt *)

\* readAt accepts a call, or answers a document's at once.
LEMMA BeginKeeps ==
  ASSUME Assumptions, ReadInv, NEW at \in Nat, NEW want \in Nat, BeginReadAt(at, want)
  PROVE  TrueCall(call') /\ UNCHANGED <<source, stream>>
  <1>1. UNCHANGED <<source, stream>> /\ source.size \in Int
    BY DEF BeginReadAt, ReadInv, TrueSource
  <1>2. CASE call' = [Idle EXCEPT !.pc = "done", !.at = at, !.want = want]
    BY <1>1, <1>2, EmptyCall DEF Idle
  <1>3. CASE call' = [Idle EXCEPT !.pc = "loop", !.at = at, !.want = want]
    BY <1>1, <1>3, EmptyCall DEF Idle
  <1>4. CASE call' = [Idle EXCEPT !.pc = "thrown", !.at = at, !.want = want]
    BY <1>1, <1>4, EmptyCall DEF Idle
  <1>5. ASSUME ~PastEnd(at),
               NEW there, there = SmallerOf(IF source.size >= 0
                                            THEN SmallerOf(want, source.size - at) ELSE want,
                                            LargerOf(0, Length - at)),
               NEW read \in (IF there = 0 THEN {0} ELSE 1..there),
               call' = [Idle EXCEPT !.pc = "done", !.at = at, !.want = want,
                                    !.got = Bytes(at, read)]
        PROVE  TrueCall(call')
    <2>1. read \in Nat /\ read <= want /\ at + read <= LargerOf(at, Length)
      BY <1>1, <1>5 DEF PastEnd, SmallerOf, LargerOf, Assumptions
    <2>2. call' = [pc |-> "done", at |-> at, want |-> want, got |-> Bytes(at, read), cut |-> FALSE]
      BY <1>5 DEF Idle
    <2> QED
      BY <2>1, <2>2, BytesOfTheFile DEF TrueCall, FileBytes
  <1> QED
    BY <1>1, <1>2, <1>3, <1>4, <1>5 DEF BeginReadAt

\* Of the ranges that hold a position there is a first one.
LEMMA FirstOf ==
  ASSUME NEW I \in SUBSET Nat, I # {}
  PROVE  \E i \in I : \A j \in I : i <= j
  <1>1. PICK i \in I : \A j \in I : <<j, i>> \notin OpToRel(<, Nat)
    BY NatLessThanWellFounded, WFMin
  <1>2. \A j \in I : ~(j < i)
    BY <1>1 DEF OpToRel
  <1> QED
    BY <1>2

\* findCachedRange returns a range that holds the position.
LEMMA FirstCachedHolds ==
  ASSUME ReadInv, NEW position \in Nat, Cached(position) # {}
  PROVE  /\ FirstCached(position) \in DOMAIN source.ranges
         /\ Holds(FirstCached(position), position)
  <1>1. Cached(position) \in SUBSET Nat
    BY DEF Cached, ReadInv, TrueSource
  <1>2. \E i \in Cached(position) : \A j \in Cached(position) : i <= j
    BY <1>1, FirstOf
  <1>3. FirstCached(position) \in Cached(position)
    BY <1>2 DEF FirstCached
  <1> QED
    BY <1>3 DEF Cached

\* What a round copies: no more than is asked for, nor than the range holds.
LEMMA CopyLength ==
  ASSUME NEW want \in Nat, NEW got \in Nat, got < want,
         NEW held_ \in Nat, NEW offset \in Nat, offset < held_,
         NEW length, length = SmallerOf(want - got, held_ - offset)
  PROVE  length \in Nat /\ length > 0 /\ offset + length <= held_ /\ got + length <= want
  BY DEF SmallerOf

\* It ends inside the file.
LEMMA EndOfCopy ==
  ASSUME NEW at \in Nat, NEW got \in Nat, NEW start \in Nat, NEW offset \in Nat,
         start + offset = at + got, NEW held_ \in Nat, held_ <= LargerOf(0, Length - start),
         NEW length \in Nat, length > 0, offset + length <= held_, Length \in Nat
  PROVE  at + (got + length) <= LargerOf(at, Length)
  BY DEF LargerOf

\* A round that copies.
LEMMA CopyKeeps ==
  ASSUME Assumptions, ReadInv, CopyFromRange
  PROVE  TrueCall(call') /\ TrueSource(source') /\ stream' = stream
  <1> DEFINE index == FirstCached(Position)
             range == source.ranges[index]
             offset == Position - range.start
             length == SmallerOf(call.want - Len(call.got), Len(range.data) - offset)
  <1>1. Position \in Nat
    BY DEF Position, ReadInv, TrueCall
  <1>2. index \in DOMAIN source.ranges /\ Holds(index, Position)
    BY <1>1, FirstCachedHolds DEF CopyFromRange
  <1>3. range \in TrueRange /\ Append(RemoveAt(source.ranges, index), range) \in Seq(TrueRange)
    BY <1>2, RangesStay DEF ReadInv, TrueSource
  <1>4. /\ stream' = stream
        /\ source' = [source EXCEPT !.ranges = Append(RemoveAt(@, index), range)]
        /\ call' = [call EXCEPT !.got = @ \o SubSeq(range.data, offset + 1, offset + length)]
        /\ Len(call.got) < call.want
    BY DEF CopyFromRange
  <1>5. TrueSource(source')
    BY <1>3, <1>4, SourceMoves DEF ReadInv
  <1>6. range.start <= Position /\ Position < range.start + Len(range.data)
    BY <1>2 DEF Holds, RangeEnd
  <1>7. /\ range.start \in Nat /\ FileBytes(range.data, range.start) /\ Len(range.data) \in Nat
        /\ Len(range.data) <= LargerOf(0, Length - range.start)
    BY <1>3 DEF TrueRange, CachedRange
  <1>8. /\ FileBytes(call.got, call.at) /\ Len(call.got) \in Nat
        /\ call.want \in Nat /\ call.at \in Nat
    BY DEF ReadInv, TrueCall
  <1> HIDE DEF index, range
  <1>9. /\ offset \in Nat /\ range.start + offset = call.at + Len(call.got)
        /\ offset < Len(range.data)
    BY <1>1, <1>6, <1>7, <1>8 DEF Position
  <1> HIDE DEF offset
  <1>10. /\ length \in Nat /\ length > 0 /\ offset + length <= Len(range.data)
         /\ Len(call.got) + length <= call.want
    BY <1>4, <1>7, <1>8, <1>9, CopyLength
  <1> HIDE DEF length
  <1> DEFINE piece == SubSeq(range.data, offset + 1, offset + length)
             joined == call.got \o piece
  <1>11. FileBytes(piece, call.at + Len(call.got)) /\ Len(piece) = length
    <2>1. FileBytes(piece, range.start + offset)
      BY <1>7, <1>9, <1>10, PieceIsTrue
    <2>2. Len(piece) = length
      BY <1>7, <1>9, <1>10, PieceLength DEF FileBytes
    <2> QED
      BY <1>9, <2>1, <2>2
  <1>12. call' = [call EXCEPT !.got = joined]
    BY <1>4
  <1> HIDE DEF piece
  <1>13. FileBytes(joined, call.at) /\ Len(joined) = Len(call.got) + length
    BY <1>8, <1>11, JoinedIsTrue
  <1> HIDE DEF joined
  <1>14. Len(joined) <= call.want /\ call.at + Len(joined) <= LargerOf(call.at, Length)
    BY <1>7, <1>8, <1>9, <1>10, <1>13, EndOfCopy DEF Assumptions
  <1>15. TrueCall(call')
    BY <1>12, <1>13, <1>14 DEF ReadInv, TrueCall, FileBytes
  <1> QED
    BY <1>4, <1>5, <1>15

\* What is asked of a process is a number of bytes.
LEMMA FetchBytesIsANumber ==
  ASSUME Assumptions, ReadInv, NEW position \in Nat, ~PastEnd(position), NEW minimum \in Nat
  PROVE  FetchBytes(position, minimum) \in Nat
  <1>1. source.size \in Int
    BY DEF ReadInv, TrueSource
  <1> QED
    BY <1>1 DEF FetchBytes, PastEnd, SmallerOf, LargerOf, Assumptions

\* A process delivers nothing before it is read.
LEMMA NewStreamIsTrue ==
  ASSUME Assumptions, NEW at \in Nat, NEW count \in Nat
  PROVE  TrueStream([NoStream EXCEPT !.pc = "open", !.at = at, !.count = count])
  <1>1. 0 <= SmallerOf(count, LargerOf(0, Length - at))
    BY DEF Assumptions, SmallerOf, LargerOf
  <1> QED
    BY <1>1 DEF NoStream, TrueStream, Delivered

\* A fetch that fails ends the call and its stream (fetchRange).
LEMMA FailureKeeps ==
  ASSUME Assumptions, ReadInv, NEW cut \in BOOLEAN, FetchFails(cut)
  PROVE  TrueCall(call') /\ TrueSource(source') /\ TrueStream(stream')
  <1>1. TrueCall(call')
    BY CallMoves DEF ReadInv, FetchFails
  <1>2. TrueSource(source')
    BY SourceMoves DEF ReadInv, FetchFails
  <1>3. TrueStream(stream')
    BY NothingRead DEF FetchFails
  <1> QED
    BY <1>1, <1>2, <1>3

\* A round that misses starts a stream that has delivered nothing, or fails.
LEMMA StartKeeps ==
  ASSUME Assumptions, ReadInv, StartFetch
  PROVE  TrueCall(call') /\ TrueSource(source') /\ TrueStream(stream')
  <1>1. /\ Position \in Nat /\ call.want - Len(call.got) \in Nat /\ ~PastEnd(Position)
        /\ call.cut = FALSE
    BY DEF StartFetch, Position, ReadInv, TrueCall
  <1>2. CASE /\ stream' = [NoStream EXCEPT !.pc = "open", !.at = Position,
                             !.count = FetchBytes(Position, call.want - Len(call.got))]
             /\ call' = [call EXCEPT !.pc = "fetch"]
             /\ UNCHANGED source
    <2>1. TrueStream(stream')
      BY <1>1, <1>2, FetchBytesIsANumber, NewStreamIsTrue
    <2>2. TrueCall(call')
      BY <1>1, <1>2 DEF ReadInv, TrueCall
    <2> QED
      BY <1>2, <2>1, <2>2 DEF ReadInv
  <1>3. CASE /\ call' = [call EXCEPT !.pc = "thrown"]
             /\ source' = [source EXCEPT !.failed = TRUE]
             /\ UNCHANGED stream
    <2>1. TrueCall(call')
      BY <1>1, <1>3 DEF ReadInv, TrueCall
    <2> QED
      BY <1>3, <2>1, SourceMoves DEF ReadInv
  <1> QED
    BY <1>2, <1>3 DEF StartFetch

\* A read of the stream delivers no more than the process still has.
LEMMA ReceiveKeeps ==
  ASSUME Assumptions, ReadInv, ReceiveBytes
  PROVE  TrueCall(call') /\ TrueSource(source') /\ TrueStream(stream')
  <1>1. CASE FetchFails(FALSE)
    BY <1>1, FailureKeeps
  <1>2. ASSUME NEW k \in 1..Undelivered, stream' = [stream EXCEPT !.got = @ + k],
               UNCHANGED <<call, source>>
        PROVE  TrueCall(call') /\ TrueSource(source') /\ TrueStream(stream')
    <2>1. /\ stream.got \in Nat /\ stream.count \in Nat /\ stream.at \in Nat
          /\ Length \in Nat
      BY DEF ReadInv, TrueStream, Assumptions
    <2>2. SmallerOf(stream.count, LargerOf(0, Length - stream.at)) \in Nat
      BY <2>1 DEF SmallerOf, LargerOf
    <2>3. stream.got + k \in Nat
          /\ stream.got + k <= SmallerOf(stream.count, LargerOf(0, Length - stream.at))
      BY <1>2, <2>1, <2>2 DEF Undelivered
    <2>4. TrueStream(stream')
      BY <1>2, <2>3 DEF ReadInv, TrueStream, Delivered
    <2> QED
      BY <1>2, <2>4 DEF ReadInv
  <1> QED
    BY <1>1, <1>2 DEF ReceiveBytes

\* What a fetch brought becomes a range, or the answer is the end.
LEMMA FinishKeeps ==
  ASSUME Assumptions, ReadInv, call.pc = "fetch", FinishFetch(FALSE)
  PROVE  TrueCall(call') /\ TrueSource(source') /\ TrueStream(stream')
  <1> DEFINE range == [start |-> stream.at, data |-> Bytes(stream.at, stream.got)]
  <1>1. CASE FetchFails(FALSE)
    BY <1>1, FailureKeeps
  <1>2. CASE call' = [call EXCEPT !.pc = "done", !.cut = FALSE] /\ stream' = NoStream
             /\ UNCHANGED source
    BY <1>2, CallMoves, NothingRead DEF ReadInv
  <1>3. CASE /\ source' = [source EXCEPT !.ranges = Keep(range)]
             /\ call' = [call EXCEPT !.pc = "loop", !.cut = FALSE] /\ stream' = NoStream
    <2>1. /\ stream.at \in Nat /\ stream.got \in Nat /\ stream.count \in Nat
          /\ stream.got <= SmallerOf(stream.count, LargerOf(0, Length - stream.at))
      BY DEF ReadInv, TrueStream, Delivered
    <2>2. stream.got <= LargerOf(0, Length - stream.at)
      BY <2>1 DEF SmallerOf, LargerOf, Assumptions
    <2>3. range \in TrueRange
      BY <2>1, <2>2, FetchedIsTrue
    <2>4. source.ranges \in Seq(TrueRange)
      BY DEF ReadInv, TrueSource
    <2>5. Keep(range) \in Seq(TrueRange)
      BY <2>3, <2>4, KeepStays DEF Assumptions
    <2>6. TrueSource(source')
      BY <1>3, <2>5, SourceMoves DEF ReadInv
    <2> QED
      BY <1>3, <2>6, CallMoves, NothingRead DEF ReadInv
  <1> QED
    BY <1>1, <1>2, <1>3 DEF FinishFetch

\* A stream that is full, ends or fails leaves a true range or no answer; one that the
\* watchdog has killed is flagged, so the call throws.
LEMMA StreamKeeps ==
  ASSUME Assumptions, ReadInv, FetchIsFull \/ StreamEnds \/ StreamFails
  PROVE  TrueCall(call') /\ TrueSource(source') /\ TrueStream(stream')
  <1>1. stream.killed \in BOOLEAN /\ (stream.killed => stream.flagged)
    BY DEF ReadInv, TrueStream
  <1>2. CASE FetchIsFull
    BY <1>2, FinishKeeps DEF FetchIsFull
  <1>3. CASE StreamEnds
    <2>1. CASE stream.flagged
      BY <1>1, <1>3, <2>1, FailureKeeps DEF StreamEnds
    <2>2. CASE ~stream.flagged
      <3>1. stream.killed = FALSE
        BY <1>1, <2>2
      <3>2. FinishFetch(FALSE) /\ call.pc = "fetch"
        BY <1>3, <2>2, <3>1 DEF StreamEnds
      <3> QED
        BY <3>2, FinishKeeps
    <2> QED
      BY <2>1, <2>2
  <1>4. CASE StreamFails
    BY <1>4, FailureKeeps DEF StreamFails
  <1> QED
    BY <1>2, <1>3, <1>4

\* The watchdog kills only after it has flagged the timeout (closeInternal).
LEMMA WatchdogKeeps ==
  ASSUME ReadInv, Watchdog
  PROVE  TrueCall(call') /\ TrueSource(source') /\ TrueStream(stream')
  BY DEF Watchdog, WatchdogCloses, WatchdogFlags, WatchdogKills, ReadInv, TrueStream, Delivered

\* The end of readAt's loop changes nothing but the call's place.
LEMMA EndKeeps ==
  ASSUME ReadInv, EndReadAt
  PROVE  TrueCall(call') /\ TrueSource(source') /\ TrueStream(stream')
  BY DEF EndReadAt, ReadInv, TrueCall

----------------------------------------------------------------------------
(* The steps of the readers *)

\* java_read_packet asks for a number of bytes at its position.
LEMMA ReadPacketKeeps ==
  ASSUME Assumptions, ReadInv, ReadPacket
  PROVE  ReadInv'
  <1>1. /\ io.position \in Nat /\ io.size \in Int /\ io.total \in Nat
        /\ io.failed \in BOOLEAN
    BY DEF ReadInv, TrueIo
  <1>2. CASE IoFails /\ UNCHANGED readVars
    BY <1>2 DEF IoFails, readVars, ReadInv, TrueIo
  <1>3. ASSUME ~(io.size >= 0 /\ io.position >= io.size), ~(io.total >= MaxBytes),
               NEW size \in 1..BufferSize, BeginReadAt(io.position, Requested(size)),
               UNCHANGED io
        PROVE  ReadInv'
    <2>1. Requested(size) \in Nat
      BY <1>1, <1>3 DEF Requested, SmallerOf, Assumptions
    <2>2. TrueCall(call') /\ UNCHANGED <<source, stream>>
      BY <1>1, <1>3, <2>1, BeginKeeps
    <2> QED
      BY <1>3, <2>2 DEF ReadInv
  <1> QED
    BY <1>2, <1>3 DEF ReadPacket

\* An answer advances the context by the bytes that came, and ends the call.
LEMMA AnswerKeeps ==
  ASSUME Assumptions, ReadInv, ReadPacketReturns
  PROVE  ReadInv'
  <1>1. call' = Idle /\ UNCHANGED <<source, stream>> /\ TrueCall(call')
    BY NothingRead DEF ReadPacketReturns
  <1>2. CASE IoFails
    BY <1>1, <1>2 DEF IoFails, ReadInv, TrueIo
  <1>3. CASE io' = [io EXCEPT !.position = @ + Len(call.got), !.total = @ + Len(call.got)]
    <2>1. Len(call.got) \in Nat
      BY DEF ReadInv, TrueCall
    <2>2. io.position \in Nat /\ io.total \in Nat /\ io.size \in Int /\ io.failed \in BOOLEAN
          /\ io = [position |-> io.position, size |-> io.size, total |-> io.total,
                   failed |-> io.failed]
      BY DEF ReadInv, TrueIo
    <2>3. io' = [position |-> io.position + Len(call.got), size |-> io.size,
                 total |-> io.total + Len(call.got), failed |-> io.failed]
      BY <1>3, <2>2
    <2>4. io.position + Len(call.got) \in Nat /\ io.total + Len(call.got) \in Nat
      BY <2>1, <2>2
    <2>5. TrueIo(io')
      BY <2>2, <2>3, <2>4 DEF TrueIo
    <2> QED
      BY <1>1, <2>5 DEF ReadInv
  <1> QED
    BY <1>2, <1>3 DEF ReadPacketReturns

\* java_seek moves the position only, never below zero.
LEMMA SeekKeeps ==
  ASSUME Assumptions, ReadInv, Seek
  PROVE  ReadInv'
  <1>1. CASE IoFails
    BY <1>1 DEF Seek, IoFails, readVars, ReadInv, TrueIo
  <1>2. ASSUME NEW offset \in -1..(Length + 1),
               NEW base \in {0, io.position} \cup (IF io.size >= 0 THEN {io.size} ELSE {}),
               base + offset \in 0..(Length + 1),
               io' = [io EXCEPT !.position = base + offset]
        PROVE  ReadInv'
    <2>1. base + offset \in Nat
      BY <1>2 DEF Assumptions
    <2> QED
      BY <1>2, <2>1 DEF Seek, readVars, ReadInv, TrueIo
  <1> QED
    BY <1>1, <1>2 DEF Seek

\* The retriever's reads and its return, which may open a new source for FFmpeg.
LEMMA PlatformKeeps ==
  ASSUME Assumptions, ReadInv, PlatformReads \/ PlatformReadReturns \/ PlatformReturns
  PROVE  ReadInv'
  <1>1. CASE PlatformReads
    <2>1. PICK at \in 0..Length, want \in 1..BufferSize : BeginReadAt(at, want)
      BY <1>1 DEF PlatformReads
    <2>2. at \in Nat /\ want \in Nat
      BY <2>1 DEF Assumptions
    <2>3. TrueCall(call') /\ UNCHANGED <<source, stream>>
      BY <2>1, <2>2, BeginKeeps
    <2> QED
      BY <1>1, <2>3 DEF PlatformReads, nativeVars, ReadInv
  <1>2. CASE PlatformReadReturns
    BY <1>2, NothingRead DEF PlatformReadReturns, nativeVars, ReadInv
  <1>3. CASE PlatformReturns
    <2>1. UNCHANGED <<call, stream>>
      BY <1>3 DEF PlatformReturns
    <2>2. CASE source' = Closed /\ UNCHANGED io
      BY <2>1, <2>2, SourceMoves DEF ReadInv
    <2>3. ASSUME NEW size \in IF source.kind = "remote" THEN {source.size} ELSE Sizes,
                 source' = NewSource(source.kind, size), io' = NewIo(size)
          PROVE  ReadInv'
      <3>1. source.kind \in {"remote", "document"} /\ source.size \in Int
        BY DEF ReadInv, TrueSource
      <3>2. size \in Int
        BY <2>3, <3>1 DEF Assumptions
      <3>3. TrueSource(source')
        BY <2>3, <3>1, <3>2, NewSourceIsTrue
      <3>4. TrueIo(io')
        BY <2>3, <3>2 DEF NewIo, TrueIo
      <3> QED
        BY <2>1, <3>3, <3>4 DEF ReadInv
    <2> QED
      BY <1>3, <2>2, <2>3 DEF PlatformReturns
  <1> QED
    BY <1>1, <1>2, <1>3

\* The other native steps read nothing; they close the source or leave it.
LEMMA NativeReadsNothing ==
  ASSUME FfmpegReturns \/ NativeStep \/ DeadlinePasses
  PROVE  UNCHANGED <<call, stream, io>> /\ (source' = source \/ source' = Closed)
  <1>1. CASE FfmpegReturns
    BY <1>1 DEF FfmpegReturns, OpenReturns, ProbeReturns, SeekReturns, DemuxReturns,
                ReturnsFreeing, readVars, nativeVars
  <1>2. CASE AllocateInput \/ OpenDecoder \/ BeginDecoding \/ LoopTop \/ Flush
    BY <1>2 DEF AllocateInput, OpenDecoder, BeginDecoding, LoopTop, Flush,
                ReturnsFreeing, readVars, nativeVars
  <1>3. CASE ReceiveStep \/ DrainStep
    BY <1>3 DEF ReceiveStep, ReceiveFrame, ReceiveEnds, DrainStep, DrainFrame, DrainEnds,
                TakeFrame, DecodeFails, ReturnsFreeing, readVars, nativeVars
  <1>4. CASE DecodingOver \/ DeadlinePasses
    BY <1>4 DEF DecodingOver, DecodeFails, DeadlinePasses, ReturnsFreeing, readVars
  <1> QED
    BY <1>1, <1>2, <1>3, <1>4 DEF NativeStep

\* So they keep the invariant of the reads.
LEMMA NativeKeeps ==
  ASSUME ReadInv, FfmpegReturns \/ NativeStep \/ DeadlinePasses
  PROVE  ReadInv'
  BY NativeReadsNothing, SourceMoves DEF ReadInv

\* Every step of readAt and of the watchdog keeps the invariant.
LEMMA SourceStepKeeps ==
  ASSUME Assumptions, ReadInv, Reading \/ Stalling
  PROVE  ReadInv'
  <1>1. io' = io
    BY DEF Reading, Stalling, nativeVars
  <1>2. TrueCall(call') /\ TrueSource(source') /\ TrueStream(stream')
    <2>1. CASE Stalling
      BY <2>1, WatchdogKeeps DEF Stalling
    <2>2. CASE Reading
      <3>1. CASE CopyFromRange
        BY <3>1, CopyKeeps DEF ReadInv
      <3>2. CASE StartFetch
        BY <3>2, StartKeeps
      <3>3. CASE ReceiveBytes
        BY <3>3, ReceiveKeeps
      <3>4. CASE FetchIsFull \/ StreamEnds \/ StreamFails
        BY <3>4, StreamKeeps
      <3>5. CASE EndReadAt
        BY <3>5, EndKeeps
      <3> QED
        BY <2>2, <3>1, <3>2, <3>3, <3>4, <3>5 DEF Reading, SourceStep
    <2> QED
      BY <2>1, <2>2
  <1> QED
    BY <1>1, <1>2 DEF ReadInv

\* A source just opened, and no read under way.
LEMMA ReadInvStarts ==
  ASSUME Assumptions, Init
  PROVE  ReadInv
  <1>1. PICK kind \in {"remote", "document"}, size \in Sizes :
          source = NewSource(kind, size) /\ io = NewIo(size)
    BY DEF Init
  <1>2. size \in Int
    BY DEF Assumptions
  <1>3. TrueSource(source)
    BY <1>1, <1>2, NewSourceIsTrue
  <1>4. TrueIo(io)
    BY <1>1, <1>2 DEF NewIo, TrueIo
  <1> QED
    BY <1>3, <1>4, NothingRead DEF Init, ReadInv

\* Every step of the extraction keeps the invariant of the reads.
LEMMA ReadInvKeeps ==
  ASSUME Assumptions, ReadInv, [Next]_vars
  PROVE  ReadInv'
  <1>1. CASE PlatformReads \/ PlatformReadReturns \/ PlatformReturns
    BY <1>1, PlatformKeeps
  <1>2. CASE ReadPacket
    BY <1>2, ReadPacketKeeps
  <1>3. CASE ReadPacketReturns
    BY <1>3, AnswerKeeps
  <1>4. CASE Seek
    BY <1>4, SeekKeeps
  <1>5. CASE FfmpegReturns \/ NativeStep \/ DeadlinePasses
    BY <1>5, NativeKeeps
  <1>6. CASE Reading \/ Stalling
    BY <1>6, SourceStepKeeps
  <1>7. CASE UNCHANGED vars
    BY <1>7 DEF vars, readVars, nativeVars, ReadInv
  <1> QED
    BY <1>1, <1>2, <1>3, <1>4, <1>5, <1>6, <1>7 DEF Next

\* The invariant of the reads holds in every reachable state.
LEMMA ReadsAreInvariant == Spec => []ReadInv
  <1>1. Init => ReadInv
    BY AssumptionsHold, ReadInvStarts
  <1>2. ReadInv /\ [Next]_vars => ReadInv'
    BY AssumptionsHold, ReadInvKeeps
  <1> QED
    BY <1>1, <1>2, PTL DEF Spec

\* Every answer of readAt is made of the file's bytes, from the position asked
\* for and in order, whatever was fetched, cached, moved and dropped before: for
\* every length of the file, listed size, read-ahead, range count and budget.
THEOREM AnswersAreTheFile == Spec => []BytesAreTheFiles
  <1>1. ReadInv => BytesAreTheFiles
    BY DEF ReadInv, TrueCall, FileBytes, BytesAreTheFiles
  <1> QED
    BY <1>1, ReadsAreInvariant, PTL

\* A reader that meets the end of a stream the watchdog has cut throws: the
\* timeout is flagged before the process is destroyed.
THEOREM StallsAreNoEnd == Spec => []StallIsNotTheEnd
  <1>1. ReadInv => StallIsNotTheEnd
    BY DEF ReadInv, TrueCall, StallIsNotTheEnd
  <1> QED
    BY <1>1, ReadsAreInvariant, PTL

----------------------------------------------------------------------------
(* The inductive invariant of the handles *)

\* What nativeExtractFrame may hold at each of its places.
MayHold(place) ==
  CASE place \in {"platform", "alloc"} -> {}
    [] place \in {"open", "probe"} -> InputHandles \cup {"buffer"}
    [] place \in {"codec", "seek", "begin"} -> DecoderHandles \cup {"buffer"}
    [] place = "done" -> {"buffer"}
    [] OTHER -> Handles

HeldInv == held \subseteq MayHold(pc)

\* Every step allocates or frees what its place says (nativeExtractFrame).
LEMMA HeldInvKeeps ==
  ASSUME HeldInv, [Next]_vars
  PROVE  HeldInv'
  <1> USE DEF HeldInv, MayHold, InputHandles, DecoderHandles, CandidateHandles, Handles,
              ReturnsFreeing
  <1>1. CASE PlatformReads \/ PlatformReadReturns \/ ReadPacketReturns \/ Seek
    BY <1>1 DEF PlatformReads, PlatformReadReturns, ReadPacketReturns, Seek, nativeVars
  <1>2. CASE PlatformReturns
    BY <1>2 DEF PlatformReturns
  <1>3. CASE ReadPacket
    BY <1>3 DEF ReadPacket, InFfmpeg
  <1>4. CASE FfmpegReturns
    BY <1>4 DEF FfmpegReturns, OpenReturns, ProbeReturns, SeekReturns, DemuxReturns, nativeVars
  <1>5. CASE AllocateInput
    BY <1>5 DEF AllocateInput
  <1>6. CASE OpenDecoder
    BY <1>6 DEF OpenDecoder
  <1>7. CASE BeginDecoding \/ LoopTop \/ Flush
    BY <1>7 DEF BeginDecoding, LoopTop, Flush, nativeVars
  <1>8. CASE ReceiveStep \/ DrainStep
    BY <1>8 DEF ReceiveStep, ReceiveFrame, ReceiveEnds, DrainStep, DrainFrame, DrainEnds,
                TakeFrame, DecodeFails, nativeVars
  <1>9. CASE DecodingOver \/ DeadlinePasses
    BY <1>9 DEF DecodingOver, DecodeFails, DeadlinePasses
  <1>10. CASE Reading \/ Stalling \/ UNCHANGED vars
    BY <1>10 DEF Reading, Stalling, vars, nativeVars
  <1> QED
    BY <1>1, <1>2, <1>3, <1>4, <1>5, <1>6, <1>7, <1>8, <1>9, <1>10 DEF Next, NativeStep

\* What may be held is bounded by its place in every state (nativeExtractFrame).
LEMMA HandlesAreInvariant == Spec => []HeldInv
  <1>1. Init => HeldInv
    BY DEF Init, HeldInv, MayHold
  <1>2. HeldInv /\ [Next]_vars => HeldInv'
    BY HeldInvKeeps
  <1> QED
    BY <1>1, <1>2, PTL DEF Spec

\* Whichever of its steps fails, nativeExtractFrame returns with nothing still
\* allocated but the AVIO buffer.
THEOREM ReturnsRelease == Spec => []HandlesReleased
  <1>1. HeldInv => HandlesReleased
    BY DEF HeldInv, MayHold, HandlesReleased
  <1> QED
    BY <1>1, HandlesAreInvariant, PTL

----------------------------------------------------------------------------
(* The inductive invariant of the listed size *)

\* Ranges, streams and calls of a remote whose size is known stay inside it.
InsideSize == {r \in TrueRange : RangeEnd(r) <= source.size}

SizeInv == (source.kind = "remote" /\ source.size >= 0) =>
  /\ source.ranges \in Seq(InsideSize)
  /\ stream.at + stream.count <= source.size
  /\ call.pc \in {"loop", "fetch"} => call.at + Len(call.got) <= source.size
  /\ call.pc = "done" => Len(call.got) = LargerOf(0, SmallerOf(call.want, source.size - call.at))

Known == source.kind = "remote" /\ source.size >= 0

\* The types that the size is about.
LEMMA SizeTyped ==
  ASSUME ReadInv
  PROVE  /\ source.size \in Int /\ call.at \in Nat /\ call.want \in Nat /\ call.got \in Seq(Nat)
         /\ Len(call.got) \in Nat /\ Len(call.got) <= call.want
         /\ stream.at \in Nat /\ stream.count \in Nat /\ stream.got \in Nat
         /\ call.pc \in {"idle", "loop", "fetch", "done", "thrown"}
  BY DEF ReadInv, TrueSource, TrueCall, TrueStream, FileBytes

\* Nothing that the size bounds is left once a call is over or none is made.
LEMMA OverKeepsSize ==
  ASSUME ReadInv, SizeInv, source'.kind = source.kind, source'.size = source.size,
         source'.ranges \in {source.ranges, <<>>}, call'.pc \in {"idle", "thrown"},
         stream' \in {stream, NoStream}
  PROVE  SizeInv'
  <1>1. CASE Known
    <2>1. source.ranges \in Seq(InsideSize) /\ stream.at + stream.count <= source.size
      BY <1>1 DEF SizeInv, Known
    <2>2. InsideSize' = InsideSize
      BY DEF InsideSize, TrueRange, CachedRange, RangeEnd
    <2>3. source'.ranges \in Seq(InsideSize)
      <3>1. <<>> \in Seq(InsideSize)
        OBVIOUS
      <3> QED
        BY <2>1, <3>1
    <2>4. stream'.at + stream'.count <= source.size
      BY <1>1, <2>1, SizeTyped DEF Known, NoStream
    <2> QED
      BY <2>2, <2>3, <2>4 DEF SizeInv
  <1>2. CASE ~Known
    BY <1>2 DEF SizeInv, Known
  <1> QED
    BY <1>1, <1>2

\* What the source reads no part of leaves the size its say.
LEMMA OthersKeepSize ==
  ASSUME SizeInv, UNCHANGED <<call, stream>>, source' = source \/ source' = Closed, ReadInv
  PROVE  SizeInv'
  <1>1. CASE source' = source
    <2>1. InsideSize' = InsideSize
      BY <1>1 DEF InsideSize, TrueRange, CachedRange, RangeEnd
    <2> QED
      BY <1>1, <2>1 DEF SizeInv
  <1>2. CASE source' = Closed
    <2>1. source'.kind = source.kind /\ source'.size = source.size /\ source'.ranges = <<>>
      BY <1>2 DEF Closed, ReadInv, TrueSource
    <2>2. <<>> \in Seq(InsideSize')
      OBVIOUS
    <2> QED
      BY <2>1, <2>2 DEF SizeInv
  <1> QED
    BY <1>1, <1>2

\* A call begins inside the file, or past the end of it with nothing (readAt).
LEMMA BeginKeepsSize ==
  ASSUME ReadInv, SizeInv, NEW at \in Nat, NEW want \in Nat, BeginReadAt(at, want)
  PROVE  SizeInv'
  <1>1. CASE Known
    <2>1. \/ PastEnd(at) /\ call' = [pc |-> "done", at |-> at, want |-> want, got |-> <<>>,
                                     cut |-> FALSE]
          \/ ~PastEnd(at) /\ call' = [pc |-> "loop", at |-> at, want |-> want, got |-> <<>>,
                                      cut |-> FALSE]
      BY <1>1 DEF BeginReadAt, Known, Idle
    <2>2. UNCHANGED <<source, stream>> /\ InsideSize' = InsideSize
      BY DEF BeginReadAt, InsideSize, TrueRange, CachedRange, RangeEnd
    <2>3. Len(<<>>) = 0
      OBVIOUS
    <2>4. CASE PastEnd(at)
      <3>1. call'.pc = "done" /\ call'.at = at /\ call'.want = want /\ call'.got = <<>>
        BY <2>1, <2>4
      <3>2. 0 = LargerOf(0, SmallerOf(want, source.size - at))
        BY <2>4, SizeTyped DEF PastEnd, LargerOf, SmallerOf
      <3> QED
        BY <2>2, <2>3, <3>1, <3>2 DEF SizeInv
    <2>5. CASE ~PastEnd(at)
      <3>1. call'.pc = "loop" /\ call'.at = at /\ call'.got = <<>>
        BY <2>1, <2>5
      <3>2. at + 0 <= source.size
        BY <1>1, <2>5, SizeTyped DEF PastEnd, Known
      <3> QED
        BY <2>2, <2>3, <3>1, <3>2 DEF SizeInv
    <2> QED
      BY <2>4, <2>5
  <1>2. CASE ~Known
    BY <1>2 DEF SizeInv, Known, BeginReadAt
  <1> QED
    BY <1>1, <1>2

\* The lengths of what was copied before and what is copied next add up (readAt).
LEMMA JoinedLength ==
  ASSUME NEW got \in Seq(Nat), NEW piece \in Seq(Nat)
  PROVE  Len(got \o piece) = Len(got) + Len(piece)
  OBVIOUS

\* What is copied of a range ends where the range does at the latest (readAt).
LEMMA EndInside ==
  ASSUME NEW at \in Nat, NEW got \in Nat, NEW start \in Nat, NEW offset \in Nat,
         start + offset = at + got, NEW held_ \in Nat, NEW size \in Int, start + held_ <= size,
         NEW length \in Nat, offset + length <= held_
  PROVE  at + (got + length) <= size
  OBVIOUS

\* The loop of readAt ends with all it was asked for, or where the size does.
LEMMA WholeOrEnd ==
  ASSUME NEW at \in Nat, NEW want \in Nat, NEW got \in Nat, NEW size \in Int,
         got <= want, at + got <= size, got = want \/ at + got >= size
  PROVE  got = LargerOf(0, SmallerOf(want, size - at))
  BY DEF LargerOf, SmallerOf

\* A round that copies ends inside the size, as the range does (readAt).
LEMMA CopyKeepsSize ==
  ASSUME Assumptions, ReadInv, SizeInv, CopyFromRange
  PROVE  SizeInv'
  <1> DEFINE index == FirstCached(Position)
             range == source.ranges[index]
             offset == Position - range.start
             length == SmallerOf(call.want - Len(call.got), Len(range.data) - offset)
             piece == SubSeq(range.data, offset + 1, offset + length)
  <1>1. Position \in Nat /\ call.pc = "loop"
    <2>1. call.at \in Nat /\ call.got \in Seq(Nat)
      BY DEF ReadInv, TrueCall
    <2>2. call.pc = "loop"
      BY DEF CopyFromRange
    <2>3. Len(call.got) \in Nat
      BY <2>1
    <2> QED
      BY <2>1, <2>2, <2>3 DEF Position
  <1>2. index \in DOMAIN source.ranges /\ Holds(index, Position)
    BY <1>1, FirstCachedHolds DEF CopyFromRange
  <1>3. /\ stream' = stream
        /\ source' = [source EXCEPT !.ranges = Append(RemoveAt(@, index), range)]
        /\ call' = [call EXCEPT !.got = @ \o piece]
        /\ Len(call.got) < call.want
    BY DEF CopyFromRange
  <1>4. source'.kind = source.kind /\ source'.size = source.size
        /\ source'.ranges = Append(RemoveAt(source.ranges, index), range)
    BY <1>3 DEF ReadInv, TrueSource
  <1>5. call'.pc = "loop" /\ call'.at = call.at /\ call'.got = call.got \o piece
    BY <1>1, <1>3 DEF ReadInv, TrueCall
  <1>6. CASE Known
    <2>1. source.ranges \in Seq(InsideSize) /\ stream.at + stream.count <= source.size
      BY <1>6 DEF SizeInv, Known
    <2>2. range \in InsideSize /\ source'.ranges \in Seq(InsideSize)
      BY <1>2, <1>4, <2>1, RangesStay
    <2>3. InsideSize' = InsideSize
      BY <1>4 DEF InsideSize, TrueRange, CachedRange, RangeEnd
    <2>4. /\ range.start \in Nat /\ range.data \in Seq(Nat) /\ Len(range.data) \in Nat
          /\ range.start + Len(range.data) <= source.size
      BY <2>2 DEF InsideSize, TrueRange, CachedRange, RangeEnd
    <2>5. range.start <= Position /\ Position < range.start + Len(range.data)
      BY <1>2 DEF Holds, RangeEnd
    <2> HIDE DEF index, range
    <2>6. /\ offset \in Nat /\ offset < Len(range.data)
          /\ range.start + offset = call.at + Len(call.got)
      BY <1>1, <2>4, <2>5, SizeTyped DEF Position
    <2> HIDE DEF offset
    <2>7. length \in Nat /\ offset + length <= Len(range.data)
      BY <1>3, <2>4, <2>6, CopyLength, SizeTyped
    <2> HIDE DEF length
    <2>8. Len(piece) = length /\ piece \in Seq(Nat)
      <3>1. Len(piece) = length
        BY <2>4, <2>6, <2>7, PieceLength
      <3>2. piece \in Seq(Nat)
        BY <2>4, <2>6, <2>7
      <3> QED
        BY <3>1, <3>2
    <2> HIDE DEF piece
    <2>9. Len(call.got \o piece) = Len(call.got) + length
      BY <2>8, JoinedLength, SizeTyped
    <2>10. call.at + (Len(call.got) + length) <= source.size
      <3>1. /\ call.at \in Nat /\ Len(call.got) \in Nat /\ source.size \in Int
        BY SizeTyped
      <3> QED
        BY <2>4, <2>6, <2>7, <3>1, EndInside
    <2> QED
      BY <1>3, <1>4, <1>5, <2>1, <2>2, <2>3, <2>9, <2>10 DEF SizeInv
  <1>7. CASE ~Known
    BY <1>4, <1>7 DEF SizeInv, Known
  <1> QED
    BY <1>6, <1>7

\* A process is asked for no more than there is to the size (fetchRange).
LEMMA StartKeepsSize ==
  ASSUME Assumptions, ReadInv, SizeInv, StartFetch
  PROVE  SizeInv'
  <1>1. Position \in Nat /\ ~PastEnd(Position) /\ call.pc = "loop"
    BY DEF StartFetch, Position, ReadInv, TrueCall
  <1>2. CASE /\ stream' = [NoStream EXCEPT !.pc = "open", !.at = Position,
                             !.count = FetchBytes(Position, call.want - Len(call.got))]
             /\ call' = [call EXCEPT !.pc = "fetch"]
             /\ UNCHANGED source
    <2>1. stream'.at = Position /\ stream'.count = FetchBytes(Position, call.want - Len(call.got))
      BY <1>2 DEF NoStream
    <2>2. call'.pc = "fetch" /\ call'.at = call.at /\ call'.got = call.got
      BY <1>2 DEF ReadInv, TrueCall
    <2>3. InsideSize' = InsideSize
      BY <1>2 DEF InsideSize, TrueRange, CachedRange, RangeEnd
    <2>4. ASSUME Known
          PROVE  stream'.at + stream'.count <= source.size
      BY <1>1, <2>1, <2>4, SizeTyped DEF Known, FetchBytes, SmallerOf, LargerOf, Assumptions
    <2> QED
      BY <1>1, <1>2, <2>2, <2>3, <2>4 DEF SizeInv, Known
  <1>3. CASE /\ call' = [call EXCEPT !.pc = "thrown"]
             /\ source' = [source EXCEPT !.failed = TRUE]
             /\ UNCHANGED stream
    <2>1. call'.pc = "thrown" /\ source'.kind = source.kind /\ source'.size = source.size
          /\ source'.ranges = source.ranges
      BY <1>3 DEF ReadInv, TrueCall, TrueSource
    <2> QED
      BY <1>3, <2>1, OverKeepsSize
  <1> QED
    BY <1>2, <1>3 DEF StartFetch

\* A fetch that fails answers nothing (fetchRange).
LEMMA FailureKeepsSize ==
  ASSUME ReadInv, SizeInv, NEW cut, FetchFails(cut)
  PROVE  SizeInv'
  <1>1. call'.pc = "thrown" /\ source'.kind = source.kind /\ source'.size = source.size
        /\ source'.ranges = source.ranges /\ stream' = NoStream
    BY DEF FetchFails, ReadInv, TrueCall, TrueSource
  <1> QED
    BY <1>1, OverKeepsSize

\* What a fetch brings for a known size is kept inside it; a short one is a failure.
LEMMA FinishKeepsSize ==
  ASSUME Assumptions, ReadInv, SizeInv, call.pc = "fetch", NEW cut, FinishFetch(cut)
  PROVE  SizeInv'
  <1> DEFINE range == [start |-> stream.at, data |-> Bytes(stream.at, stream.got)]
  <1>1. CASE FetchFails(cut)
    BY <1>1, FailureKeepsSize
  <1>2. CASE source.size < 0 /\ UNCHANGED source
    BY <1>2, SizeTyped DEF SizeInv
  <1>3. CASE /\ source' = [source EXCEPT !.ranges = Keep(range)]
             /\ call' = [call EXCEPT !.pc = "loop", !.cut = cut] /\ stream' = NoStream
    <2>1. /\ source'.kind = source.kind /\ source'.size = source.size
          /\ source'.ranges = Keep(range)
      BY <1>3 DEF ReadInv, TrueSource
    <2>2. /\ call'.pc = "loop" /\ call'.at = call.at /\ call'.got = call.got
          /\ stream'.at = 0 /\ stream'.count = 0
      BY <1>3 DEF ReadInv, TrueCall, NoStream
    <2>3. CASE Known
      <3>1. /\ source.ranges \in Seq(InsideSize) /\ stream.at + stream.count <= source.size
            /\ call.at + Len(call.got) <= source.size
        BY <2>3 DEF SizeInv, Known
      <3>2. stream.got <= stream.count /\ stream.got <= LargerOf(0, Length - stream.at)
        <4>1. stream.got <= SmallerOf(stream.count, LargerOf(0, Length - stream.at))
          BY DEF ReadInv, TrueStream, Delivered
        <4> QED
          BY <4>1, SizeTyped DEF SmallerOf, LargerOf, Assumptions
      <3>3. range \in TrueRange /\ Len(Bytes(stream.at, stream.got)) = stream.got
        BY <3>2, SizeTyped, FetchedIsTrue, BytesOfTheFile
      <3>4. range.start + Len(range.data) <= source.size
        BY <3>1, <3>2, <3>3, SizeTyped
      <3>5. range \in InsideSize
        BY <3>3, <3>4 DEF InsideSize, RangeEnd
      <3>6. Keep(range) \in Seq(InsideSize)
        BY <3>1, <3>5, KeepStays DEF Assumptions
      <3>7. InsideSize' = InsideSize
        BY <2>1 DEF InsideSize, TrueRange, CachedRange, RangeEnd
      <3> HIDE DEF range
      <3> QED
        BY <2>1, <2>2, <2>3, <3>1, <3>6, <3>7 DEF SizeInv, Known
    <2>4. CASE ~Known
      BY <2>1, <2>4 DEF SizeInv, Known
    <2> QED
      BY <2>3, <2>4
  <1> QED
    BY <1>1, <1>2, <1>3 DEF FinishFetch

\* The loop of readAt ends with all that was asked for, or at the size.
LEMMA EndKeepsSize ==
  ASSUME ReadInv, SizeInv, EndReadAt
  PROVE  SizeInv'
  <1>1. UNCHANGED <<source, stream>> /\ InsideSize' = InsideSize
    BY DEF EndReadAt, InsideSize, TrueRange, CachedRange, RangeEnd
  <1>2. /\ call'.pc = "done" /\ call'.at = call.at /\ call'.want = call.want
        /\ call'.got = call.got /\ call.pc = "loop"
    BY DEF EndReadAt, ReadInv, TrueCall
  <1>3. ASSUME Known
        PROVE  Len(call.got) = LargerOf(0, SmallerOf(call.want, source.size - call.at))
    <2>1. call.at + Len(call.got) <= source.size
      BY <1>2, <1>3 DEF SizeInv, Known
    <2>2. /\ call.at \in Nat /\ Len(call.got) \in Nat /\ call.want \in Nat
          /\ source.size \in Int /\ Len(call.got) <= call.want
      BY SizeTyped
    <2>3. Len(call.got) = call.want \/ call.at + Len(call.got) >= source.size
      BY DEF EndReadAt, PastEnd, Position
    <2> QED
      BY <2>1, <2>2, <2>3, WholeOrEnd
  <1> QED
    BY <1>1, <1>2, <1>3 DEF SizeInv, Known

\* Bytes that come and a watchdog that wakes change nothing the size is about.
LEMMA StreamKeepsSize ==
  ASSUME ReadInv, SizeInv, UNCHANGED <<source, call>>,
         stream'.at = stream.at, stream'.count = stream.count
  PROVE  SizeInv'
  <1>1. InsideSize' = InsideSize
    BY DEF InsideSize, TrueRange, CachedRange, RangeEnd
  <1> QED
    BY <1>1 DEF SizeInv

\* Every step of readAt and of the watchdog stays inside the size.
LEMMA SourceStepKeepsSize ==
  ASSUME Assumptions, ReadInv, SizeInv, SourceStep \/ Watchdog
  PROVE  SizeInv'
  <1>1. CASE Watchdog
    <2>1. UNCHANGED <<source, call>> /\ stream'.at = stream.at /\ stream'.count = stream.count
      BY <1>1 DEF Watchdog, WatchdogCloses, WatchdogFlags, WatchdogKills, ReadInv, TrueStream
    <2> QED
      BY <2>1, StreamKeepsSize
  <1>2. CASE ReceiveBytes
    <2>1. CASE FetchFails(FALSE)
      BY <2>1, FailureKeepsSize
    <2>2. CASE \E k \in 1..Undelivered :
                 stream' = [stream EXCEPT !.got = @ + k] /\ UNCHANGED <<call, source>>
      <3>1. stream'.at = stream.at /\ stream'.count = stream.count
        BY <2>2 DEF ReadInv, TrueStream
      <3> QED
        BY <2>2, <3>1, StreamKeepsSize
    <2> QED
      BY <1>2, <2>1, <2>2 DEF ReceiveBytes
  <1>3. CASE FetchIsFull \/ StreamEnds \/ StreamFails
    <2>1. \E cut : FetchFails(cut) \/ (call.pc = "fetch" /\ FinishFetch(cut))
      BY <1>3 DEF FetchIsFull, StreamEnds, StreamFails
    <2> QED
      BY <2>1, FailureKeepsSize, FinishKeepsSize
  <1> QED
    BY <1>1, <1>2, <1>3, CopyKeepsSize, StartKeepsSize, EndKeepsSize DEF SourceStep

\* A new source is opened with no call under way, of the size there was for a remote.
LEMMA PlatformKeepsSize ==
  ASSUME Assumptions, ReadInv, SizeInv, PlatformReturns
  PROVE  SizeInv'
  <1>1. UNCHANGED <<call, stream>> /\ call.pc = "idle"
    BY DEF PlatformReturns
  <1>2. CASE source' = Closed
    BY <1>1, <1>2, OthersKeepSize
  <1>3. ASSUME NEW size \in IF source.kind = "remote" THEN {source.size} ELSE Sizes,
               source' = NewSource(source.kind, size)
        PROVE  SizeInv'
    <2>1. source'.kind = source.kind /\ source'.size = size /\ source'.ranges = <<>>
      BY <1>3 DEF NewSource
    <2>2. CASE source.kind = "remote"
      <3>1. source'.size = source.size
        BY <2>1, <2>2
      <3> QED
        BY <1>1, <2>1, <3>1, OverKeepsSize
    <2>3. CASE source.kind # "remote"
      BY <2>1, <2>3 DEF SizeInv
    <2> QED
      BY <2>2, <2>3
  <1> QED
    BY <1>2, <1>3 DEF PlatformReturns

\* Every step keeps what is read of a remote inside its listed size.
LEMMA SizeInvKeeps ==
  ASSUME Assumptions, ReadInv, SizeInv, [Next]_vars
  PROVE  SizeInv'
  <1>1. CASE PlatformReads
    <2>1. PICK at \in 0..Length, want \in 1..BufferSize : BeginReadAt(at, want)
      BY <1>1 DEF PlatformReads
    <2>2. at \in Nat /\ want \in Nat
      BY <2>1 DEF Assumptions
    <2> QED
      BY <2>1, <2>2, BeginKeepsSize
  <1>2. CASE PlatformReadReturns \/ ReadPacketReturns
    <2>1. call' = Idle /\ UNCHANGED <<source, stream>>
      BY <1>2 DEF PlatformReadReturns, ReadPacketReturns
    <2> QED
      BY <2>1, OverKeepsSize DEF Idle
  <1>3. CASE PlatformReturns
    BY <1>3, PlatformKeepsSize
  <1>4. CASE ReadPacket
    <2>1. CASE UNCHANGED readVars
      BY <2>1, OthersKeepSize DEF readVars
    <2>2. ASSUME ~(io.size >= 0 /\ io.position >= io.size), ~(io.total >= MaxBytes),
                 NEW size \in 1..BufferSize, BeginReadAt(io.position, Requested(size))
          PROVE  SizeInv'
      <3>1. io.position \in Nat /\ io.size \in Int /\ io.total \in Nat
        BY DEF ReadInv, TrueIo
      <3>2. Requested(size) \in Nat
        BY <2>2, <3>1 DEF Requested, SmallerOf, Assumptions
      <3> QED
        BY <2>2, <3>1, <3>2, BeginKeepsSize
    <2> QED
      BY <1>4, <2>1, <2>2 DEF ReadPacket
  <1>5. CASE FfmpegReturns \/ NativeStep \/ DeadlinePasses
    BY <1>5, NativeReadsNothing, OthersKeepSize
  <1>6. CASE Seek \/ UNCHANGED vars
    BY <1>6, OthersKeepSize DEF Seek, vars, readVars
  <1>7. CASE Reading \/ Stalling
    BY <1>7, SourceStepKeepsSize DEF Reading, Stalling
  <1> QED
    BY <1>1, <1>2, <1>3, <1>4, <1>5, <1>6, <1>7 DEF Next

\* With a known size a remote's answer is short only at the end of the file,
\* however many ranges, fetches and failures there were before (readAt).
THEOREM KnownSizesAreComplete == Spec => []KnownSizeIsComplete
  <1>1. Init => SizeInv
    <2> SUFFICES ASSUME Init PROVE SizeInv
      OBVIOUS
    <2>1. PICK kind \in {"remote", "document"}, size \in Sizes : source = NewSource(kind, size)
      BY DEF Init
    <2>2. source.size = size /\ source.ranges = <<>>
      BY <2>1 DEF NewSource
    <2>3. call.pc = "idle" /\ stream.at = 0 /\ stream.count = 0
      BY DEF Init, Idle, NoStream
    <2>4. <<>> \in Seq(InsideSize)
      OBVIOUS
    <2> QED
      BY <2>2, <2>3, <2>4, SizesAssumption DEF SizeInv
  <1>2. ReadInv /\ SizeInv /\ [Next]_vars => SizeInv'
    BY AssumptionsHold, SizeInvKeeps
  <1>3. SizeInv => KnownSizeIsComplete
    BY DEF SizeInv, KnownSizeIsComplete
  <1> QED
    BY <1>1, <1>2, <1>3, ReadsAreInvariant, PTL DEF Spec

----------------------------------------------------------------------------
(* The inductive invariant of the budget *)

\* The places where FFmpeg runs.
Calling == {"open", "probe", "seek", "demux"}

\* A read is under way only where FFmpeg or the retriever runs, and asks for no
\* more than is left of the budget.
BudgetInv ==
  /\ source.size \in Sizes /\ io.size \in Sizes
  /\ Len(source.ranges) <= RangeCount
  /\ io.total <= MaxBytes
  /\ call.pc # "idle" => pc \in Calling \cup {"platform"}
  /\ (call.pc # "idle" /\ pc # "platform") => io.total + call.want <= MaxBytes

\* Moving a range to the end keeps their number, and a fetch keeps the limit.
LEMMA RangesAreFew ==
  ASSUME NEW S, NEW s \in Seq(S), NEW i \in DOMAIN s, NEW e \in S
  PROVE  Len(Append(RemoveAt(s, i), e)) = Len(s)
  <1>1. i \in 1..Len(s) /\ Len(s) \in Nat
    OBVIOUS
  <1> DEFINE before == SubSeq(s, 1, i - 1)
             after == SubSeq(s, i + 1, Len(s))
  <1>2. before \in Seq(S) /\ after \in Seq(S)
    BY <1>1
  <1>3. Len(before) = i - 1
    BY <1>1
  <1>4. Len(after) = Len(s) - i
    BY <1>1
  <1>5. RemoveAt(s, i) = before \o after
    BY DEF RemoveAt
  <1> HIDE DEF before, after
  <1>6. before \o after \in Seq(S) /\ Len(before \o after) = Len(before) + Len(after)
    BY <1>2
  <1>7. RemoveAt(s, i) \in Seq(S) /\ Len(RemoveAt(s, i)) = Len(s) - 1
    BY <1>1, <1>3, <1>4, <1>5, <1>6
  <1> QED
    BY <1>1, <1>7

\* The ranges kept after a fetch are no more than the limit (fetchRange).
LEMMA KeepIsBounded ==
  ASSUME NEW S, source.ranges \in Seq(S), NEW r \in S, RangeCount \in Nat \ {0},
         Len(source.ranges) <= RangeCount
  PROVE  Len(Keep(r)) <= RangeCount
  <1>1. /\ Append(source.ranges, r) \in Seq(S) /\ Append(source.ranges, r) # <<>>
        /\ Len(Append(source.ranges, r)) = Len(source.ranges) + 1 /\ Len(source.ranges) \in Nat
    OBVIOUS
  <1>2. Len(Tail(Append(source.ranges, r))) = Len(source.ranges)
    BY <1>1
  <1> QED
    BY <1>1, <1>2 DEF Keep

\* readAt and the watchdog change neither what a call asks for nor the size of
\* the source, and readAt works only in a call.
LEMMA SourceStepBudget ==
  ASSUME Assumptions, ReadInv, Len(source.ranges) <= RangeCount, SourceStep \/ Watchdog
  PROVE  /\ source'.size = source.size /\ Len(source'.ranges) <= RangeCount
         /\ call'.want = call.want /\ (call'.pc # "idle" => call.pc # "idle")
  <1>1. /\ source = [kind |-> source.kind, size |-> source.size, open |-> source.open,
                     ranges |-> source.ranges, failed |-> source.failed]
        /\ call = [pc |-> call.pc, at |-> call.at, want |-> call.want, got |-> call.got,
                   cut |-> call.cut]
        /\ source.ranges \in Seq(TrueRange)
    BY DEF ReadInv, TrueSource, TrueCall
  <1>2. CASE Watchdog \/ EndReadAt
    BY <1>1, <1>2 DEF Watchdog, WatchdogCloses, WatchdogFlags, WatchdogKills, EndReadAt
  <1>3. CASE CopyFromRange
    <2>1. FirstCached(Position) \in DOMAIN source.ranges /\ Position \in Nat
      <3>1. Position \in Nat
        BY DEF Position, ReadInv, TrueCall
      <3> QED
        BY <1>3, <3>1, FirstCachedHolds DEF CopyFromRange
    <2> DEFINE range == source.ranges[FirstCached(Position)]
    <2>2. range \in TrueRange
      BY <1>1, <2>1, RangesStay
    <2>3. Len(Append(RemoveAt(source.ranges, FirstCached(Position)), range)) = Len(source.ranges)
      BY <1>1, <2>1, <2>2, RangesAreFew
    <2>4. /\ source'.size = source.size
          /\ source'.ranges = Append(RemoveAt(source.ranges, FirstCached(Position)), range)
          /\ call'.want = call.want /\ call.pc # "idle"
      BY <1>1, <1>3 DEF CopyFromRange
    <2> QED
      BY <2>3, <2>4
  <1>4. CASE StartFetch
    BY <1>1, <1>4 DEF StartFetch
  <1>5. ASSUME NEW cut, FetchFails(cut), call.pc = "fetch"
        PROVE  /\ source'.size = source.size /\ source'.ranges = source.ranges
               /\ call'.want = call.want
    BY <1>1, <1>5 DEF FetchFails
  <1>6. ASSUME NEW cut, FinishFetch(cut), call.pc = "fetch"
        PROVE  /\ source'.size = source.size /\ Len(source'.ranges) <= RangeCount
               /\ call'.want = call.want
    <2> DEFINE range == [start |-> stream.at, data |-> Bytes(stream.at, stream.got)]
    <2>1. CASE FetchFails(cut)
      BY <1>5, <1>6, <2>1
    <2>2. CASE call' = [call EXCEPT !.pc = "done", !.cut = cut] /\ UNCHANGED source
      BY <1>1, <2>2
    <2>3. CASE /\ source' = [source EXCEPT !.ranges = Keep(range)]
               /\ call' = [call EXCEPT !.pc = "loop", !.cut = cut]
      <3>1. source'.size = source.size /\ source'.ranges = Keep(range) /\ call'.want = call.want
        BY <1>1, <2>3
      <3>2. range \in CachedRange
        BY SizeTyped, BytesOfTheFile DEF CachedRange, FileBytes
      <3>3. source.ranges \in Seq(CachedRange)
        BY <1>1 DEF TrueRange
      <3>4. Len(Keep(range)) <= RangeCount
        BY <3>2, <3>3, KeepIsBounded DEF Assumptions
      <3> QED
        BY <3>1, <3>4
    <2> QED
      BY <1>6, <2>1, <2>2, <2>3 DEF FinishFetch
  <1>7. CASE ReceiveBytes \/ FetchIsFull \/ StreamEnds \/ StreamFails
    <2>1. call.pc = "fetch" /\ \/ UNCHANGED <<call, source>>
                               \/ \E cut : FetchFails(cut) \/ FinishFetch(cut)
      BY <1>7 DEF ReceiveBytes, FetchIsFull, StreamEnds, StreamFails
    <2> QED
      BY <1>5, <1>6, <2>1
  <1> QED
    BY <1>2, <1>3, <1>4, <1>7 DEF SourceStep

\* A call asks for what it was asked for (readAt).
LEMMA BeginWants ==
  ASSUME NEW at, NEW want, BeginReadAt(at, want)
  PROVE  call'.want = want /\ UNCHANGED <<source, stream>>
  BY DEF BeginReadAt, Idle

\* nativeExtractFrame moves on only while no read is under way, and closes the
\* source or leaves it.
LEMMA NativeBudget ==
  ASSUME Assumptions, ReadInv, BudgetInv, FfmpegReturns \/ NativeStep \/ DeadlinePasses
  PROVE  BudgetInv'
  <1>1. UNCHANGED <<call, io>> /\ (source' = source \/ source' = Closed)
    BY NativeReadsNothing
  <1>2. source'.size = source.size /\ Len(source'.ranges) <= RangeCount
    <2>1. CASE source' = source
      BY <2>1 DEF BudgetInv
    <2>2. CASE source' = Closed
      <3>1. source'.size = source.size /\ source'.ranges = <<>> /\ Len(<<>>) = 0
        BY <2>2 DEF Closed, ReadInv, TrueSource
      <3> QED
        BY <3>1 DEF Assumptions
    <2> QED
      BY <1>1, <2>1, <2>2
  <1>3. pc' = pc \/ call.pc = "idle"
    <2>1. CASE FfmpegReturns
      BY <2>1 DEF FfmpegReturns, OpenReturns, ProbeReturns, SeekReturns, DemuxReturns, InFfmpeg
    <2>2. CASE NativeStep
      <3>1. pc \notin Calling \cup {"platform"}
        BY <2>2 DEF NativeStep, AllocateInput, OpenDecoder, BeginDecoding, LoopTop, ReceiveStep,
                    ReceiveFrame, ReceiveEnds, Flush, DrainStep, DrainFrame, DrainEnds,
                    DecodingOver, Calling
      <3> QED
        BY <3>1 DEF BudgetInv
    <2>3. CASE DeadlinePasses
      BY <2>3 DEF DeadlinePasses
    <2> QED
      BY <2>1, <2>2, <2>3
  <1> QED
    BY <1>1, <1>2, <1>3 DEF BudgetInv

\* java_read_packet asks for no more than the budget leaves.
LEMMA ReadPacketBudget ==
  ASSUME Assumptions, ReadInv, BudgetInv, ReadPacket
  PROVE  BudgetInv'
  <1>1. pc' = pc /\ pc \in Calling
    BY DEF ReadPacket, InFfmpeg, Calling
  <1>2. io.total \in Nat /\ io.position \in Nat /\ io.size \in Int /\ MaxBytes \in Nat
    BY DEF ReadInv, TrueIo, Assumptions
  <1>3. CASE UNCHANGED readVars /\ IoFails
    <2>1. io'.total = io.total /\ io'.size = io.size
      BY <1>3 DEF IoFails, ReadInv, TrueIo
    <2> QED
      BY <1>1, <1>3, <2>1 DEF readVars, BudgetInv
  <1>4. ASSUME NEW size \in 1..BufferSize, BeginReadAt(io.position, Requested(size)), io' = io
        PROVE  BudgetInv'
    <2>1. call'.want = Requested(size) /\ source' = source
      BY <1>4, BeginWants
    <2>2. io.total + Requested(size) <= MaxBytes
      BY <1>2, <1>4 DEF Requested, SmallerOf, Assumptions
    <2> QED
      BY <1>1, <1>4, <2>1, <2>2 DEF BudgetInv, Calling
  <1> QED
    BY <1>3, <1>4 DEF ReadPacket

\* Every step keeps the reads of FFmpeg within the budget.
LEMMA BudgetInvKeeps ==
  ASSUME Assumptions, ReadInv, BudgetInv, [Next]_vars
  PROVE  BudgetInv'
  <1>1. CASE PlatformReads
    <2>1. pc = "platform" /\ UNCHANGED <<pc, io, source>>
      BY <1>1 DEF PlatformReads, BeginReadAt, nativeVars
    <2> QED
      BY <2>1 DEF BudgetInv
  <1>2. CASE PlatformReadReturns
    BY <1>2 DEF PlatformReadReturns, nativeVars, BudgetInv, Idle
  <1>3. CASE PlatformReturns
    <2>1. call' = call /\ call.pc = "idle"
      BY <1>3 DEF PlatformReturns
    <2>2. CASE source' = Closed /\ UNCHANGED io
      <3>1. source'.size = source.size /\ source'.ranges = <<>> /\ Len(<<>>) = 0
        BY <2>2 DEF Closed, ReadInv, TrueSource
      <3> QED
        BY <2>1, <2>2, <3>1 DEF BudgetInv, Assumptions
    <2>3. ASSUME NEW size \in IF source.kind = "remote" THEN {source.size} ELSE Sizes,
                 source' = NewSource(source.kind, size), io' = NewIo(size)
          PROVE  BudgetInv'
      <3>1. size \in Sizes
        BY <2>3 DEF BudgetInv
      <3>2. /\ source'.size = size /\ source'.ranges = <<>> /\ Len(<<>>) = 0
            /\ io'.size = size /\ io'.total = 0
        BY <2>3 DEF NewSource, NewIo
      <3> QED
        BY <2>1, <3>1, <3>2 DEF BudgetInv, Assumptions
    <2> QED
      BY <1>3, <2>2, <2>3 DEF PlatformReturns
  <1>4. CASE ReadPacket
    BY <1>4, ReadPacketBudget
  <1>5. CASE ReadPacketReturns
    <2>1. call' = Idle /\ UNCHANGED <<source, pc>>
      BY <1>5 DEF ReadPacketReturns
    <2>2. io'.size = io.size /\ io'.total <= MaxBytes
      <3>1. /\ io.total \in Nat /\ call.want \in Nat /\ Len(call.got) \in Nat
            /\ Len(call.got) <= call.want /\ MaxBytes \in Nat
            /\ io = [position |-> io.position, size |-> io.size, total |-> io.total,
                     failed |-> io.failed]
        BY SizeTyped DEF ReadInv, TrueIo, Assumptions
      <3>2. CASE IoFails
        BY <3>1, <3>2 DEF IoFails, BudgetInv
      <3>3. CASE /\ call.pc = "done"
                 /\ io' = [io EXCEPT !.position = @ + Len(call.got), !.total = @ + Len(call.got)]
        <4>1. io'.size = io.size /\ io'.total = io.total + Len(call.got)
          BY <3>1, <3>3
        <4>2. io.total + call.want <= MaxBytes
          BY <1>5, <3>3 DEF ReadPacketReturns, BudgetInv
        <4> QED
          BY <3>1, <4>1, <4>2
      <3> QED
        BY <1>5, <3>2, <3>3 DEF ReadPacketReturns
    <2> QED
      BY <2>1, <2>2 DEF BudgetInv, Idle
  <1>6. CASE Seek
    <2>1. io'.size = io.size /\ io'.total = io.total
      BY <1>6 DEF Seek, IoFails, ReadInv, TrueIo
    <2> QED
      BY <1>6, <2>1 DEF Seek, readVars, BudgetInv
  <1>7. CASE FfmpegReturns \/ NativeStep \/ DeadlinePasses
    BY <1>7, NativeBudget
  <1>8. CASE Reading \/ Stalling
    <2>1. UNCHANGED <<pc, io>> /\ (SourceStep \/ Watchdog)
      BY <1>8 DEF Reading, Stalling, nativeVars
    <2>2. /\ source'.size = source.size /\ Len(source'.ranges) <= RangeCount
          /\ call'.want = call.want /\ (call'.pc # "idle" => call.pc # "idle")
      BY <2>1, SourceStepBudget DEF BudgetInv
    <2> QED
      BY <2>1, <2>2 DEF BudgetInv
  <1>9. CASE UNCHANGED vars
    BY <1>9 DEF vars, readVars, nativeVars, BudgetInv
  <1> QED
    BY <1>1, <1>2, <1>3, <1>4, <1>5, <1>6, <1>7, <1>8, <1>9 DEF Next

----------------------------------------------------------------------------
(* The inductive invariant of the decoding *)

\* The places before decode_thumbnail_frame.
Early == {"platform", "alloc", "open", "probe", "codec", "seek", "begin"}

Decode == [target : Nat \cup {NoPts}, packets : 0..MaxPackets, frames : 0..MaxFrames,
           backlog : 0..MaxPackets, candidate : Frame \cup {None}, selected : BOOLEAN]

\* The decoder holds a frame for a packet it took, and is asked for frames only
\* below the limits and while none is selected.
DecodeInv ==
  /\ decode \in Decode /\ offered \in Seq(Frame)
  /\ decode.backlog <= decode.packets
  /\ pc = "demux" => decode.packets < MaxPackets
  /\ pc \in {"demux", "receive"} => decode.frames < MaxFrames
  /\ pc \in {"demux", "receive", "drain"} => ~decode.selected

\* The target changes only while no frame was offered yet.
OfferInv ==
  /\ pc \in Early => decode.candidate = None /\ offered = <<>>
  /\ decode.candidate = None => offered = <<>> /\ ~decode.selected
  /\ BestFrame

FrameInv == DecodeInv /\ OfferInv

\* The steps of the decoding that change its locals.
Decoding ==
  OpenDecoder \/ SeekReturns \/ LoopTop \/ DemuxReturns \/ ReceiveFrame \/ Flush \/ DrainFrame

\* The other steps leave the locals alone and lead neither into the loops nor back.
LEMMA OthersDecodeNothing ==
  ASSUME [Next]_vars, ~Decoding
  PROVE  /\ UNCHANGED <<decode, offered>>
         /\ pc' \in {"demux", "receive", "drain"} => pc' = pc
         /\ pc' \in Early => pc \in Early
  <1> USE DEF Early
  <1>1. CASE PlatformReads \/ PlatformReadReturns \/ PlatformReturns \/ Seek
             \/ ReadPacket \/ ReadPacketReturns \/ DeadlinePasses
    BY <1>1 DEF PlatformReads, PlatformReadReturns, PlatformReturns, Seek, ReadPacket,
                ReadPacketReturns, DeadlinePasses, nativeVars
  <1>2. CASE Reading \/ Stalling \/ UNCHANGED vars
    BY <1>2 DEF Reading, Stalling, vars, nativeVars
  <1>3. CASE AllocateInput \/ OpenReturns \/ ProbeReturns \/ BeginDecoding
    BY <1>3 DEF AllocateInput, OpenReturns, ProbeReturns, BeginDecoding, ReturnsFreeing,
                readVars, nativeVars
  <1>4. CASE ReceiveEnds \/ DrainEnds \/ DecodingOver
    BY <1>4 DEF ReceiveEnds, DrainEnds, DecodingOver, DecodeFails, ReturnsFreeing, readVars,
                nativeVars
  <1> QED
    BY <1>1, <1>2, <1>3, <1>4 DEF Next, NativeStep, FfmpegReturns, ReceiveStep, DrainStep, Decoding

\* A target is a timestamp, or none (target_timestamp_for_stream).
LEMMA TargetIsAStamp ==
  ASSUME NEW inStream \in Durations \cup {None}, NEW inFormat \in Durations \cup {None}
  PROVE  TargetTimestamp(inStream, inFormat, 33) \in Nat \cup {NoPts}
  <1>1. SmallerOf(98, LargerOf(2, 33)) = 33
    BY DEF SmallerOf, LargerOf
  <1>2. ASSUME NEW d \in Nat
        PROVE  Round(d * 33, 100) \in Nat
    BY DEF Round
  <1>3. Durations \subseteq Nat
    BY StampAssumption
  <1> QED
    BY <1>1, <1>2, <1>3 DEF TargetTimestamp

\* The target is set before any frame was decoded (OpenDecoder, SeekReturns).
LEMMA TargetKeeps ==
  ASSUME FrameInv, NEW target \in Nat \cup {NoPts}, pc \in Early, pc' \in Early \cup {"done"},
         decode' = [decode EXCEPT !.target = target], offered' = offered
  PROVE  FrameInv'
  <1>1. /\ decode' \in Decode /\ decode'.candidate = decode.candidate
        /\ decode'.backlog = decode.backlog /\ decode'.packets = decode.packets
    BY DEF FrameInv, DecodeInv, Decode
  <1>2. decode'.selected = decode.selected
    BY DEF FrameInv, DecodeInv, Decode
  <1>3. decode.candidate = None /\ offered = <<>> /\ ~decode.selected
    BY DEF FrameInv, OfferInv
  <1>4. DecodeInv'
    BY <1>1 DEF FrameInv, DecodeInv, Early
  <1>5. BestFrame'
    BY <1>1, <1>3 DEF BestFrame
  <1>6. OfferInv'
    BY <1>1, <1>2, <1>3, <1>5 DEF OfferInv
  <1> QED
    BY <1>4, <1>6 DEF FrameInv

\* A packet is counted, and the decoder may take it (DemuxReturns).
LEMMA DemuxKeeps ==
  ASSUME FrameInv, LimitAssumption, DemuxReturns
  PROVE  FrameInv'
  <1>1. /\ pc = "demux" /\ offered' = offered /\ pc' \in {"flush", "top", "receive"}
    BY DEF DemuxReturns
  <1>2. /\ decode \in Decode /\ decode.backlog <= decode.packets
        /\ decode.packets < MaxPackets /\ decode.frames < MaxFrames
        /\ MaxPackets \in Nat
    BY <1>1, LimitAssumption DEF FrameInv, DecodeInv
  <1>3. ~decode.selected
    BY <1>1 DEF FrameInv, DecodeInv
  <1>4. /\ decode.packets \in 0..MaxPackets /\ decode.backlog \in 0..MaxPackets
        /\ decode.packets + 0 = decode.packets /\ decode.backlog + 0 = decode.backlog
        /\ decode = [target |-> decode.target, packets |-> decode.packets,
                     frames |-> decode.frames, backlog |-> decode.backlog,
                     candidate |-> decode.candidate, selected |-> decode.selected]
    BY <1>2 DEF Decode
  <1> DEFINE After(counted, taken) ==
               [target |-> decode.target, packets |-> decode.packets + counted,
                frames |-> decode.frames, backlog |-> decode.backlog + taken,
                candidate |-> decode.candidate, selected |-> decode.selected]
  <1>5. PICK counted \in {0, 1}, taken \in {0, 1} :
          taken <= counted /\ decode' = After(counted, taken)
    <2>1. CASE decode' = decode
      <3>1. decode' = After(0, 0)
        BY <1>4, <2>1
      <3> QED
        BY <3>1
    <2>2. CASE decode' = [decode EXCEPT !.packets = @ + 1]
      <3>1. decode' = After(1, 0)
        BY <1>4, <2>2
      <3> QED
        BY <3>1
    <2>3. CASE \E taken \in {0, 1} :
                 decode' = [decode EXCEPT !.packets = @ + 1, !.backlog = @ + taken]
      <3>1. PICK taken \in {0, 1} :
              decode' = [decode EXCEPT !.packets = @ + 1, !.backlog = @ + taken]
        BY <2>3
      <3>2. decode' = After(1, taken)
        BY <1>4, <3>1
      <3> QED
        BY <3>2
    <2> QED
      BY <2>1, <2>2, <2>3 DEF DemuxReturns
  <1>6. /\ decode.packets + counted \in 0..MaxPackets /\ decode.backlog + taken \in 0..MaxPackets
        /\ decode.backlog + taken <= decode.packets + counted
    BY <1>2, <1>4, <1>5
  <1>7. /\ decode' \in Decode /\ decode'.candidate = decode.candidate
        /\ decode'.backlog <= decode'.packets /\ decode'.frames = decode.frames
        /\ decode'.target = decode.target
    BY <1>2, <1>5, <1>6 DEF Decode
  <1>8. decode'.selected = decode.selected
    BY <1>5
  <1>9. DecodeInv'
    BY <1>1, <1>2, <1>3, <1>7, <1>8 DEF FrameInv, DecodeInv
  <1>10. BestFrame'
    BY <1>1, <1>7, <1>8 DEF FrameInv, OfferInv, BestFrame, Reaches
  <1>11. OfferInv'
    BY <1>1, <1>7, <1>8, <1>10 DEF FrameInv, OfferInv, Early
  <1> QED
    BY <1>9, <1>11 DEF FrameInv

\* A usable frame is offered while none reached the target yet: it becomes the
\* candidate, and is the one selected if it reaches it (consider_decoded_frame).
LEMMA OfferKeeps ==
  ASSUME FrameInv, ~decode.selected, NEW frame \in Frame,
         offered' = Append(offered, frame), decode'.candidate = frame,
         decode'.target = decode.target, decode'.selected <=> Reaches(frame), pc' \notin Early
  PROVE  OfferInv'
  <1>1. offered \in Seq(Frame) /\ Len(offered) \in Nat /\ frame # None
    BY StampAssumption DEF FrameInv, DecodeInv, Frame
  <1>2. /\ DOMAIN offered' = DOMAIN offered \cup {Len(offered) + 1}
        /\ Len(offered') = Len(offered) + 1 /\ offered' # <<>>
        /\ offered'[Len(offered) + 1] = frame
        /\ \A i \in DOMAIN offered : offered'[i] = offered[i]
    <2>1. /\ DOMAIN offered = 1..Len(offered) /\ DOMAIN offered' = 1..Len(offered) + 1
          /\ Len(offered') = Len(offered) + 1
      BY <1>1
    <2>2. /\ offered'[Len(offered) + 1] = frame
          /\ \A i \in 1..Len(offered) : offered'[i] = offered[i]
      BY <1>1
    <2> QED
      BY <1>1, <2>1, <2>2
  <1>3. \A i \in DOMAIN offered : ~Reaches(offered[i])
    <2>1. CASE decode.candidate = None
      BY <2>1 DEF FrameInv, OfferInv
    <2>2. CASE decode.candidate # None
      BY <2>2 DEF FrameInv, OfferInv, BestFrame
    <2> QED
      BY <2>1, <2>2
  <1>5. {i \in DOMAIN offered' : decode.target = NoPts \/ offered'[i].ts = NoPts
                                 \/ offered'[i].ts >= decode.target}
          = IF Reaches(frame) THEN {Len(offered) + 1} ELSE {}
    BY <1>2, <1>3 DEF Reaches
  <1>6. BestFrame'
    BY <1>2, <1>5 DEF BestFrame, Reaches
  <1> QED
    BY <1>1, <1>6 DEF OfferInv

\* What taking a frame from the decoder does to the locals.
LEMMA TakenLocals ==
  ASSUME decode \in Decode, NEW frame \in Frame, NEW counted \in {0, 1},
         decode' = [Considered(frame) EXCEPT !.backlog = @ - 1, !.frames = @ + counted]
  PROVE  \E candidate \in {frame, decode.candidate}, selected \in BOOLEAN :
           /\ decode' = [target |-> decode.target, packets |-> decode.packets,
                         frames |-> decode.frames + counted, backlog |-> decode.backlog - 1,
                         candidate |-> candidate, selected |-> selected]
           /\ frame.usable =>
                candidate = frame /\ (selected <=> (decode.selected \/ Reaches(frame)))
           /\ ~frame.usable => candidate = decode.candidate /\ selected = decode.selected
  <1> DEFINE After(candidate, selected) ==
               [target |-> decode.target, packets |-> decode.packets,
                frames |-> decode.frames + counted, backlog |-> decode.backlog - 1,
                candidate |-> candidate, selected |-> selected]
             Before(candidate, selected) ==
               [target |-> decode.target, packets |-> decode.packets,
                frames |-> decode.frames, backlog |-> decode.backlog,
                candidate |-> candidate, selected |-> selected]
  <1>1. ASSUME NEW candidate, NEW selected, Considered(frame) = Before(candidate, selected)
        PROVE  decode' = After(candidate, selected)
    <2>1. Considered(frame).backlog = decode.backlog /\ Considered(frame).frames = decode.frames
      BY <1>1
    <2>2. decode' = [Before(candidate, selected) EXCEPT !.backlog = decode.backlog - 1,
                                                       !.frames = decode.frames + counted]
      BY <1>1, <2>1
    <2> QED
      BY <2>2
  <1>2. CASE frame.usable
    <2>1. PICK selected \in BOOLEAN : selected <=> (decode.selected \/ Reaches(frame))
      <3>1. (decode.selected \/ Reaches(frame)) \in BOOLEAN
        OBVIOUS
      <3> QED
        BY <3>1
    <2>2. Considered(frame) = Before(frame, selected)
      <3>1. Considered(frame) = Before(frame, decode.selected \/ Reaches(frame))
        BY <1>2 DEF Considered, Decode
      <3>2. (decode.selected \/ Reaches(frame)) = selected
        BY <2>1
      <3> HIDE DEF Before
      <3> QED
        BY <3>1, <3>2
    <2> HIDE DEF Before, After
    <2>3. decode' = After(frame, selected)
      BY <1>1, <2>2
    <2> QED
      BY <1>2, <2>1, <2>3 DEF After
  <1>3. CASE ~frame.usable
    <2>1. Considered(frame) = Before(decode.candidate, decode.selected)
      BY <1>3 DEF Considered, Decode
    <2>2. decode.selected \in BOOLEAN
      BY DEF Decode
    <2> HIDE DEF Before, After
    <2>3. decode' = After(decode.candidate, decode.selected)
      BY <1>1, <2>1
    <2> QED
      BY <1>3, <2>2, <2>3 DEF After
  <1> QED
    BY <1>2, <1>3

\* A frame is taken while none is selected, in either loop (decode_thumbnail_frame).
LEMMA TakeKeeps ==
  ASSUME FrameInv, LimitAssumption,
         \/ pc = "receive" /\ TakeFrame(1, "receive", "top")
         \/ pc = "drain" /\ TakeFrame(0, "drain", "over")
  PROVE  FrameInv'
  <1>1. /\ decode \in Decode /\ offered \in Seq(Frame) /\ decode.backlog <= decode.packets
        /\ decode.backlog > 0
    BY DEF FrameInv, DecodeInv, TakeFrame
  <1>2. ~decode.selected
    BY DEF FrameInv, DecodeInv
  <1>3. CASE DecodeFails
    <2>1. UNCHANGED <<decode, offered>> /\ pc' = "done"
      BY <1>3 DEF DecodeFails, ReturnsFreeing
    <2> QED
      BY <2>1 DEF FrameInv, DecodeInv, OfferInv, BestFrame, Reaches, Early
  <1>4. ASSUME NEW frame \in Frame, NEW counted \in {0, 1},
               decode' = [Considered(frame) EXCEPT !.backlog = @ - 1, !.frames = @ + counted],
               offered' = IF frame.usable THEN Append(offered, frame) ELSE offered,
               pc' \in {"top", "over", "receive", "drain"},
               pc' \in {"receive", "drain"} => ~decode'.selected,
               counted = 1 => decode.frames < MaxFrames,
               pc' = "receive" => ~(decode'.frames >= MaxFrames)
        PROVE  FrameInv'
    <2>1. PICK candidate \in {frame, decode.candidate}, selected \in BOOLEAN :
            /\ decode' = [target |-> decode.target, packets |-> decode.packets,
                          frames |-> decode.frames + counted, backlog |-> decode.backlog - 1,
                          candidate |-> candidate, selected |-> selected]
            /\ frame.usable =>
                 candidate = frame /\ (selected <=> (decode.selected \/ Reaches(frame)))
            /\ ~frame.usable => candidate = decode.candidate /\ selected = decode.selected
      BY <1>1, <1>4, TakenLocals
    <2>2. /\ decode.frames + counted \in 0..MaxFrames /\ decode.backlog - 1 \in 0..MaxPackets
          /\ decode.backlog - 1 <= decode.packets
      <3>1. /\ decode.frames \in 0..MaxFrames /\ decode.backlog \in 0..MaxPackets
            /\ decode.packets \in 0..MaxPackets /\ MaxFrames \in Nat /\ MaxPackets \in Nat
        BY <1>1, LimitAssumption DEF Decode
      <3> QED
        BY <1>1, <1>4, <3>1
    <2>4. /\ decode'.target = decode.target /\ decode'.packets = decode.packets
          /\ decode'.frames = decode.frames + counted /\ decode'.backlog = decode.backlog - 1
          /\ decode'.candidate = candidate /\ decode'.selected = selected
      BY <2>1
    <2>5. decode' \in Decode
      <3>1. /\ decode.target \in Nat \cup {NoPts} /\ decode.packets \in 0..MaxPackets
            /\ candidate \in Frame \cup {None} /\ selected \in BOOLEAN
        BY <1>1, <1>4, <2>1 DEF Decode
      <3> QED
        BY <2>1, <2>2, <3>1 DEF Decode
    <2>6. offered' \in Seq(Frame)
      BY <1>1, <1>4
    <2>7. DecodeInv'
      <3>1. pc' = "receive" => decode'.frames < MaxFrames
        BY <1>4, <2>2, <2>4, LimitAssumption
      <3> QED
        BY <1>4, <2>2, <2>4, <2>5, <2>6, <3>1 DEF DecodeInv
    <2>8. CASE frame.usable
      <3>1. decode'.selected <=> Reaches(frame)
        BY <1>2, <2>1, <2>4, <2>8
      <3> QED
        BY <1>2, <1>4, <2>1, <2>4, <2>7, <2>8, <3>1, OfferKeeps DEF FrameInv, Early
    <2>9. CASE ~frame.usable
      <3>1. decode'.selected = decode.selected /\ offered' = offered
        BY <1>4, <2>1, <2>4, <2>9
      <3>2. decode'.candidate = decode.candidate
        BY <2>1, <2>4, <2>9
      <3>3. BestFrame'
        BY <2>4, <3>1, <3>2 DEF FrameInv, OfferInv, BestFrame, Reaches
      <3>4. OfferInv'
        BY <1>4, <3>1, <3>2, <3>3 DEF FrameInv, OfferInv, Early
      <3> QED
        BY <2>7, <3>4 DEF FrameInv
    <2> QED
      BY <2>8, <2>9
  <1>5. CASE pc = "receive" /\ TakeFrame(1, "receive", "top")
    <2>1. decode.frames < MaxFrames
      BY <1>5 DEF FrameInv, DecodeInv
    <2>2. PICK frame \in Frame :
            \/ /\ decode' = [Considered(frame) EXCEPT !.backlog = @ - 1, !.frames = @ + 1]
               /\ offered' = IF frame.usable THEN Append(offered, frame) ELSE offered
               /\ pc' = IF decode'.selected \/ decode'.frames >= MaxFrames
                        THEN "top" ELSE "receive"
            \/ DecodeFails
      BY <1>5 DEF TakeFrame
    <2> QED
      BY <1>3, <1>4, <2>1, <2>2
  <1>6. CASE pc = "drain" /\ TakeFrame(0, "drain", "over")
    <2>1. PICK frame \in Frame :
            \/ /\ decode' = [Considered(frame) EXCEPT !.backlog = @ - 1, !.frames = @ + 0]
               /\ offered' = IF frame.usable THEN Append(offered, frame) ELSE offered
               /\ pc' = IF decode'.selected \/ (0 = 1 /\ decode'.frames >= MaxFrames)
                        THEN "over" ELSE "drain"
            \/ DecodeFails
      BY <1>6 DEF TakeFrame
    <2>2. CASE ~DecodeFails
      <3>1. pc' \in {"over", "drain"} /\ (pc' = "drain" => ~decode'.selected)
        BY <2>1, <2>2
      <3>2. 0 \in {0, 1} /\ 0 # 1
        OBVIOUS
      <3> QED
        BY <1>4, <2>1, <2>2, <3>1, <3>2
    <2> QED
      BY <1>3, <2>2
  <1> QED
    BY <1>5, <1>6

\* Every step keeps what the decoding knows of its frames.
LEMMA FrameInvKeeps ==
  ASSUME FrameInv, LimitAssumption, [Next]_vars
  PROVE  FrameInv'
  <1>1. ASSUME UNCHANGED <<decode, offered>>, DecodeInv', pc' \in Early => pc \in Early
        PROVE  FrameInv'
    <2>1. BestFrame'
      BY <1>1 DEF FrameInv, OfferInv, BestFrame, Reaches
    <2> QED
      BY <1>1, <2>1 DEF FrameInv, OfferInv
  <1>2. CASE ~Decoding
    <2>1. /\ UNCHANGED <<decode, offered>>
          /\ pc' \in {"demux", "receive", "drain"} => pc' = pc
          /\ pc' \in Early => pc \in Early
      BY <1>2, OthersDecodeNothing
    <2>2. DecodeInv'
      BY <2>1 DEF FrameInv, DecodeInv
    <2> QED
      BY <1>1, <2>1, <2>2
  <1>3. CASE OpenDecoder
    <2>1. CASE ReturnsFreeing(DecoderHandles, None)
      <3>1. UNCHANGED <<decode, offered>> /\ pc' = "done"
        BY <2>1 DEF ReturnsFreeing
      <3>2. DecodeInv'
        BY <3>1 DEF FrameInv, DecodeInv
      <3> QED
        BY <1>1, <3>1, <3>2 DEF Early
    <2>2. ASSUME NEW inStream \in Durations \cup {None}, NEW inFormat \in Durations \cup {None},
                 decode' = [decode EXCEPT !.target = TargetTimestamp(inStream, inFormat, 33)],
                 pc' \in {"begin", "seek"}, offered' = offered
          PROVE  FrameInv'
      <3>1. TargetTimestamp(inStream, inFormat, 33) \in Nat \cup {NoPts}
        BY TargetIsAStamp
      <3> QED
        BY <1>3, <2>2, <3>1, TargetKeeps DEF OpenDecoder, Early
    <2> QED
      BY <1>3, <2>1, <2>2 DEF OpenDecoder
  <1>4. CASE SeekReturns
    <2>1. PICK target \in {decode.target, NoPts} : decode' = [decode EXCEPT !.target = target]
      BY <1>4 DEF SeekReturns
    <2>2. target \in Nat \cup {NoPts}
      BY <2>1 DEF FrameInv, DecodeInv, Decode
    <2>3. pc = "seek" /\ pc' = "begin" /\ offered' = offered
      BY <1>4 DEF SeekReturns
    <2> QED
      BY <2>1, <2>2, <2>3, TargetKeeps DEF Early
  <1>5. CASE LoopTop \/ Flush
    <2>1. /\ UNCHANGED <<decode, offered>> /\ pc' \in {"demux", "flush", "drain", "over"}
          /\ pc' = "demux" => /\ ~decode.selected
                              /\ decode.packets < MaxPackets /\ decode.frames < MaxFrames
          /\ pc' = "drain" => ~decode.selected
      BY <1>5 DEF LoopTop, Flush, nativeVars
    <2>2. DecodeInv'
      BY <2>1 DEF FrameInv, DecodeInv
    <2> QED
      BY <1>1, <2>1, <2>2 DEF Early
  <1>6. CASE DemuxReturns
    BY <1>6, DemuxKeeps
  <1>7. CASE ReceiveFrame \/ DrainFrame
    BY <1>7, TakeKeeps DEF ReceiveFrame, DrainFrame
  <1> QED
    BY <1>2, <1>3, <1>4, <1>5, <1>6, <1>7 DEF Decoding

\* The decoding starts with nothing decoded (nativeExtractFrame).
LEMMA FrameInvStarts ==
  ASSUME LimitAssumption, Init
  PROVE  FrameInv
  <1>1. decode = NewDecode /\ offered = <<>> /\ pc = "platform"
    BY DEF Init
  <1>2. NewDecode \in Decode
    BY LimitAssumption DEF NewDecode, Decode
  <1>3. decode.candidate = None /\ ~decode.selected /\ decode.backlog = 0 /\ decode.packets = 0
    BY <1>1 DEF NewDecode
  <1> QED
    BY <1>1, <1>2, <1>3 DEF FrameInv, DecodeInv, OfferInv, BestFrame

\* What the decoding knows of its frames holds in every state.
LEMMA FramesAreInvariant == Spec => []FrameInv
  <1>1. Init => FrameInv
    BY LimitAssumption, FrameInvStarts
  <1>2. FrameInv /\ [Next]_vars => FrameInv'
    BY LimitAssumption, FrameInvKeeps
  <1> QED
    BY <1>1, <1>2, PTL DEF Spec

\* The frame converted is the first usable one at or after the target, or else the
\* last usable one, through limits, deadline, failed seek and flush, for every
\* number of packets and frames (decode_thumbnail_frame, consider_decoded_frame).
THEOREM FrameIsTheBest == Spec => []BestFrame
  <1>1. FrameInv => BestFrame
    BY DEF FrameInv, OfferInv
  <1> QED
    BY <1>1, FramesAreInvariant, PTL

----------------------------------------------------------------------------
(* The bitmap *)

\* A side no longer than the longest is scaled to no more than the maximum (fit_inside).
LEMMA ScaledFits ==
  ASSUME NEW side \in Nat \ {0}, NEW largest \in Nat \ {0}, side <= largest,
         NEW max \in Nat \ {0}
  PROVE  LargerOf(1, Round(side * max, largest)) \in 1..max
  <1> DEFINE x == 2 * (side * max) + largest
             y == 2 * largest
             q == x \div y
  <1>1. side * max \in Nat /\ largest * max \in Nat /\ side * max <= largest * max
    OBVIOUS
  <1>2. x \in Int /\ y \in Nat \ {0} /\ x <= 2 * (largest * max) + largest
    BY <1>1
  <1> HIDE DEF x, y
  <1>3. q \in Int
    BY <1>2
  <1>4. y * q <= x
    BY <1>2
  <1> HIDE DEF q
  <1>5. (2 * largest) * q <= 2 * (largest * max) + largest
    BY <1>1, <1>2, <1>3, <1>4 DEF y
  <1>6. q <= max
    BY <1>3, <1>5
  <1>7. Round(side * max, largest) = q
    BY DEF Round, q, x, y
  <1> QED
    BY <1>3, <1>6, <1>7 DEF LargerOf

\* Neither side of what is drawn is longer than the maximum, or empty (fit_inside).
LEMMA FitsInside ==
  ASSUME NEW width \in Nat \ {0}, NEW height \in Nat \ {0}
  PROVE  /\ FitInside(width, height)[1] \in 1..MaxDimension
         /\ FitInside(width, height)[2] \in 1..MaxDimension
  <1> DEFINE largest == LargerOf(width, height)
  <1>1. /\ largest \in Nat \ {0} /\ width <= largest /\ height <= largest
        /\ MaxDimension \in Nat \ {0}
    BY ShapeAssumption DEF LargerOf
  <1>2. CASE largest <= MaxDimension
    <2>1. FitInside(width, height) = <<width, height>>
      BY <1>2 DEF FitInside
    <2> HIDE DEF largest
    <2> QED
      BY <1>1, <1>2, <2>1
  <1>3. CASE ~(largest <= MaxDimension)
    <2>1. FitInside(width, height) = <<LargerOf(1, Round(width * MaxDimension, largest)),
                                       LargerOf(1, Round(height * MaxDimension, largest))>>
      BY <1>3 DEF FitInside
    <2> HIDE DEF largest
    <2>2. /\ LargerOf(1, Round(width * MaxDimension, largest)) \in 1..MaxDimension
          /\ LargerOf(1, Round(height * MaxDimension, largest)) \in 1..MaxDimension
      BY <1>1, ScaledFits
    <2> QED
      BY <2>1, <2>2
  <1> QED
    BY <1>2, <1>3

\* Every pixel of the turned picture is one of the picture's, and all are met
\* (copy_rotated_rgba).
LEMMA TurnsAreWhole ==
  ASSUME NEW width \in Nat \ {0}, NEW height \in Nat \ {0}, NEW rotation
  PROVE  {Destination(p[1], p[2], width, height, rotation) : p \in Grid(width, height)}
           = IF rotation \in {90, 270} THEN Grid(height, width) ELSE Grid(width, height)
  <1> DEFINE To(x, y) == Destination(x, y, width, height, rotation)
             G == Grid(width, height)
             R == IF rotation \in {90, 270} THEN Grid(height, width) ELSE Grid(width, height)
  <1>1. ASSUME NEW x \in 0..(width - 1), NEW y \in 0..(height - 1)
        PROVE  To(x, y) \in R
    <2>1. height - 1 - y \in 0..(height - 1) /\ width - 1 - x \in 0..(width - 1)
      OBVIOUS
    <2>2. CASE rotation = 90
      BY <2>1, <2>2 DEF Destination, Grid
    <2>3. CASE rotation = 180
      BY <2>1, <2>3 DEF Destination, Grid
    <2>4. CASE rotation = 270
      BY <2>1, <2>4 DEF Destination, Grid
    <2>5. CASE rotation \notin {90, 180, 270}
      BY <2>5 DEF Destination, Grid
    <2> QED
      BY <2>2, <2>3, <2>4, <2>5
  <1>2. ASSUME NEW u, NEW v, <<u, v>> \in R
        PROVE  \E x \in 0..(width - 1), y \in 0..(height - 1) : To(x, y) = <<u, v>>
    <2>1. CASE rotation = 90
      <3>1. v \in 0..(width - 1) /\ u \in 0..(height - 1)
        BY <1>2, <2>1 DEF Grid
      <3>2. height - 1 - u \in 0..(height - 1) /\ height - 1 - (height - 1 - u) = u
        BY <3>1
      <3>3. To(v, height - 1 - u) = <<u, v>>
        BY <2>1, <3>2 DEF Destination
      <3> QED
        BY <3>1, <3>2, <3>3
    <2>2. CASE rotation = 180
      <3>1. u \in 0..(width - 1) /\ v \in 0..(height - 1)
        BY <1>2, <2>2 DEF Grid
      <3>2. /\ width - 1 - u \in 0..(width - 1) /\ width - 1 - (width - 1 - u) = u
            /\ height - 1 - v \in 0..(height - 1) /\ height - 1 - (height - 1 - v) = v
        BY <3>1
      <3>3. To(width - 1 - u, height - 1 - v) = <<u, v>>
        BY <2>2, <3>2 DEF Destination
      <3> QED
        BY <3>2, <3>3
    <2>3. CASE rotation = 270
      <3>1. v \in 0..(width - 1) /\ u \in 0..(height - 1)
        BY <1>2, <2>3 DEF Grid
      <3>2. width - 1 - v \in 0..(width - 1) /\ width - 1 - (width - 1 - v) = v
        BY <3>1
      <3>3. To(width - 1 - v, u) = <<u, v>>
        BY <2>3, <3>2 DEF Destination
      <3> QED
        BY <3>1, <3>2, <3>3
    <2>4. CASE rotation \notin {90, 180, 270}
      <3>1. u \in 0..(width - 1) /\ v \in 0..(height - 1)
        BY <1>2, <2>4 DEF Grid
      <3>2. To(u, v) = <<u, v>>
        BY <2>4 DEF Destination
      <3> QED
        BY <3>1, <3>2
    <2> QED
      BY <2>1, <2>2, <2>3, <2>4
  <1> HIDE DEF To
  <1>3. \A p \in G : To(p[1], p[2]) \in R
    BY <1>1 DEF Grid
  <1>4. ASSUME NEW r \in R
        PROVE  \E p \in G : r = To(p[1], p[2])
    <2>1. PICK u, v : r = <<u, v>>
      BY DEF Grid
    <2>2. PICK x \in 0..(width - 1), y \in 0..(height - 1) : To(x, y) = <<u, v>>
      BY <1>2, <1>4, <2>1
    <2>3. <<x, y>> \in G /\ <<x, y>>[1] = x /\ <<x, y>>[2] = y
      BY <2>2 DEF Grid
    <2> QED
      BY <2>1, <2>2, <2>3
  <1> HIDE DEF G, R
  <1>5. {To(p[1], p[2]) : p \in G} = R
    BY <1>3, <1>4
  <1> QED
    BY <1>5 DEF To, G, R

\* The bitmap of a decoded frame has every pixel and none outside it (frame_to_bitmap).
LEMMA BitmapOfIsWhole ==
  ASSUME NEW shape \in Shapes, NEW angle
  PROVE  LET b == BitmapOf(shape, angle)
         IN /\ b.width \in 1..MaxDimension /\ b.height \in 1..MaxDimension
            /\ {w[1] : w \in b.written} = Grid(b.width, b.height)
            /\ b \in [width : Nat, height : Nat, written : SUBSET ((Nat \X Nat) \X (Nat \X Nat))]
  <1> DEFINE b == BitmapOf(shape, angle)
             width == FitInside(shape[1], shape[2])[1]
             height == FitInside(shape[1], shape[2])[2]
             rotation == Rotation(angle)
             turned == rotation \in {90, 270}
             To(p) == Destination(p[1], p[2], width, height, rotation)
  <1>1. shape[1] \in Nat \ {0} /\ shape[2] \in Nat \ {0} /\ MaxDimension \in Nat \ {0}
    BY ShapeAssumption
  <1>2. width \in 1..MaxDimension /\ height \in 1..MaxDimension
    BY <1>1, FitsInside
  <1>3. b = [width |-> IF turned THEN height ELSE width,
             height |-> IF turned THEN width ELSE height,
             written |-> {<<To(p), p>> : p \in Grid(width, height)}]
    BY DEF BitmapOf
  <1> HIDE DEF width, height, rotation
  <1>4. width \in Nat \ {0} /\ height \in Nat \ {0}
    BY <1>1, <1>2
  <1>5. {To(p) : p \in Grid(width, height)}
          = IF turned THEN Grid(height, width) ELSE Grid(width, height)
    BY <1>4, TurnsAreWhole, ZenonT(60)
  <1> HIDE DEF To, turned, b
  <1>6. {w[1] : w \in {<<To(p), p>> : p \in Grid(width, height)}}
          = {To(p) : p \in Grid(width, height)}
    <2> DEFINE W == {<<To(p), p>> : p \in Grid(width, height)}
    <2>1. \A p \in Grid(width, height) : <<To(p), p>> \in W /\ <<To(p), p>>[1] = To(p)
      OBVIOUS
    <2>2. \A w \in W : \E p \in Grid(width, height) : w[1] = To(p)
      OBVIOUS
    <2> HIDE DEF W
    <2>3. {w[1] : w \in W} = {To(p) : p \in Grid(width, height)}
      BY <2>1, <2>2
    <2> QED
      BY <2>3 DEF W
  <1>7. /\ b.width = IF turned THEN height ELSE width
        /\ b.height = IF turned THEN width ELSE height
        /\ b.written = {<<To(p), p>> : p \in Grid(width, height)}
    BY <1>3
  <1>8. b.width \in 1..MaxDimension /\ b.height \in 1..MaxDimension
    BY <1>2, <1>7
  <1>9. {w[1] : w \in b.written} = Grid(b.width, b.height)
    BY <1>5, <1>6, <1>7
  <1>10. Grid(width, height) \subseteq Nat \X Nat /\ Grid(height, width) \subseteq Nat \X Nat
    BY <1>4 DEF Grid
  <1>11. \A p \in Grid(width, height) : To(p) \in Nat \X Nat
    BY <1>5, <1>10
  <1>12. b.written \in SUBSET ((Nat \X Nat) \X (Nat \X Nat))
    BY <1>7, <1>10, <1>11
  <1>13. b = [width |-> b.width, height |-> b.height, written |-> b.written]
    BY <1>3, <1>7
  <1>14. b \in [width : Nat, height : Nat, written : SUBSET ((Nat \X Nat) \X (Nat \X Nat))]
    BY <1>1, <1>8, <1>12, <1>13
  <1> QED
    BY <1>8, <1>9, <1>14 DEF b

\* The result of the extraction.
BitmapInv ==
  \/ bitmap \in {None, PlatformFrame}
  \/ \E shape \in Shapes, angle \in Angles : bitmap = BitmapOf(shape, angle)

\* Only the end of the extraction has a result (ReturnsFreeing, PlatformReturns).
LEMMA BitmapInvKeeps ==
  ASSUME BitmapInv, [Next]_vars
  PROVE  BitmapInv'
  <1>1. CASE bitmap' = bitmap
    BY <1>1 DEF BitmapInv
  <1>2. CASE bitmap' \in {None, PlatformFrame}
    BY <1>2 DEF BitmapInv
  <1>3. CASE DecodingOver
    BY <1>2, <1>3 DEF DecodingOver, DecodeFails, ReturnsFreeing, BitmapInv
  <1>4. CASE FfmpegReturns \/ NativeStep
    <2>1. CASE OpenReturns \/ ProbeReturns \/ SeekReturns \/ DemuxReturns
      BY <1>1, <1>2, <2>1 DEF OpenReturns, ProbeReturns, SeekReturns, DemuxReturns, ReturnsFreeing
    <2>2. CASE AllocateInput \/ OpenDecoder \/ BeginDecoding \/ LoopTop \/ Flush
      BY <1>1, <1>2, <2>2 DEF AllocateInput, OpenDecoder, BeginDecoding, LoopTop, Flush,
                              ReturnsFreeing
    <2>3. CASE ReceiveStep \/ DrainStep
      BY <1>1, <1>2, <2>3 DEF ReceiveStep, ReceiveFrame, ReceiveEnds, DrainStep, DrainFrame,
                              DrainEnds, TakeFrame, DecodeFails, ReturnsFreeing
    <2> QED
      BY <1>3, <1>4, <2>1, <2>2, <2>3 DEF FfmpegReturns, NativeStep
  <1>5. CASE ~(FfmpegReturns \/ NativeStep)
    BY <1>1, <1>2, <1>5 DEF Next, PlatformReads, PlatformReadReturns, PlatformReturns, ReadPacket,
       ReadPacketReturns, Seek, DeadlinePasses, Reading, Stalling, vars
  <1> QED
    BY <1>4, <1>5

\* The result is none, the platform's or that of a decoded frame in every state.
LEMMA BitmapsAreInvariant == Spec => []BitmapInv
  <1>1. Init => BitmapInv
    BY DEF Init, BitmapInv
  <1>2. BitmapInv /\ [Next]_vars => BitmapInv'
    BY BitmapInvKeeps
  <1> QED
    BY <1>1, <1>2, PTL DEF Spec

\* Every pixel of the bitmap is written, none outside it, and no side is longer
\* than the maximum, for every shape of a frame, every angle and every maximum
\* (fit_inside, copy_rotated_rgba, frame_to_bitmap).
THEOREM BitmapsAreWhole == Spec => []BitmapIsWhole
  <1>1. BitmapInv => BitmapIsWhole
    BY BitmapOfIsWhole DEF BitmapInv, BitmapIsWhole
  <1> QED
    BY <1>1, BitmapsAreInvariant, PTL

----------------------------------------------------------------------------
(* Type correctness *)

Places == {"platform", "alloc", "open", "probe", "codec", "seek", "begin", "top", "demux",
           "receive", "flush", "drain", "over", "done"}

PlaceInv == pc \in Places /\ late \in BOOLEAN

\* Every step leads to a place of the extraction (extractVideoThumbnail,
\* nativeExtractFrame, decode_thumbnail_frame).
LEMMA PlaceInvKeeps ==
  ASSUME PlaceInv, [Next]_vars
  PROVE  PlaceInv'
  <1> USE DEF PlaceInv, Places
  <1>1. CASE PlatformReads \/ PlatformReadReturns \/ PlatformReturns \/ Seek \/ ReadPacket
             \/ ReadPacketReturns \/ DeadlinePasses
    BY <1>1 DEF PlatformReads, PlatformReadReturns, PlatformReturns, Seek, ReadPacket,
                ReadPacketReturns, DeadlinePasses, nativeVars
  <1>2. CASE FfmpegReturns
    BY <1>2 DEF FfmpegReturns, OpenReturns, ProbeReturns, SeekReturns, DemuxReturns,
                ReturnsFreeing, nativeVars
  <1>3. CASE AllocateInput \/ OpenDecoder \/ BeginDecoding \/ LoopTop \/ Flush
    BY <1>3 DEF AllocateInput, OpenDecoder, BeginDecoding, LoopTop, Flush, ReturnsFreeing,
                nativeVars
  <1>4. CASE ReceiveStep \/ DrainStep \/ DecodingOver
    BY <1>4 DEF ReceiveStep, ReceiveFrame, ReceiveEnds, DrainStep, DrainFrame, DrainEnds,
                TakeFrame, DecodeFails, DecodingOver, ReturnsFreeing, nativeVars
  <1>5. CASE Reading \/ Stalling \/ UNCHANGED vars
    BY <1>5 DEF Reading, Stalling, vars, nativeVars
  <1> QED
    BY <1>1, <1>2, <1>3, <1>4, <1>5 DEF Next, NativeStep

\* The budget is whole at first, and nothing is cached or asked for (Init).
LEMMA BudgetInvStarts ==
  ASSUME Assumptions, Init
  PROVE  BudgetInv
  <1>1. PICK kind \in {"remote", "document"}, size \in Sizes :
          source = NewSource(kind, size) /\ io = NewIo(size)
    BY DEF Init
  <1>2. /\ source.size = size /\ source.ranges = <<>> /\ Len(<<>>) = 0
        /\ io.size = size /\ io.total = 0
    BY <1>1 DEF NewSource, NewIo
  <1>3. call.pc = "idle"
    BY DEF Init, Idle
  <1> QED
    BY <1>2, <1>3 DEF BudgetInv, Assumptions

\* What the invariants of the parts say about the values of the variables: the
\* ranges are few, the reads stay in the byte budget, the decoder in its limits.
LEMMA PartsAreTyped ==
  ASSUME Assumptions, ReadInv, BudgetInv, HeldInv, FrameInv, BitmapInv, PlaceInv
  PROVE  TypeOK
  <1>1. ReadTypeOK
    <2>1. /\ source = [kind |-> source.kind, size |-> source.size, open |-> source.open,
                       ranges |-> source.ranges, failed |-> source.failed]
          /\ source.kind \in {"remote", "document"} /\ source.open \in BOOLEAN
          /\ source.failed \in BOOLEAN /\ source.ranges \in Seq(TrueRange)
      BY DEF ReadInv, TrueSource
    <2>2. source.ranges \in Seq(CachedRange)
      BY <2>1 DEF TrueRange
    <2>3. source \in [kind : {"remote", "document"}, size : Sizes, open : BOOLEAN,
                      ranges : Seq(CachedRange), failed : BOOLEAN]
      BY <2>1, <2>2 DEF BudgetInv
    <2> QED
      BY <2>3 DEF ReadInv, TrueCall, TrueStream, BudgetInv, ReadTypeOK
  <1>2. io \in [position : Nat, size : Sizes, total : 0..MaxBytes, failed : BOOLEAN]
    <2>1. /\ io = [position |-> io.position, size |-> io.size, total |-> io.total,
                   failed |-> io.failed]
          /\ io.position \in Nat /\ io.total \in Nat /\ io.failed \in BOOLEAN
      BY DEF ReadInv, TrueIo
    <2>2. io.size \in Sizes /\ io.total \in 0..MaxBytes
      BY <2>1 DEF BudgetInv, Assumptions
    <2> QED
      BY <2>1, <2>2
  <1>3. held \subseteq Handles
    BY DEF HeldInv, MayHold, PlaceInv, Places, Handles, InputHandles, DecoderHandles
  <1>4. bitmap \in {None, PlatformFrame} \cup
          [width : Nat, height : Nat, written : SUBSET ((Nat \X Nat) \X (Nat \X Nat))]
    BY BitmapOfIsWhole DEF BitmapInv
  <1>5. decode \in [target : Nat \cup {NoPts}, packets : 0..MaxPackets, frames : 0..MaxFrames,
                    backlog : 0..MaxPackets, candidate : Frame \cup {None}, selected : BOOLEAN]
    BY DEF FrameInv, DecodeInv, Decode
  <1>6. offered \in Seq(Frame)
    BY DEF FrameInv, DecodeInv
  <1> QED
    BY <1>1, <1>2, <1>3, <1>4, <1>5, <1>6 DEF PlaceInv, Places, TypeOK

\* Every variable keeps its type, for every budget, limit and set of sizes, frames
\* and angles: no more ranges are cached than allowed, java_read_packet takes no
\* more than the byte budget, and decode_thumbnail_frame reads no more packets and
\* counts no more frames than its limits.
THEOREM Typing == Spec => []TypeOK
  <1>1. Init => BudgetInv /\ PlaceInv
    BY AssumptionsHold, BudgetInvStarts DEF Init, PlaceInv, Places
  <1>2. ReadInv /\ BudgetInv /\ [Next]_vars => BudgetInv'
    BY AssumptionsHold, BudgetInvKeeps
  <1>3. PlaceInv /\ [Next]_vars => PlaceInv'
    BY PlaceInvKeeps
  <1>4. ReadInv /\ BudgetInv /\ HeldInv /\ FrameInv /\ BitmapInv /\ PlaceInv => TypeOK
    BY AssumptionsHold, PartsAreTyped
  <1> QED
    BY <1>1, <1>2, <1>3, <1>4, ReadsAreInvariant, HandlesAreInvariant, FramesAreInvariant,
       BitmapsAreInvariant, PTL DEF Spec
=============================================================================
