---------------------------- MODULE RangeSource ----------------------------
(***************************************************************************)
(* How a video file is read: RcloneRangeMediaDataSource (a remote file as  *)
(* a few cached byte ranges, each fetched by an rclone process under an    *)
(* idle watchdog) and SeekableContentMediaDataSource (a document).  Both   *)
(* answer one readAt at a time; VideoFrame adds the readers.               *)
(* A byte stands for its position in the file.                             *)
(***************************************************************************)
EXTENDS Integers, Sequences, SequencesExt

CONSTANTS Length,      \* the real length of the file
          Sizes,       \* the sizes the listing may claim, -1 when unknown
          ReadAhead,   \* REMOTE_MEDIA_READ_AHEAD_BYTES
          MaxFetch,    \* REMOTE_MEDIA_MAX_FETCH_BYTES
          RangeCount   \* REMOTE_MEDIA_CACHED_RANGE_COUNT

ASSUME LengthAssumption == Length \in Nat \ {0}
ASSUME SizesAssumption == Sizes \subseteq Int /\ \A s \in Sizes : s = -1 \/ s > 0
ASSUME FetchAssumption == ReadAhead \in Nat \ {0} /\ MaxFetch \in Nat \ {0}
ASSUME RangeAssumption == RangeCount \in Nat \ {0}

VARIABLES
  source,  \* the data source: kind, claimed size, cached ranges, recorded failure
  call,    \* the readAt in progress
  stream   \* the rclone process of a fetch, and its watchdog

readVars == <<source, call, stream>>

-----------------------------------------------------------------------------
CachedRange == [start : Nat, data : Seq(Nat)]
RangeEnd(r) == r.start + Len(r.data)
Bytes(from, count) == [i \in 1..count |-> from + i - 1]

SmallerOf(a, b) == IF a < b THEN a ELSE b
LargerOf(a, b) == IF a > b THEN a ELSE b

NewSource(kind, size) ==
  [kind |-> kind, size |-> size, open |-> TRUE, ranges |-> <<>>, failed |-> FALSE]

\* cut: the reader met the end of a stream that the watchdog had killed.
Idle == [pc |-> "idle", at |-> 0, want |-> 0, got |-> <<>>, cut |-> FALSE]
NoStream == [pc |-> "none", at |-> 0, count |-> 0, got |-> 0,
             closed |-> FALSE, flagged |-> FALSE, killed |-> FALSE]

ReadTypeOK ==
  /\ source \in [kind : {"remote", "document"}, size : Sizes, open : BOOLEAN,
                 ranges : Seq(CachedRange), failed : BOOLEAN]
  /\ Len(source.ranges) <= RangeCount
  /\ call \in [pc : {"idle", "loop", "fetch", "done", "thrown"},
               at : Nat, want : Nat, got : Seq(Nat), cut : BOOLEAN]
  /\ stream \in [pc : {"none", "open"}, at : Nat, count : Nat, got : Nat,
                 closed : BOOLEAN, flagged : BOOLEAN, killed : BOOLEAN]

\* Mutant: every round starts where the call did.
PositionOfCall == call.at
Position == call.at + Len(call.got)
PastEnd(position) == source.size >= 0 /\ position >= source.size

\* findCachedRange: the first range that holds the position.
Holds(i, position) ==
  source.ranges[i].start <= position /\ position < RangeEnd(source.ranges[i])
Cached(position) == {i \in DOMAIN source.ranges : Holds(i, position)}
FirstCached(position) ==
  CHOOSE i \in Cached(position) : \A j \in Cached(position) : i <= j

-----------------------------------------------------------------------------
\* readAt of either source, with the arguments it accepts.  A document is read
\* by one positional read; a remote file in rounds.
BeginReadAt(at, want) ==
  /\ call.pc = "idle"
  /\ source.open
  /\ \/ /\ PastEnd(at)
        /\ call' = [Idle EXCEPT !.pc = "done", !.at = at, !.want = want]
     \/ /\ ~PastEnd(at)
        /\ source.kind = "remote"
        /\ call' = [Idle EXCEPT !.pc = "loop", !.at = at, !.want = want]
     \/ /\ ~PastEnd(at)
        /\ source.kind = "document"
        /\ LET asked == IF source.size >= 0 THEN SmallerOf(want, source.size - at) ELSE want
               there == SmallerOf(asked, LargerOf(0, Length - at))
           IN \/ \E read \in (IF there = 0 THEN {0} ELSE 1..there) :
                   call' = [Idle EXCEPT !.pc = "done", !.at = at, !.want = want,
                                        !.got = Bytes(at, read)]
              \/ call' = [Idle EXCEPT !.pc = "thrown", !.at = at, !.want = want]
  /\ UNCHANGED <<source, stream>>

\* One round of readAt that finds the position in a cached range: the range
\* becomes the most recent one and what it holds is copied.
CopyFromRange ==
  /\ call.pc = "loop"
  /\ Len(call.got) < call.want
  /\ ~PastEnd(Position)
  /\ Cached(Position) # {}
  /\ LET index == FirstCached(Position)
         range == source.ranges[index]
         offset == Position - range.start
         length == SmallerOf(call.want - Len(call.got), Len(range.data) - offset)
     IN /\ source' = [source EXCEPT !.ranges = Append(RemoveAt(@, index), range)]
        /\ call' = [call EXCEPT !.got = @ \o SubSeq(range.data, offset + 1, offset + length)]
  /\ UNCHANGED stream

\* fetchRange: how much one rclone cat is asked for.
FetchBytes(position, minimum) ==
  LET wanted == LargerOf(ReadAhead, SmallerOf(minimum, MaxFetch))
  IN IF source.size >= 0 THEN SmallerOf(wanted, source.size - position) ELSE wanted

\* A round that misses: rclone cat is started with its idle watchdog, or
\* cannot be started.
StartFetch ==
  /\ call.pc = "loop"
  /\ Len(call.got) < call.want
  /\ ~PastEnd(Position)
  /\ Cached(Position) = {}
  /\ \/ /\ stream' = [NoStream EXCEPT !.pc = "open", !.at = Position,
                        !.count = FetchBytes(Position, call.want - Len(call.got))]
        /\ call' = [call EXCEPT !.pc = "fetch"]
        /\ UNCHANGED source
     \/ /\ call' = [call EXCEPT !.pc = "thrown"]
        /\ source' = [source EXCEPT !.failed = TRUE]
        /\ UNCHANGED stream

\* What the process still has to deliver.
Undelivered == SmallerOf(stream.count, LargerOf(0, Length - stream.at)) - stream.got

FetchFails(cut) ==
  /\ call' = [call EXCEPT !.pc = "thrown", !.cut = cut]
  /\ source' = [source EXCEPT !.failed = TRUE]
  /\ stream' = NoStream

\* A read of the stream delivers bytes; a timeout that has been flagged by then
\* makes it throw all the same.
ReceiveBytes ==
  /\ call.pc = "fetch"
  /\ stream.got < stream.count
  /\ ~stream.killed
  /\ \E k \in 1..Undelivered :
       IF stream.flagged THEN FetchFails(FALSE)
       ELSE stream' = [stream EXCEPT !.got = @ + k] /\ UNCHANGED <<call, source>>

Keep(range) ==
  LET grown == Append(source.ranges, range)
  IN IF Len(grown) > RangeCount THEN Tail(grown) ELSE grown

\* Mutant: an early end is an answer, whatever the size is.
FinishFetchLeniently(cut) ==
  \/ /\ stream.got = 0
     /\ call' = [call EXCEPT !.pc = "done", !.cut = cut]
     /\ stream' = NoStream
     /\ UNCHANGED source
  \/ /\ stream.got > 0
     /\ source' = [source EXCEPT !.ranges =
                     Keep([start |-> stream.at, data |-> Bytes(stream.at, stream.got)])]
     /\ call' = [call EXCEPT !.pc = "loop", !.cut = cut]
     /\ stream' = NoStream

\* The stream is read to the count asked for or to its end, and closed.  A
\* source of known size takes an early end for a failure; one of unknown size
\* keeps what came, and nothing means the end of the file.
FinishFetch(cut) ==
  \/ /\ source.size >= 0 /\ stream.got < stream.count
     /\ FetchFails(cut)
  \/ /\ source.size < 0 /\ stream.got = 0
     /\ call' = [call EXCEPT !.pc = "done", !.cut = cut]
     /\ stream' = NoStream
     /\ UNCHANGED source
  \/ /\ stream.got > 0 /\ (source.size < 0 \/ stream.got = stream.count)
     /\ source' = [source EXCEPT !.ranges =
                     Keep([start |-> stream.at, data |-> Bytes(stream.at, stream.got)])]
     /\ call' = [call EXCEPT !.pc = "loop", !.cut = cut]
     /\ stream' = NoStream

FetchIsFull ==
  /\ call.pc = "fetch"
  /\ stream.got = stream.count
  /\ FinishFetch(FALSE)

\* The process ends: it has delivered everything, it died early, which nobody
\* asks it about, or the watchdog killed it.  A flagged timeout throws.
StreamEnds ==
  /\ call.pc = "fetch"
  /\ stream.got < stream.count
  /\ IF stream.flagged THEN FetchFails(stream.killed) ELSE FinishFetch(stream.killed)

\* The read itself fails.
StreamFails ==
  /\ call.pc = "fetch"
  /\ stream.got < stream.count
  /\ FetchFails(FALSE)

\* ManagedProcessInputStream: nothing came for the idle timeout.  The watchdog
\* closes the stream, flags the timeout and only then destroys the process.
WatchdogCloses ==
  /\ stream.pc = "open" /\ ~stream.closed
  /\ stream' = [stream EXCEPT !.closed = TRUE]
  /\ UNCHANGED <<source, call>>

WatchdogFlags ==
  /\ stream.closed /\ ~stream.flagged
  /\ stream' = [stream EXCEPT !.flagged = TRUE]
  /\ UNCHANGED <<source, call>>

\* Mutant: the process is destroyed before the timeout is flagged.
WatchdogKillsFirst ==
  /\ stream.closed /\ ~stream.killed
  /\ stream' = [stream EXCEPT !.killed = TRUE]
  /\ UNCHANGED <<source, call>>

WatchdogKills ==
  /\ stream.flagged /\ ~stream.killed
  /\ stream' = [stream EXCEPT !.killed = TRUE]
  /\ UNCHANGED <<source, call>>

Watchdog == WatchdogCloses \/ WatchdogFlags \/ WatchdogKills

\* The loop of readAt ends.
EndReadAt ==
  /\ call.pc = "loop"
  /\ Len(call.got) = call.want \/ PastEnd(Position)
  /\ call' = [call EXCEPT !.pc = "done"]
  /\ UNCHANGED <<source, stream>>

SourceStep ==
  \/ CopyFromRange \/ StartFetch \/ ReceiveBytes \/ FetchIsFull
  \/ StreamEnds \/ StreamFails \/ EndReadAt

\* close(): further calls throw, the ranges are dropped.
Closed == [source EXCEPT !.open = FALSE, !.ranges = <<>>]

-----------------------------------------------------------------------------
(* Properties of every readAt *)

\* readAt, findCachedRange, fetchRange: whatever ranges were fetched, kept,
\* moved to the end and dropped before, the bytes of an answer are the bytes of
\* the file from the position asked for, in order.
BytesAreTheFiles ==
  /\ \A i \in DOMAIN call.got : call.got[i] = call.at + i - 1
  /\ Len(call.got) <= call.want
  /\ call.at + Len(call.got) <= LargerOf(call.at, Length)

\* readAt: with a known size a remote answer is short only at the end of the
\* file; a shorter range is a failure and no answer.
KnownSizeIsComplete ==
  (call.pc = "done" /\ source.kind = "remote" /\ source.size >= 0)
    => Len(call.got) = LargerOf(0, SmallerOf(call.want, source.size - call.at))

\* ManagedProcessInputStream.closeInternal: a reader that meets the end of a
\* stream because the watchdog destroyed the process throws.  A source of
\* unknown size would otherwise take the stall for the end of the file and keep
\* the truncated range.
StallIsNotTheEnd == call.cut => call.pc = "thrown"
=============================================================================
