----------------------------- MODULE VideoFrame -----------------------------
(***************************************************************************)
(* One frame of a video: ThumbnailRepository.extractVideoThumbnail tries   *)
(* the platform's retriever and then the bundled FFmpeg, whose side of JNI *)
(* is ffmpeg_thumbnail_jni.c.  FFmpeg calls java_read_packet and java_seek *)
(* as it likes while one of its functions runs; what it and the retriever  *)
(* answer is their choice.                                                 *)
(***************************************************************************)
EXTENDS RangeSource, FiniteSets

CONSTANTS BufferSize,    \* AVIO_BUFFER_SIZE
          MaxBytes,      \* MAX_NATIVE_IO_BYTES
          MaxPackets,    \* MAX_VIDEO_PACKETS
          MaxFrames,     \* MAX_DECODED_FRAMES
          MaxDimension,  \* MAX_THUMBNAIL_DIMENSION
          Stamps,        \* timestamps of frames
          Durations,     \* durations a stream or a container may state
          NoPts,         \* AV_NOPTS_VALUE
          Shapes,        \* widths and heights of decoded frames
          Angles,        \* clockwise angles of display matrices
          PlatformFrame, \* whatever the retriever returned
          None

ASSUME BudgetAssumption == BufferSize \in Nat \ {0} /\ MaxBytes \in Nat \ {0}
ASSUME LimitAssumption == MaxPackets \in Nat \ {0} /\ MaxFrames \in Nat \ {0}
ASSUME ShapeAssumption ==
  /\ MaxDimension \in Nat \ {0}
  /\ Shapes \subseteq (Nat \ {0}) \X (Nat \ {0})
  /\ Angles \subseteq Int
ASSUME StampAssumption ==
  Stamps \subseteq Nat /\ Durations \subseteq Nat \ {0} /\ NoPts \notin Nat /\ None \notin [ts : Stamps \cup {NoPts}, usable : BOOLEAN]

VARIABLES
  pc,       \* where the extraction is
  io,       \* JavaAvioContext
  late,     \* whether EXTRACTION_DEADLINE_US has passed
  held,     \* what nativeExtractFrame has allocated
  decode,   \* the locals of decode_thumbnail_frame
  offered,  \* the usable frames decoded so far
  bitmap    \* the result

nativeVars == <<io, late, held, decode, offered>>
vars == <<readVars, pc, nativeVars, bitmap>>

-----------------------------------------------------------------------------
Frame == [ts : Stamps \cup {NoPts}, usable : BOOLEAN]
Handles == {"buffer", "avio", "format", "decoder", "candidate", "packet", "decoded", "scratch"}

NewIo(size) == [position |-> 0, size |-> size, total |-> 0, failed |-> FALSE]
NewDecode == [target |-> NoPts, packets |-> 0, frames |-> 0, backlog |-> 0,
              candidate |-> None, selected |-> FALSE]

TypeOK ==
  /\ ReadTypeOK
  /\ pc \in {"platform", "alloc", "open", "probe", "codec", "seek", "begin", "top", "demux",
             "receive", "flush", "drain", "over", "done"}
  /\ io \in [position : Nat, size : Sizes, total : 0..MaxBytes, failed : BOOLEAN]
  /\ late \in BOOLEAN /\ held \subseteq Handles
  /\ decode \in [target : Nat \cup {NoPts}, packets : 0..MaxPackets, frames : 0..MaxFrames,
                 backlog : 0..MaxPackets, candidate : Frame \cup {None}, selected : BOOLEAN]
  /\ offered \in Seq(Frame)
  /\ bitmap \in {None, PlatformFrame} \cup
       [width : Nat, height : Nat, written : SUBSET ((Nat \X Nat) \X (Nat \X Nat))]

-----------------------------------------------------------------------------
(* Arithmetic *)

\* llround(n / d) for natural numbers.
Round(n, d) == (2 * n + d) \div (2 * d)

\* fit_inside: the longer side becomes at most MaxDimension.
FitInside(width, height) ==
  LET largest == LargerOf(width, height)
      Scaled(side) == LargerOf(1, Round(side * MaxDimension, largest))
  IN IF largest <= MaxDimension THEN <<width, height>>
     ELSE <<Scaled(width), Scaled(height)>>

\* normalized_clockwise_rotation: the quarter turn within five degrees, or none.
Rotation(angle) ==
  LET clockwise == angle % 360
      nearest == (((clockwise + 45) \div 90) * 90) % 360
      apart == LargerOf(clockwise - nearest, nearest - clockwise)
      difference == IF apart > 180 THEN 360 - apart ELSE apart
  IN IF difference <= 5 THEN nearest ELSE 0

\* Mutant: a quarter turn is off by one row.
DestinationOffByOne(x, y, width, height, rotation) ==
  CASE rotation = 90  -> <<height - y, x>>
    [] rotation = 180 -> <<width - 1 - x, height - 1 - y>>
    [] rotation = 270 -> <<y, width - 1 - x>>
    [] OTHER          -> <<x, y>>

\* copy_rotated_rgba: where the pixel (x, y) of the source goes.
Destination(x, y, width, height, rotation) ==
  CASE rotation = 90  -> <<height - 1 - y, x>>
    [] rotation = 180 -> <<width - 1 - x, height - 1 - y>>
    [] rotation = 270 -> <<y, width - 1 - x>>
    [] OTHER          -> <<x, y>>

Grid(width, height) == (0..(width - 1)) \X (0..(height - 1))

\* frame_to_bitmap, when nothing fails.
BitmapOf(shape, angle) ==
  LET scaled == FitInside(shape[1], shape[2])
      rotation == Rotation(angle)
      turned == rotation \in {90, 270}
  IN [width   |-> IF turned THEN scaled[2] ELSE scaled[1],
      height  |-> IF turned THEN scaled[1] ELSE scaled[2],
      written |-> {<<Destination(p[1], p[2], scaled[1], scaled[2], rotation), p>> :
                     p \in Grid(scaled[1], scaled[2])}]

\* target_timestamp_for_stream, the fraction in percent: of the stream's
\* duration, else of the container's, else there is no target.  Time stamps
\* count from the stream's start_time in the stream's own units, so that neither
\* the offset nor av_rescale_q is seen; the one fraction the application asks
\* for is a third.
TargetTimestamp(stream_, format, percent) ==
  LET clamped == SmallerOf(98, LargerOf(2, percent))
  IN CASE stream_ # None -> Round(stream_ * clamped, 100)
       [] stream_ = None /\ format # None -> Round(format * clamped, 100)
       [] OTHER -> NoPts

-----------------------------------------------------------------------------
(* The platform's retriever *)

PlatformReads ==
  /\ pc = "platform" /\ source.kind = "remote"
  /\ \E at \in 0..Length, want \in 1..BufferSize : BeginReadAt(at, want)
  /\ UNCHANGED <<pc, nativeVars, bitmap>>

PlatformReadReturns ==
  /\ pc = "platform" /\ call.pc \in {"done", "thrown"}
  /\ call' = Idle
  /\ UNCHANGED <<source, stream, pc, nativeVars, bitmap>>

\* The retriever has an answer and is released with its source.  Without a
\* frame, a confirmed failure of the remote makes FFmpeg pointless; otherwise
\* FFmpeg gets a source of its own, if the library was loaded and the source
\* opens.
PlatformReturns ==
  /\ pc = "platform" /\ call.pc = "idle"
  /\ \/ bitmap' = PlatformFrame /\ pc' = "done" /\ source' = Closed /\ UNCHANGED io
     \/ bitmap' = None /\ pc' = "done" /\ source' = Closed /\ UNCHANGED io
     \/ /\ ~source.failed
        /\ \E size \in IF source.kind = "remote" THEN {source.size} ELSE Sizes :
             source' = NewSource(source.kind, size) /\ io' = NewIo(size)
        /\ pc' = "alloc"
        /\ UNCHANGED bitmap
  /\ UNCHANGED <<call, stream, late, held, decode, offered>>

-----------------------------------------------------------------------------
(* nativeExtractFrame *)

\* Mutant: the clock is left to the reads.
InterruptedByIo == io.failed
Interrupted == io.failed \/ late  \* ffmpeg_interrupt

\* Every return of nativeExtractFrame: the listed handles are freed and the
\* caller closes the source.
ReturnsFreeing(handles, result) ==
  /\ pc' = "done"
  /\ held' = held \ handles
  /\ bitmap' = result
  /\ source' = Closed
  /\ UNCHANGED <<call, stream, io, late, decode, offered>>

\* Mutant: the scratch array is forgotten.
InputHandlesButScratch == {"format", "avio"}

\* avio_context_free and the other frees of the late exits.  The buffer that
\* was given to avio_alloc_context is in none of them.
InputHandles == {"format", "avio", "scratch"}
DecoderHandles == InputHandles \cup {"decoder"}
CandidateHandles == DecoderHandles \cup {"candidate"}

\* The buffer, the AVIOContext and the format context, each of which may fail.
AllocateInput ==
  /\ pc = "alloc"
  /\ \/ ReturnsFreeing({}, None)
     \/ /\ pc' = "done" /\ bitmap' = None /\ source' = Closed
        /\ held' = held \cup {"buffer"}
        /\ UNCHANGED <<call, stream, io, late, decode, offered>>
     \/ /\ pc' = "open"
        /\ held' = held \cup {"buffer", "avio", "format"}
        /\ UNCHANGED <<readVars, bitmap, io, late, decode, offered>>

\* FFmpeg runs and may call back.
InFfmpeg == pc \in {"open", "probe", "seek", "demux"} /\ call.pc = "idle"

IoFails == io' = [io EXCEPT !.failed = TRUE]

\* Mutant: the last read ignores what is left of the budget.
RequestedInFile(size) ==
  IF io.size >= 0 THEN SmallerOf(size, io.size - io.position) ELSE size

\* java_read_packet, up to its call of readAt.  A failed context refuses, the
\* end of a known size is EOF: neither changes anything.
Requested(size) ==
  LET inFile == IF io.size >= 0 THEN SmallerOf(size, io.size - io.position) ELSE size
  IN SmallerOf(inFile, MaxBytes - io.total)

ReadPacket ==
  /\ InFfmpeg /\ ~io.failed
  /\ IF late THEN IoFails /\ UNCHANGED <<readVars, held>>
     ELSE /\ ~(io.size >= 0 /\ io.position >= io.size)
          /\ IF io.total >= MaxBytes THEN IoFails /\ UNCHANGED <<readVars, held>>
             ELSE \/ /\ \E size \in 1..BufferSize : BeginReadAt(io.position, Requested(size))
                     /\ held' = held \cup {"scratch"}
                     /\ UNCHANGED io
                  \/ IoFails /\ held' = held \ {"scratch"} /\ UNCHANGED readVars
  /\ UNCHANGED <<pc, late, decode, offered, bitmap>>

\* The rest of java_read_packet: an exception fails the context for good, -1 is
\* EOF, anything else advances it.
ReadPacketReturns ==
  /\ pc \in {"open", "probe", "seek", "demux"}
  /\ \/ call.pc = "thrown" /\ IoFails
     \/ /\ call.pc = "done"
        /\ io' = [io EXCEPT !.position = @ + Len(call.got), !.total = @ + Len(call.got)]
  /\ call' = Idle
  /\ UNCHANGED <<source, stream, pc, late, held, decode, offered, bitmap>>

\* java_seek: from the start, the position or a known end; a negative target is
\* refused.  The bound on the target is the model's.
Seek ==
  /\ InFfmpeg /\ ~io.failed
  /\ IF late THEN IoFails
     ELSE \E offset \in -1..(Length + 1),
            base \in {0, io.position} \cup (IF io.size >= 0 THEN {io.size} ELSE {}) :
            /\ base + offset \in 0..(Length + 1)
            /\ io' = [io EXCEPT !.position = base + offset]
  /\ UNCHANGED <<readVars, pc, late, held, decode, offered, bitmap>>

\* avformat_open_input; when it fails it has freed the format context.
OpenReturns ==
  /\ InFfmpeg /\ pc = "open"
  /\ \/ pc' = "probe" /\ UNCHANGED <<readVars, nativeVars, bitmap>>
     \/ ReturnsFreeing(InputHandles, None)

\* avformat_find_stream_info, whose failure is tolerated, and the video stream
\* with a decoder for it.
ProbeReturns ==
  /\ InFfmpeg /\ pc = "probe"
  /\ \/ /\ pc' = "codec"
        /\ held' = held \cup {"decoder"}
        /\ UNCHANGED <<readVars, io, late, decode, offered, bitmap>>
     \/ ReturnsFreeing(InputHandles, None)

\* avcodec_open2, then the target; without one there is no seek.
OpenDecoder ==
  /\ pc = "codec"
  /\ \/ ReturnsFreeing(DecoderHandles, None)
     \/ /\ \E inStream, inFormat \in Durations \cup {None} :
             LET target == TargetTimestamp(inStream, inFormat, 33)
             IN /\ decode' = [decode EXCEPT !.target = target]
                /\ pc' = IF target = NoPts THEN "begin" ELSE "seek"
        /\ UNCHANGED <<readVars, io, late, held, offered, bitmap>>

\* avformat_seek_file, av_seek_frame; when both fail decoding starts at the
\* beginning, without a target.
SeekReturns ==
  /\ InFfmpeg /\ pc = "seek"
  /\ \E target \in {decode.target, NoPts} : decode' = [decode EXCEPT !.target = target]
  /\ pc' = "begin"
  /\ UNCHANGED <<readVars, io, late, held, offered, bitmap>>

-----------------------------------------------------------------------------
(* decode_thumbnail_frame *)

\* The candidate frame of the caller, then the packet and the frame of the
\* decoding loop, each of which may be refused.
BeginDecoding ==
  /\ pc = "begin"
  /\ \/ ReturnsFreeing(CandidateHandles, None)
     \/ /\ pc' = "top"
        /\ held' = held \cup {"candidate", "packet", "decoded"}
        /\ UNCHANGED <<readVars, io, late, decode, offered, bitmap>>

\* The condition of the outer loop.
LoopTop ==
  /\ pc = "top"
  /\ pc' = IF /\ ~decode.selected
              /\ decode.packets < MaxPackets
              /\ decode.frames < MaxFrames
              /\ ~Interrupted
           THEN "demux" ELSE "flush"
  /\ UNCHANGED <<readVars, nativeVars, bitmap>>

\* av_read_frame: an error or the end, a packet of another stream, or one of
\* the video, which the decoder takes or not.
DemuxReturns ==
  /\ InFfmpeg /\ pc = "demux"
  /\ \/ pc' = "flush" /\ UNCHANGED decode
     \/ pc' = "top" /\ UNCHANGED decode
     \/ /\ pc' = "top"
        /\ decode' = [decode EXCEPT !.packets = @ + 1]
     \/ /\ pc' = "receive"
        /\ \E taken \in {0, 1} :
             decode' = [decode EXCEPT !.packets = @ + 1, !.backlog = @ + taken]
  /\ UNCHANGED <<readVars, io, late, held, offered, bitmap>>

Reaches(frame) ==
  decode.target = NoPts \/ frame.ts = NoPts \/ frame.ts >= decode.target

\* Mutant: corrupt frames count.
ConsideredAny(frame) ==
  [decode EXCEPT !.candidate = frame, !.selected = @ \/ Reaches(frame)]

\* consider_decoded_frame: what the locals become.
Considered(frame) ==
  IF frame.usable
  THEN [decode EXCEPT !.candidate = frame, !.selected = @ \/ Reaches(frame)]
  ELSE decode

DecodeFails == ReturnsFreeing(CandidateHandles \cup {"packet", "decoded"}, None)

\* avcodec_receive_frame gives one of the frames the decoder holds; the new
\* reference to it may be refused.
TakeFrame(counted, again, over) ==
  /\ decode.backlog > 0
  /\ \E frame \in Frame :
       \/ /\ decode' = [Considered(frame) EXCEPT !.backlog = @ - 1, !.frames = @ + counted]
          /\ offered' = IF frame.usable THEN Append(offered, frame) ELSE offered
          /\ pc' = IF decode'.selected \/ (counted = 1 /\ decode'.frames >= MaxFrames)
                   THEN over ELSE again
          /\ UNCHANGED <<readVars, io, late, held, bitmap>>
       \/ frame.usable /\ DecodeFails

\* The inner loop, after a packet.
ReceiveFrame ==
  /\ pc = "receive"
  /\ TakeFrame(1, "receive", "top")

ReceiveEnds ==
  /\ pc = "receive"
  /\ pc' = "top"
  /\ UNCHANGED <<readVars, nativeVars, bitmap>>

\* Whether the decoder is flushed.
Flush ==
  /\ pc = "flush"
  /\ pc' = IF ~decode.selected /\ ~Interrupted THEN "drain" ELSE "over"
  /\ UNCHANGED <<readVars, nativeVars, bitmap>>

\* The flush takes what the decoder still holds, uncounted and without a look
\* at the deadline.
DrainFrame ==
  /\ pc = "drain"
  /\ TakeFrame(0, "drain", "over")

DrainEnds ==
  /\ pc = "drain"
  /\ pc' = "over"
  /\ UNCHANGED <<readVars, nativeVars, bitmap>>

\* The result of the decoding, and the bitmap, which may fail at any of its
\* stages; then everything is freed.
DecodingOver ==
  /\ pc = "over"
  /\ \/ /\ decode.candidate # None
        /\ \E shape \in Shapes, angle \in Angles :
             ReturnsFreeing(CandidateHandles \cup {"packet", "decoded"}, BitmapOf(shape, angle))
     \/ DecodeFails

\* The 90 seconds pass, at any time once the native side runs.
DeadlinePasses ==
  /\ pc \notin {"platform", "done"} /\ ~late
  /\ late' = TRUE
  /\ UNCHANGED <<readVars, pc, io, held, decode, offered, bitmap>>

-----------------------------------------------------------------------------
Reading == SourceStep /\ UNCHANGED <<pc, nativeVars, bitmap>>
Stalling == Watchdog /\ UNCHANGED <<pc, nativeVars, bitmap>>

Init ==
  /\ \E kind \in {"remote", "document"}, size \in Sizes :
       source = NewSource(kind, size) /\ io = NewIo(size)
  /\ call = Idle /\ stream = NoStream
  /\ pc = "platform" /\ late = FALSE /\ held = {}
  /\ decode = NewDecode /\ offered = <<>> /\ bitmap = None

FfmpegReturns == OpenReturns \/ ProbeReturns \/ SeekReturns \/ DemuxReturns
ReceiveStep == ReceiveFrame \/ ReceiveEnds
DrainStep == DrainFrame \/ DrainEnds
NativeStep ==
  \/ AllocateInput \/ OpenDecoder \/ BeginDecoding \/ LoopTop
  \/ ReceiveStep \/ Flush \/ DrainStep \/ DecodingOver

Next ==
  \/ PlatformReads \/ PlatformReadReturns \/ PlatformReturns
  \/ ReadPacket \/ ReadPacketReturns \/ Seek
  \/ FfmpegReturns \/ NativeStep \/ DeadlinePasses
  \/ Reading \/ Stalling

Spec == Init /\ [][Next]_vars

\* The program's own code runs on, a read ends at the latest by its watchdog,
\* and the clock advances.  That a function of FFmpeg or the retriever returns
\* when its reads do is assumed of them: they may call back any number of times
\* before.
Fairness ==
  /\ WF_vars(NativeStep) /\ WF_vars(Reading)
  /\ WF_vars(PlatformReadReturns) /\ WF_vars(ReadPacketReturns)
  /\ WF_vars(DeadlinePasses)
  /\ SF_vars(PlatformReturns) /\ SF_vars(FfmpegReturns)

FairSpec == Spec /\ Fairness

-----------------------------------------------------------------------------
(* Properties *)

\* decode_thumbnail_frame, consider_decoded_frame: through packets, corrupt
\* frames, the limits, the deadline, a failed seek and the flush, the frame that
\* is converted is the first usable one at or after the target, or else the last
\* usable one there was.
BestFrame ==
  decode.candidate # None =>
    LET reaching == {i \in DOMAIN offered : Reaches(offered[i])}
    IN /\ offered # <<>>
       /\ reaching \subseteq {Len(offered)}
       /\ decode.candidate = offered[Len(offered)]
       /\ decode.selected <=> reaching # {}

\* nativeExtractFrame: whichever step fails, nothing but the AVIO buffer is
\* still allocated when it returns.
HandlesReleased == pc = "done" => held \subseteq {"buffer"}

\* avio.h says of AVIOContext.buffer that it "must be later freed with
\* av_free()": nothing is still allocated when nativeExtractFrame returns.
NothingLeaks == pc = "done" => held = {}

\* fit_inside, copy_rotated_rgba, frame_to_bitmap: every pixel of the bitmap is
\* written, none outside it, and no side is longer than the maximum.
BitmapIsWhole ==
  bitmap \in {None, PlatformFrame} \/
    /\ bitmap.width \in 1..MaxDimension /\ bitmap.height \in 1..MaxDimension
    /\ {w[1] : w \in bitmap.written} = Grid(bitmap.width, bitmap.height)

\* extractVideoThumbnail: however many packets of other streams the file has and
\* however its reads stall, the extraction ends.
ExtractionEnds == <>(pc = "done")
=============================================================================
