--------------------------- MODULE MediaTranscode ---------------------------
(***************************************************************************)
(* One conversion with the linked FFmpeg (src/media_ffi.rs): a WAV to FLAC *)
(* or MP3, or the video and the audio of a file to MP4.  Packets are read, *)
(* decoded and encoded again one after the other, and what the decoder,    *)
(* the FIFO and the encoder hold back is flushed at the end.               *)
(*                                                                         *)
(* Samples (and the frames of a video) are numbered from 1, 0 is silence.  *)
(* A decoder and an encoder hold back up to Delay frames.  Every call into *)
(* FFmpeg may fail, and fails once the conversion is interrupted.          *)
(***************************************************************************)
EXTENDS Integers, SequencesExt

CONSTANTS
    FrameSize,  \* samples in a frame of an audio encoder, at least one
    Delay       \* frames that a decoder or an encoder may hold back

NoTime == -1

VARIABLES
    source,     \* the format; per stream its medium, ticks of a sample, decoded frames
    stage,      \* where the conversion is, and the stream at hand
    lane,       \* per stream: its decoder, clock, FIFO and encoder
    written,    \* per stream: packets in the output
    interrupted \* cancelled, or past the deadline

transcode == <<source, stage, lane, written>>

Streams == DOMAIN source.streams
Stream(t) == source.streams[t]
Sum(s) == SumFunctionOnSet(s, DOMAIN s)
Position(t, n) == Sum([k \in 1 .. n |-> Stream(t).frames[k].len])
Numbers(from, len) == [k \in 1 .. len |-> from + k]
Silence(len) == [k \in 1 .. len |-> 0]

(* A stream of a muxed file is measured from 0, a single one from its      *)
(* first timestamp (an Option: a set with at most one element).            *)
NewLane == [fed |-> 0, ended |-> FALSE, decoded |-> 0, index |-> 0,
            origin |-> IF source.format = "mp4" THEN {0} ELSE {},
            fifo |-> <<>>, encoder |-> <<>>]

Idle == [at |-> "off", stream |-> 1]

On(at) == stage.at = at /\ ~interrupted
Goto(at, t) == stage' = [at |-> at, stream |-> t]
Fails == Goto("failed", 1) /\ UNCHANGED <<source, lane, written>>

-----------------------------------------------------------------------------
Start(s) == IF s.frames = <<>> THEN NoTime ELSE s.frames[1].time

(* The inputs are opened.  Streams that do not start together are left to  *)
(* the command.                                                            *)
Open ==
    /\ On("open")
    /\ \/ /\ source.format = "mp4"
          /\ \E t \in Streams : Start(Stream(t)) \notin {0, NoTime}
          /\ Goto("failed", 1)
          /\ UNCHANGED lane
       \/ /\ source.format = "mp4" => \A t \in Streams : Start(Stream(t)) \in {0, NoTime}
          /\ Goto("reading", 1)
          /\ lane' = [t \in Streams |-> NewLane]
    /\ UNCHANGED <<source, written>>

(* The next packet goes to the decoder of its stream.                      *)
Read ==
    /\ On("reading")
    /\ \E t \in Streams :
         /\ lane[t].fed < Len(Stream(t).frames)
         /\ lane' = [lane EXCEPT ![t].fed = @ + 1]
         /\ Goto("decoding", t)
    /\ UNCHANGED <<source, written>>

(* Mutation of EndOfInput: the trailer follows the last packet. *)
EndWithoutFlush ==
    /\ On("reading")
    /\ \A t \in Streams : lane[t].fed = Len(Stream(t).frames)
    /\ Goto("trailer", 1)
    /\ UNCHANGED <<source, lane, written>>

EndOfInput ==
    /\ On("reading")
    /\ \A t \in Streams : lane[t].fed = Len(Stream(t).frames)
    /\ Goto("flush", 1)
    /\ UNCHANGED <<source, lane, written>>

Flush ==
    /\ On("flush")
    /\ LET t == stage.stream IN lane' = [lane EXCEPT ![t].ended = TRUE] /\ Goto("decoding", t)
    /\ UNCHANGED <<source, written>>

-----------------------------------------------------------------------------
(* Frames of the decoder *)

Expected(t) == Position(t, lane[t].decoded) * Stream(t).tick
Origin(t, time) ==
    IF lane[t].origin = {} /\ time # NoTime THEN {time - Expected(t)} ELSE lane[t].origin

(* Mutation of Timely: each frame is compared with the one before it. *)
TimelyStepwise(t, time) ==
    LET k == lane[t].decoded
    IN  k # 0 /\ time # NoTime =>
            time - (Stream(t).frames[k].time + Stream(t).frames[k].len * Stream(t).tick) \in -1 .. 1

(* A frame is where the frames before it end, give or take one tick.       *)
Timely(t, time) ==
    time # NoTime => \A start \in Origin(t, time) : time - (start + Expected(t)) \in -1 .. 1

(* What an encoder gives back is written.  A packet of a video may come    *)
(* without a duration: it gets that of one frame.                          *)
Durations(t, packet) == IF Stream(t).medium = "video" THEN {0, 1} ELSE {Len(packet.samples)}

(* Mutation of Drained: the duration is the encoder's. *)
DrainedAsIs(t, packet, duration) == [packet EXCEPT !.duration = duration]

Drained(t, packet, duration) ==
    [packet EXCEPT !.duration = IF Stream(t).medium = "video" /\ duration <= 0 THEN 1 ELSE duration]

Drain(t, queue, count) ==
    \E duration \in [1 .. count -> 0 .. FrameSize] :
        /\ \A k \in 1 .. count : duration[k] \in Durations(t, queue[k])
        /\ written' = [written EXCEPT ![t] =
                         @ \o [k \in 1 .. count |-> Drained(t, queue[k], duration[k])]]

Packet(t, samples) == [pts |-> lane[t].index, samples |-> samples, duration |-> 0]

(* A frame is sent and the encoder drained.                                *)
Send(t, next, packet) ==
    LET queue == Append(lane[t].encoder, packet) IN
    \E count \in 0 .. Len(queue) :
        /\ Len(queue) - count <= Delay
        /\ Drain(t, queue, count)
        /\ lane' = [lane EXCEPT ![t] = [next EXCEPT !.encoder = SubSeq(queue, count + 1, Len(queue)),
                                                    !.index = @ + Len(packet.samples)]]

(* A frame of the decoder, if it is in its place: one of a video is sent,  *)
(* audio goes into the FIFO.                                               *)
Receive ==
    /\ On("decoding")
    /\ LET t == stage.stream
           frame == Stream(t).frames[lane[t].decoded + 1]
           samples == Numbers(Position(t, lane[t].decoded), frame.len)
           next == [lane[t] EXCEPT !.decoded = @ + 1, !.origin = Origin(t, frame.time)]
       IN  /\ lane[t].decoded < lane[t].fed
           /\ \/ ~Timely(t, frame.time) /\ Fails
              \/ /\ Timely(t, frame.time)
                 /\ UNCHANGED source
                 /\ \/ /\ Stream(t).medium = "video"
                       /\ Send(t, next, Packet(t, samples))
                       /\ UNCHANGED stage
                    \/ /\ Stream(t).medium = "audio"
                       /\ lane' = [lane EXCEPT ![t] = [next EXCEPT !.fifo = @ \o samples]]
                       /\ Goto("encoding", t)
                       /\ UNCHANGED written

-----------------------------------------------------------------------------
(* The FIFO *)

Final == stage.at = "emptying"

(* MP3 is encoded in whole frames, the last one with silence.              *)
SamplesToEncode(available) ==
    IF Final /\ source.format # "mp3" THEN Min({available, FrameSize}) ELSE FrameSize

(* One round of encode_available.                                          *)
Chunk ==
    /\ (On("encoding") \/ On("emptying"))
    /\ LET t == stage.stream
           fifo == lane[t].fifo
           count == SamplesToEncode(Len(fifo))
           taken == Min({count, Len(fifo)})
       IN  /\ Len(fifo) >= FrameSize \/ (Final /\ fifo # <<>>)
           /\ Send(t, [lane[t] EXCEPT !.fifo = SubSeq(@, taken + 1, Len(@))],
                   Packet(t, SubSeq(fifo, 1, taken) \o Silence(count - taken)))
    /\ UNCHANGED <<source, stage>>

ChunksDone ==
    /\ On("encoding")
    /\ Len(lane[stage.stream].fifo) < FrameSize
    /\ Goto("decoding", stage.stream)
    /\ UNCHANGED <<source, lane, written>>

(* The decoder has nothing for now, or nothing at all.                     *)
Decoded ==
    /\ On("decoding")
    /\ LET t == stage.stream IN
       \/ /\ ~lane[t].ended
          /\ lane[t].fed - lane[t].decoded <= Delay
          /\ Goto("reading", 1)
       \/ /\ lane[t].ended
          /\ lane[t].fed = lane[t].decoded
          /\ Goto("emptying", t)
    /\ UNCHANGED <<source, lane, written>>

(* The encoder is flushed, and the next stream has its turn.               *)
Finish ==
    /\ On("emptying")
    /\ LET t == stage.stream
           queue == lane[t].encoder
       IN  /\ lane[t].fifo = <<>>
           /\ Drain(t, queue, Len(queue))
           /\ lane' = [lane EXCEPT ![t].encoder = <<>>]
           /\ IF t + 1 \in Streams THEN Goto("flush", t + 1) ELSE Goto("trailer", 1)
    /\ UNCHANGED source

Trailer ==
    /\ On("trailer")
    /\ Goto("done", 1)
    /\ UNCHANGED <<source, lane, written>>

(* A call fails.                                                           *)
Broken == stage.at \notin {"off", "done", "failed"} /\ Fails

Convert ==
    \/ Open \/ Read \/ EndOfInput \/ Flush \/ Receive \/ Chunk \/ ChunksDone \/ Decoded
    \/ Finish \/ Trailer \/ Broken

-----------------------------------------------------------------------------
(* Properties *)

Samples(packets) == FlattenSeq([k \in DOMAIN packets |-> packets[k].samples])
Length(t) == Position(t, Len(Stream(t).frames))

(* What has been decoded is in the output, the encoder or the FIFO, once   *)
(* and in its order; silence is only at the end of an MP3.                 *)
NothingLost ==
    \A t \in DOMAIN lane :
        LET out == Samples(written[t] \o lane[t].encoder)
            decoded == Numbers(0, Position(t, lane[t].decoded))
        IN  \/ out \o lane[t].fifo = decoded
            \/ /\ source.format = "mp3"
               /\ lane[t].fifo = <<>> /\ lane[t].decoded = Len(Stream(t).frames)
               /\ \E n \in 1 .. FrameSize - 1 : out = decoded \o Silence(n)

(* A packet begins where the one before it ends, as players see them.      *)
Seamless ==
    \A t \in DOMAIN lane : \A k \in DOMAIN written[t] :
        written[t][k].pts = Sum([n \in 1 .. k - 1 |-> written[t][n].duration])

(* A file that was accepted has all of its source, and what the source     *)
(* shows at some time is there within a tick of it: no gap is closed, and  *)
(* a video stays with its sound.                                           *)
Complete ==
    stage.at = "done" => \A t \in Streams :
        /\ \E n \in 0 .. FrameSize - 1 :
             /\ Samples(written[t]) = Numbers(0, Length(t)) \o Silence(n)
             /\ n # 0 => source.format = "mp3"
        /\ Sum([k \in DOMAIN written[t] |-> written[t][k].duration]) >= Length(t)
        /\ \A k, n \in DOMAIN Stream(t).frames :
             LET At(i) == Stream(t).frames[i].time - Position(t, i - 1) * Stream(t).tick
             IN  NoTime \notin {Stream(t).frames[k].time, Stream(t).frames[n].time} =>
                   /\ At(k) - At(n) \in -2 .. 2
                   /\ source.format = "mp4" => At(k) \in -1 .. 1

(* A conversion keeps every sample and every frame in its place.           *)
TranscodeInv == NothingLost /\ Seamless /\ Complete
=============================================================================
