---------------------------- MODULE ResourceMedia ----------------------------
(***************************************************************************)
(* ResourceExport with its conversions: while an encoding is "ffi", the    *)
(* linked FFmpeg (module MediaTranscode) works, interrupted by the cancel  *)
(* flag and by the deadline of the encoding.                               *)
(***************************************************************************)
EXTENDS ResourceExport

CONSTANTS Sources(_), FrameSize, Delay

VARIABLES source, point, lane, written     \* the variables of MediaTranscode

(* Streams as FFmpeg finds them: what is decoded of a video is one frame   *)
(* at a time.                                                              *)
Frame == [time : Int, len : Nat]
MediaStream ==
    {s \in [medium : {"audio", "video"}, tick : Nat, frames : Seq(Frame)] :
        s.medium = "video" => \A k \in DOMAIN s.frames : s.frames[k].len = 1}
MediaSource == [format : {"flac", "mp3", "mp4"}, streams : Seq(MediaStream) \ {<<>>}]

(* What the theorems assume of the constants.                              *)
MediaAssumption ==
    /\ FrameSize \in Nat \ {0}
    /\ \A ext : Sources(ext) \subseteq MediaSource
SizesAssumption == \A f \in Names : Size(f) \in Nat

conversion == <<source, point, lane, written>>
mediaVars == <<resource, conversion>>

Conversion == INSTANCE MediaTranscode WITH
    source <- source, stage <- point, lane <- lane, written <- written,
    interrupted <- (cancelled \/ late), FrameSize <- FrameSize, Delay <- Delay

NoSource == [format |-> "none", streams |-> <<>>]

ConversionIdle ==
    /\ source' = NoSource
    /\ point' = Conversion!Idle
    /\ lane' = <<>>
    /\ written' = <<>>

(* controlled() starts the conversion.                                     *)
Begins ==
    /\ FfiBegins
    /\ \E f \in media.outs : source' \in Sources(f[3])
    /\ point' = [at |-> "open", stream |-> 1]
    /\ lane' = <<>>
    /\ written' = [t \in DOMAIN source'.streams |-> <<>>]

Converts == media.at = "ffi" /\ Conversion!Convert /\ UNCHANGED resource

Succeeds == point.at = "done" /\ FfiDone /\ ConversionIdle

(* It failed, or it was interrupted while it ended.                        *)
GivesUp ==
    /\ point.at = "failed" \/ (point.at = "done" /\ (cancelled \/ late))
    /\ FfiFails
    /\ ConversionIdle

MediaInit ==
    /\ ResourceInit
    /\ source = NoSource
    /\ point = Conversion!Idle
    /\ lane = <<>>
    /\ written = <<>>

(* What the program does, as opposed to its children, the user and time.   *)
Own ==
    \/ (Calls \/ Commands) /\ UNCHANGED conversion
    \/ Begins
    \/ Converts
    \/ Succeeds
    \/ GivesUp

Expires == Expire /\ UNCHANGED conversion

Step == Own \/ Expires \/ ((Child \/ CancelResource) /\ UNCHANGED conversion)

(* The calls into FFmpeg return; a child may hang.                         *)
MediaSpec == MediaInit /\ [][Step]_mediaVars /\ WF_mediaVars(Own) /\ WF_mediaVars(Expires)

-----------------------------------------------------------------------------
(* A conversion keeps every sample and every frame in its place.           *)
TranscodeInv == media.at = "ffi" => Conversion!TranscodeInv

(* A resource comes to an end, whatever its children do.                   *)
ResourceEnds == <>(fate # "working")
=============================================================================
