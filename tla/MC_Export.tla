------------------------------ MODULE MC_Export ------------------------------
(***************************************************************************)
(* The machines of an export, one after the other: one resource in all    *)
(* its detail, then a whole run with two workers.  The first rests once    *)
(* its turn is over.                                                       *)
(***************************************************************************)
EXTENDS ExportRun, ResourceMedia, TLC

CONSTANTS w1, w2

-----------------------------------------------------------------------------
(* Small resources of every kind, each under a configuration of its own.   *)

PlainCase == [raw |-> "no", provider |-> "unity", objects |-> <<>>, container |-> "none",
          preserve |-> FALSE, waves |-> <<>>, sound |-> "none", images |-> <<"png">>,
          audio |-> {"wav"}, video |-> "mkv", backend |-> "cli", retain |-> TRUE, room |-> 40]

OfObjects(s) == [PlainCase EXCEPT !.objects = s]
OfAcbWaves(s) == [PlainCase EXCEPT !.provider = "cri", !.container = "acb", !.waves = s]
OfVideo(sound, video) ==
    [PlainCase EXCEPT !.provider = "cri", !.container = "usm", !.sound = sound, !.video = video]

MCCases ==
    {OfObjects(<<"plain", "skipped", "opaque">>),
     [OfObjects(<<"playable", "clip", "playable">>) EXCEPT !.raw = "alongside"],
     [OfObjects(<<"playable", "plain", "playable">>) EXCEPT !.room = 3],
     [OfObjects(<<"image", "layers">>) EXCEPT !.images = <<"jpg", "png">>],
     [OfObjects(<<"bank", "plain">>) EXCEPT !.waves = <<"hca">>, !.audio = {"flac"}],
     [OfObjects(<<"plain">>) EXCEPT !.raw = "only"],
     [OfAcbWaves(<<"stored", "hca">>) EXCEPT !.audio = {"mp3"}, !.backend = "ffi"],
     [OfAcbWaves(<<"hca">>) EXCEPT !.audio = {"wav", "mp3"}, !.room = 3],
     [OfAcbWaves(<<"hca">>) EXCEPT !.audio = {"flac", "mp3"}, !.backend = "auto"],
     [OfAcbWaves(<<"hca">>) EXCEPT !.preserve = TRUE],
     [OfVideo("adx", "both") EXCEPT !.audio = {"flac"}, !.backend = "auto"],
     OfVideo("hca", "source"),
     [OfVideo("none", "mp4") EXCEPT !.backend = "auto"],
     [OfVideo("none", "mkv") EXCEPT !.container = "alpha"],
     [OfVideo("none", "mkv") EXCEPT !.sound = "adx", !.retain = FALSE],
     [OfVideo("none", "mkv") EXCEPT !.preserve = TRUE]}

MCSize(f) == IF f[3] \in {"wav", "ab"} THEN 2 ELSE 1

At2(time, len) == [time |-> time, len |-> len]
Voice(frames) == [medium |-> "audio", tick |-> 1, frames |-> frames]
Picture(frames) == [medium |-> "video", tick |-> 2, frames |-> frames]

(* Among them a gap, a drift, late sound, and frames without a time.       *)
MCSources(format) ==
    LET Of(streams) == [format |-> format, streams |-> streams] IN
    CASE format = "flac" ->
           {Of(<<Voice(<<At2(5, 3), At2(8, 2)>>)>>), Of(<<Voice(<<At2(0, 1), At2(3, 2)>>)>>),
            Of(<<Voice(<<At2(-1, 1), At2(0, 1), At2(4, 1)>>)>>)}
      [] format = "mp3" -> {Of(<<Voice(<<At2(0, 1), At2(-1, 2)>>)>>)}
      [] format = "mp4" ->
           {Of(<<Picture(<<At2(0, 1), At2(2, 1)>>), Voice(<<At2(0, 3)>>)>>),
            Of(<<Picture(<<At2(0, 1), At2(3, 1), At2(6, 1)>>)>>),
            Of(<<Picture(<<At2(0, 1)>>), Voice(<<At2(4, 3)>>)>>)}
      [] OTHER -> {}

-----------------------------------------------------------------------------
VARIABLE turn       \* whose steps are taken

(* MediaAssumption, at the formats that a conversion has.                  *)
ASSUME SourcesAssumption ==
    \A format \in {"flac", "mp3", "mp4"} : MCSources(format) \subseteq MediaSource

allVars == <<exportVars, turn, mediaVars>>

MCInit == turn = "resource" /\ MediaInit /\ ExportInit

ResourceTurn == turn = "resource" /\ UNCHANGED <<turn, exportVars>>

EndResource ==
    /\ turn = "resource"
    /\ fate # "working"
    /\ turn' = "run"
    /\ case' = PlainCase /\ files' = <<>> /\ outputs' = <<>> /\ fate' = "dropped"
    /\ held' = [bytes |-> 0, objects |-> {}] /\ errors' = {0}
    /\ pass' = "none" /\ late' = FALSE /\ cancelled' = FALSE
    /\ UNCHANGED <<exportVars, todo, media, source, point, lane, written>>

RunTurn == turn = "run" /\ UNCHANGED <<turn, mediaVars>>

MCNext ==
    \/ ResourceTurn /\ Step
    \/ EndResource
    \/ RunTurn /\ ExportNext

MCSpec ==
    /\ MCInit /\ [][MCNext]_allVars
    /\ WF_allVars(ResourceTurn /\ Own)
    /\ WF_allVars(ResourceTurn /\ Expires)
    /\ WF_allVars(EndResource)
    /\ WF_allVars(RunTurn /\ Collect)
    /\ \A w \in Workers : WF_allVars(RunTurn /\ Work(w))
=============================================================================
