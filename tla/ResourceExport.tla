--------------------------- MODULE ResourceExport ---------------------------
(***************************************************************************)
(* One resource of an export: process_resource of src/export.rs and what   *)
(* it calls, down to the FFmpeg commands.                                  *)
(*                                                                         *)
(* A resource is worked off by one thread.  What is left of it is "todo",  *)
(* a sequence of calls in the order of the code; some of them unfold into  *)
(* others (an object, one pass over a USM), and an error skips what is     *)
(* left of the innermost one that deals with errors.  A command has        *)
(* attempts, and an encoding may be tried in the process first ("ffi",     *)
(* module MediaTranscode).  A file is named by its directory, its stem and *)
(* its extension, the first two by what they are for and a number; its     *)
(* bytes are a size.                                                       *)
(***************************************************************************)
EXTENDS Integers, FiniteSets, SequencesExt

CONSTANTS
    Cases,      \* the resources and configurations to consider: a set of Case
    Size(_),    \* the size of a file
    Attempts    \* attempts of one command (media_retry), at least one

ImageFormats == {"png", "webp", "bmp", "tga", "jpg"}

(* A configuration and a resource: its objects, or its container.          *)
Case == [raw: {"no", "alongside", "only"}, provider: {"unity", "cri"},
         objects: Seq({"skipped", "plain", "opaque", "playable", "clip", "image", "layers",
                       "bank"}),
         container: {"acb", "usm", "alpha", "none"}, preserve: BOOLEAN,
         waves: Seq({"hca", "stored"}), sound: {"none", "adx", "hca"},
         images: Seq(ImageFormats), audio: SUBSET {"wav", "flac", "mp3"},
         video: {"source", "mkv", "mp4", "both"}, backend: {"cli", "ffi", "auto"},
         retain: BOOLEAN, room: Nat]

(* export_options.rs rejects a list that names a format of images twice.    *)
ASSUME CasesAssumption ==
    /\ Attempts \in Nat \ {0}
    /\ \A c \in Cases : c \in Case /\ IsInjective(c.images)

VARIABLES
    case,       \* the resource at hand
    todo,       \* calls to come
    files,      \* the staging directory: how whole each file is, and of which pass
    outputs,    \* report.outputs: files and the pass that recorded them
    held,       \* bytes of the objects kept for playables; which of them
    errors,     \* report.errors: objects, 0 for the resource itself
    pass,       \* how the USM at hand is unmasked: "none", "masked", "plain"
    media,      \* the command or encoding at hand
    late,       \* its deadline has passed
    cancelled,
    fate        \* "working", and then "kept" or "dropped"

resource == <<case, todo, files, outputs, held, errors, pass, media, late, cancelled, fate>>

Quiet == [at |-> "off", retry |-> 0, outs |-> {}]

-----------------------------------------------------------------------------
(* Calls *)

Look == [op |-> "look"]                         \* the cancel flag
Try(class) == [op |-> "try", class |-> class]   \* a call that may fail
Fits(f) == [op |-> "fits", file |-> f]
Make(f) == [op |-> "make", file |-> f]
Record(f) == [op |-> "record", file |-> f]
Drop(f) == [op |-> "drop", file |-> f]
Run(fs) == [op |-> "run", files |-> fs]
Encode(f) == [op |-> "encode", file |-> f]
Object(n) == [op |-> "object", number |-> n]
Usm(dir) == [op |-> "usm", dir |-> dir]

Saved(f) == <<Make(f), Record(f)>>

(* Directories and files.                                                  *)
Dirs == {"root", "raw", "color", "alpha", "bank"} \X Nat
Stems == {"nth", "container", "sound", "video", "movie", "usm", "mask", "layer 0", "layer 1",
          "playable", "bundle"} \X Nat
Extensions == {"json", "object.bin", "bin", "ogg", "cues", "wav", "flac", "mp3", "m2v", "mkv",
               "mp4", "acb", "usm", "ab"} \cup ImageFormats
Names == Dirs \X Stems \X Extensions
Root == <<"root", 0>>
Dir(kind) == <<kind, 0>>
BankDir(n) == <<"bank", n>>
File(dir, kind, ext) == <<dir, <<kind, 0>>, ext>>
Nth(dir, n, ext) == <<dir, <<"nth", n>>, ext>>
OfStem(n, e) == Nth(Root, n, e)
Playable == File(Root, "playable", "json")

(* Mutation of RecordAudio: the WAV stays when only FLAC was asked for.    *)
RecordAudioAndKeep(dir, stem) ==
    LET Ext(e) == <<dir, stem, e>>
        mp3 == "mp3" \in case.audio
        flac == "flac" \in case.audio
        keep == "wav" \in case.audio \/ ~flac
    IN  (IF mp3 THEN <<Try("other"), Encode(Ext("mp3")), Run({}), Try("other")>> ELSE <<>>)
        \o (IF keep THEN <<Record(Ext("wav"))>> ELSE <<>>)
        \o (IF mp3 THEN <<Record(Ext("mp3"))>> ELSE <<>>)
        \o (IF flac THEN <<Encode(Ext("flac")), Run({}), Try("other"), Record(Ext("flac"))>>
            ELSE <<>>)

(* The formats of a WAV: MP3 and FLAC are decoded again and compared, and   *)
(* the WAV stays unless FLAC stands in for it.                             *)
RecordAudio(dir, stem) ==
    LET Ext(e) == <<dir, stem, e>>
        mp3 == "mp3" \in case.audio
        flac == "flac" \in case.audio
        keep == "wav" \in case.audio \/ ~flac
    IN  (IF mp3 THEN <<Try("other"), Encode(Ext("mp3")), Run({}), Try("other")>> ELSE <<>>)
        \o (IF keep THEN <<Record(Ext("wav"))>> ELSE <<>>)
        \o (IF mp3 THEN <<Record(Ext("mp3"))>> ELSE <<>>)
        \o (IF flac THEN <<Encode(Ext("flac")), Run({}), Try("other"), Record(Ext("flac"))>>
            ELSE <<>>)
        \o (IF keep THEN <<>> ELSE <<Drop(Ext("wav"))>>)

(* A container that is kept as it is.                                      *)
Preserve(dir, ext) ==
    LET f == File(dir, "container", ext) IN <<Look, Fits(f)>> \o Saved(f)

Cues(dir, n) == Saved(Nth(dir, n, "cues"))

(* The waveforms of an ACB: HCA is decoded, anything else kept as stored.  *)
Wave(dir, n) ==
    LET wav == Nth(dir, n, "wav")
        stored == Nth(dir, n, "bin")
    IN  IF case.waves[n] = "stored"
        THEN <<Look, Fits(stored)>> \o Saved(stored) \o Cues(dir, n)
        ELSE <<Look, Fits(wav), Make(wav), Try("other")>>
             \o RecordAudio(dir, <<"nth", n>>) \o Cues(dir, n)

Acb(dir) ==
    IF case.preserve THEN Preserve(dir, "acb")
    ELSE <<Try("other")>> \o FlattenSeq([n \in DOMAIN case.waves |-> Wave(dir, n)])

(* check_video_frames: every frame that the USM declares can be decoded.   *)
AllFrames == <<Run({}), Try("decode")>>

VideoFormats(dir) ==
    LET mkv == File(dir, "movie", "mkv")
        mp4 == File(dir, "movie", "mp4")
    IN  (IF case.video \in {"mp4", "both"} THEN <<Encode(mp4)>> \o AllFrames \o <<Record(mp4)>>
         ELSE <<>>)
        \o (IF case.video \in {"mkv", "both"} THEN <<Record(mkv)>> ELSE <<Drop(mkv)>>)

Sound(dir) ==
    LET wav == File(dir, "sound", "wav")
        formats == RecordAudio(dir, <<"sound", 0>>)
    IN  CASE case.sound = "adx" -> <<Try("other"), Run({wav}), Try("other")>> \o formats
          [] case.sound = "hca" -> <<Make(wav), Try("other")>> \o formats
          [] OTHER -> <<>>

(* Picture and sound in one file.                                          *)
Movie(dir) == <<Run({File(dir, "movie", "mkv")})>> \o AllFrames \o VideoFormats(dir)

(* One pass over a USM.                                                    *)
UsmDecode(dir) ==
    <<Try("other")>> \o Saved(File(dir, "video", "m2v")) \o Sound(dir) \o Movie(dir)
    \o Saved(File(dir, "usm", "json")) \o Saved(File(dir, "mask", "json"))

ImageFile(stem, e) == <<Root, stem, e>>

Rendition(stem, e) ==
    LET f == ImageFile(stem, e)
    IN  <<Look, Fits(f), Look, Make(f)>>
        \o (IF e = "png" THEN <<>> ELSE <<Fits(f), Run({})>>) \o <<Record(f)>>

Images(stem) == FlattenSeq([n \in DOMAIN case.images |-> Rendition(stem, case.images[n])])

(* What an object becomes, by its kind.                                    *)
Plain(n) == <<Try("other")>> \o Saved(OfStem(n, "json"))
Opaque(n) == Plain(n) \o <<Try("other")>> \o Saved(OfStem(n, "object.bin"))
Playing(n) == <<Try("other"), [op |-> "hold", number |-> n]>>
Clip(n) == <<Try("other"), Fits(OfStem(n, "ogg")), Look>> \o Saved(OfStem(n, "ogg"))
Image(n) == <<Try("other")>> \o Images(<<"nth", n>>)
Layers(n) ==
    <<Try("other"), Look>> \o Images(<<"layer 0", n>>) \o <<Look>> \o Images(<<"layer 1", n>>)
Bank(n) == Plain(n) \o <<Try("other")>> \o Acb(BankDir(n))

Body(n) ==
    CASE case.objects[n] = "skipped" -> <<>>
      [] case.objects[n] = "plain" -> Plain(n)
      [] case.objects[n] = "opaque" -> Opaque(n)
      [] case.objects[n] = "playable" -> Playing(n)
      [] case.objects[n] = "clip" -> Clip(n)
      [] case.objects[n] = "image" -> Image(n)
      [] case.objects[n] = "layers" -> Layers(n)
      [] case.objects[n] = "bank" -> Bank(n)

Unity == <<[op |-> "open"]>>
         \o FlattenSeq([n \in DOMAIN case.objects |-> <<Look, Object(n)>>])
         \o <<[op |-> "merge"]>>

(* A container is known by its first bytes.                                *)
Cri ==
    <<Try("other")>> \o
    (IF case.container = "acb" THEN Acb(Root)
     ELSE IF case.preserve THEN Preserve(Root, "usm")
     ELSE IF case.container = "usm" THEN <<Try("other"), Usm(Root)>>
     ELSE <<Try("other"), Usm(Dir("color")), Usm(Dir("alpha"))>>)

(* The stored bundle is copied under a check of its digest.                *)
RawBundle ==
    LET f == File(Dir("raw"), "bundle", "ab")
    IN  <<Fits(f), Look, Make(f), Try("other"), Record(f)>>

ProcessResource ==
    (IF case.raw = "no" THEN <<>> ELSE RawBundle)
    \o (IF case.raw = "only" THEN <<>> ELSE IF case.provider = "unity" THEN Unity ELSE Cri)

-----------------------------------------------------------------------------
(* Errors *)

Recorded == {outputs[n].file : n \in DOMAIN outputs}
Total == SumFunctionOnSet([n \in DOMAIN outputs |-> Size(outputs[n].file)], DOMAIN outputs)
HasRoom(f) == Total + Size(f) <= case.room

(* An object reports its error and the next one has its turn; a USM that   *)
(* could not be decoded is decoded once more, not unmasked.                *)
Handles(i, class) ==
    \/ todo[i].op = "objectEnd"
    \/ todo[i].op = "usmEnd" /\ class = "decode" /\ pass = "masked"

(* Mutation of SecondPass: what the first pass recorded stays in the report. *)
SecondPassAppends(i, fs) ==
    /\ pass' = "plain"
    /\ outputs' = outputs
    /\ files' = [f \in {f \in DOMAIN fs : f[1] # todo[i].dir} |-> fs[f]]
    /\ todo' = UsmDecode(todo[i].dir) \o SubSeq(todo, i, Len(todo))
    /\ UNCHANGED errors

(* The report is cut back and the directory emptied before the second pass. *)
SecondPass(i, fs) ==
    /\ pass' = "plain"
    /\ outputs' = SubSeq(outputs, 1, todo[i].start)
    /\ files' = [f \in {f \in DOMAIN fs : f[1] # todo[i].dir} |-> fs[f]]
    /\ todo' = UsmDecode(todo[i].dir) \o SubSeq(todo, i, Len(todo))
    /\ UNCHANGED errors

(* Mutation of Reported: an object whose output failed is left out. *)
ReportedNowhere(n) == errors' = errors

Reported(n) == errors' = errors \cup {n}

(* The call at hand failed and left these files.  What prevents a second   *)
(* pass is an error of its own.                                            *)
Fails(class, fs) == \E c \in {class, "other"} :
    LET handlers == {i \in DOMAIN todo : Handles(i, c)}
    IN  /\ media' = Quiet
        /\ \/ /\ handlers = {}
              /\ Reported(0)
              /\ todo' = <<>>
              /\ files' = fs
              /\ UNCHANGED <<outputs, pass>>
           \/ \E i \in handlers :
                /\ \A j \in handlers : i <= j
                /\ \/ /\ todo[i].op = "objectEnd"
                      /\ Reported(todo[i].number)
                      /\ todo' = SubSeq(todo, i, Len(todo))
                      /\ files' = fs
                      /\ UNCHANGED <<outputs, pass>>
                   \/ todo[i].op = "usmEnd" /\ SecondPass(i, fs)

FailCall(class) == Fails(class, files)

-----------------------------------------------------------------------------
(* The calls, one action each *)

At(op) == fate = "working" /\ media.at = "off" /\ todo # <<>> /\ Head(todo).op = op
Return == todo' = Tail(todo)
Unfold(calls) == todo' = calls \o Tail(todo)

Written(fs, whole) ==
    [f \in DOMAIN files \cup fs |-> IF f \in fs THEN [whole |-> whole, pass |-> pass] ELSE files[f]]
Without(fs) == [f \in DOMAIN files \ fs |-> files[f]]

DoLook ==
    /\ At("look")
    /\ \/ cancelled /\ FailCall("other")
       \/ /\ ~cancelled
          /\ Return
          /\ UNCHANGED <<files, outputs, errors, pass, media>>
    /\ UNCHANGED <<case, held, late, cancelled, fate>>

DoTry ==
    /\ At("try")
    /\ \/ FailCall(Head(todo).class)
       \/ Return /\ UNCHANGED <<files, outputs, errors, pass, media>>
    /\ UNCHANGED <<case, held, late, cancelled, fate>>

DoFits ==
    /\ At("fits")
    /\ \/ ~HasRoom(Head(todo).file) /\ FailCall("other")
       \/ /\ HasRoom(Head(todo).file)
          /\ Return
          /\ UNCHANGED <<files, outputs, errors, pass, media>>
    /\ UNCHANGED <<case, held, late, cancelled, fate>>

(* Decoding and writing a file.                                            *)
DoMake ==
    LET f == Head(todo).file IN
    /\ At("make")
    /\ \/ FailCall("other")
       \/ Fails("other", Written({f}, FALSE))
       \/ Return /\ files' = Written({f}, TRUE) /\ UNCHANGED <<outputs, errors, pass, media>>
    /\ UNCHANGED <<case, held, late, cancelled, fate>>

(* Mutation of DoRecord: the sum of the sizes is not limited. *)
DoRecordAny ==
    LET f == Head(todo).file IN
    /\ At("record")
    /\ \/ FailCall("other")
       \/ /\ Return
          /\ outputs' = Append(outputs, [file |-> f, pass |-> pass])
          /\ UNCHANGED <<files, errors, pass, media>>
    /\ UNCHANGED <<case, held, late, cancelled, fate>>

(* A file is read back, validated and listed.                              *)
DoRecord ==
    LET f == Head(todo).file IN
    /\ At("record")
    /\ \/ FailCall("other")
       \/ /\ HasRoom(f)
          /\ Return
          /\ outputs' = Append(outputs, [file |-> f, pass |-> pass])
          /\ UNCHANGED <<files, errors, pass, media>>
    /\ UNCHANGED <<case, held, late, cancelled, fate>>

DoDrop ==
    /\ At("drop")
    /\ \/ FailCall("other")
       \/ Return /\ files' = Without({Head(todo).file}) /\ UNCHANGED <<outputs, errors, pass, media>>
    /\ UNCHANGED <<case, held, late, cancelled, fate>>

(* A bundle opens; what its loader complains of is an error of the         *)
(* resource, whose objects are exported all the same.                      *)
DoOpen ==
    /\ At("open")
    /\ \/ FailCall("other")
       \/ /\ Return
          /\ errors' \in {errors, errors \cup {0}}
          /\ UNCHANGED <<files, outputs, pass, media>>
    /\ UNCHANGED <<case, held, late, cancelled, fate>>

DoObject ==
    /\ At("object")
    /\ LET n == Head(todo).number IN Unfold(Append(Body(n), [op |-> "objectEnd", number |-> n]))
    /\ UNCHANGED <<case, files, outputs, held, errors, pass, media, late, cancelled, fate>>

(* The outputs of the object get its identity; without one it is the       *)
(* resource that fails.                                                    *)
DoObjectEnd ==
    /\ At("objectEnd")
    /\ \/ Return /\ UNCHANGED errors
       \/ Reported(0) /\ todo' = <<>>
    /\ UNCHANGED <<case, files, outputs, held, pass, media, late, cancelled, fate>>

(* hold_playable counts an object before it finds that it is too much.     *)
DoHold ==
    LET bytes == held.bytes + Size(Playable) IN
    /\ At("hold")
    /\ \/ /\ Total + bytes > case.room
          /\ held' = [held EXCEPT !.bytes = bytes]
          /\ FailCall("other")
       \/ /\ Total + bytes <= case.room
          /\ held' = [bytes |-> bytes, objects |-> held.objects \cup {Head(todo).number}]
          /\ Return
          /\ UNCHANGED <<files, outputs, errors, pass, media>>
    /\ UNCHANGED <<case, late, cancelled, fate>>

(* One file for all objects of a playable.                                 *)
DoMerge ==
    /\ At("merge")
    /\ Unfold(IF held.objects = {} THEN <<>> ELSE <<Look, Try("other")>> \o Saved(Playable))
    /\ UNCHANGED <<case, files, outputs, held, errors, pass, media, late, cancelled, fate>>

DoUsm ==
    /\ At("usm")
    /\ LET dir == Head(todo).dir IN
       Unfold(Append(UsmDecode(dir), [op |-> "usmEnd", dir |-> dir, start |-> Len(outputs)]))
    /\ pass' = "masked"
    /\ UNCHANGED <<case, files, outputs, held, errors, media, late, cancelled, fate>>

DoUsmEnd ==
    /\ At("usmEnd")
    /\ Return
    /\ pass' = "none"
    /\ UNCHANGED <<case, files, outputs, held, errors, media, late, cancelled, fate>>

-----------------------------------------------------------------------------
(* Commands and encodings *)

Goes(at) == media' = [media EXCEPT !.at = at]
Waits == <<case, todo, files, outputs, held, errors, pass, late, cancelled, fate>>

(* A command has a deadline of its own for its waits and attempts.         *)
DoRun ==
    /\ At("run")
    /\ late' = FALSE
    /\ media' = [at |-> "gate", retry |-> 0, outs |-> Head(todo).files]
    /\ UNCHANGED <<case, todo, files, outputs, held, errors, pass, cancelled, fate>>

(* An encoding has one for the wait for its stage and all that follows.    *)
DoEncode ==
    /\ At("encode")
    /\ \/ cancelled /\ FailCall("other") /\ UNCHANGED late
       \/ /\ ~cancelled
          /\ late' = FALSE
          /\ media' = [at |-> "stage", retry |-> 0, outs |-> {Head(todo).file}]
          /\ UNCHANGED <<todo, files, outputs, errors, pass>>
    /\ UNCHANGED <<case, held, cancelled, fate>>

(* A wait for a permit ends without one; the CPU throttle may fail too.    *)
Refused ==
    /\ media.at \in {"stage", "ffiGate", "gate"}
    /\ FailCall("other")
    /\ UNCHANGED <<case, held, late, cancelled, fate>>

Staged ==
    /\ media.at = "stage"
    /\ ~cancelled /\ ~late
    /\ \/ case.backend = "cli" /\ Goes("gate") /\ UNCHANGED <<todo, files, outputs, errors, pass>>
       \/ /\ case.backend # "cli"
          /\ media.outs \cap DOMAIN files # {}
          /\ FailCall("other")
       \/ /\ case.backend # "cli"
          /\ media.outs \cap DOMAIN files = {}
          /\ Goes("ffiGate")
          /\ UNCHANGED <<todo, files, outputs, errors, pass>>
    /\ UNCHANGED <<case, held, late, cancelled, fate>>

FfiBegins ==
    /\ media.at = "ffiGate"
    /\ ~cancelled /\ ~late
    /\ Goes("ffi")
    /\ UNCHANGED Waits

(* The command or conversion succeeded.                                    *)
Produced ==
    /\ files' = Written(media.outs, TRUE)
    /\ media' = Quiet
    /\ Return
    /\ UNCHANGED <<case, outputs, held, errors, pass, late, cancelled, fate>>

FfiDone == media.at = "ffi" /\ ~cancelled /\ ~late /\ Produced

(* What a failed conversion wrote goes.  Then the command has its turn,    *)
(* unless the conversion was stopped or the backend has no command.        *)
FfiFails ==
    /\ media.at = "ffi"
    /\ \/ (cancelled \/ late \/ case.backend = "ffi") /\ FailCall("other")
       \/ \E left \in SUBSET media.outs :        \* it could not be removed
            left # {} /\ Fails("other", Written(left, FALSE))
       \/ /\ ~cancelled /\ ~late
          /\ case.backend = "auto"
          /\ Goes("gate")
          /\ UNCHANGED <<todo, files, outputs, errors, pass>>
    /\ UNCHANGED <<case, held, late, cancelled, fate>>

(* A child process starts.                                                 *)
Spawn ==
    /\ media.at = "gate"
    /\ ~cancelled /\ ~late
    /\ Goes("running")
    /\ UNCHANGED Waits

(* Mutation of TryAgain: the next attempt meets what this one left. *)
TryAgainOver(class, fs) ==
    \/ Fails(class, fs)
    \/ /\ media.retry + 1 < Attempts
       /\ ~cancelled /\ ~late
       /\ files' = fs
       /\ media' = [media EXCEPT !.at = "pause", !.retry = @ + 1]
       /\ UNCHANGED <<todo, outputs, errors, pass>>

(* A failure that may pass: another attempt, when one is left and it can   *)
(* begin before the deadline.  Its outputs are removed first.              *)
TryAgain(class, fs) ==
    \/ Fails(class, fs)
    \/ /\ media.retry + 1 < Attempts
       /\ ~cancelled /\ ~late
       /\ files' = Without(media.outs)
       /\ media' = [media EXCEPT !.at = "pause", !.retry = @ + 1]
       /\ UNCHANGED <<todo, outputs, errors, pass>>

SpawnFails ==
    /\ media.at = "gate"
    /\ ~cancelled /\ ~late
    /\ TryAgain("other", files)
    /\ UNCHANGED <<case, held, late, cancelled, fate>>

(* The child exits.  Without -y it refuses to replace a file.              *)
ChildSucceeds ==
    /\ media.at = "running"
    /\ media.outs \cap DOMAIN files = {}
    /\ Produced

Partial == {Written(left, FALSE) : left \in SUBSET (media.outs \ DOMAIN files)}

ChildFails ==
    /\ media.at = "running"
    /\ \E fs \in Partial : TryAgain("decode", fs)
    /\ UNCHANGED <<case, held, late, cancelled, fate>>

(* Mutation of Killed: the deadline is only looked at before a child starts. *)
KilledWhenCancelled ==
    /\ media.at = "running"
    /\ cancelled
    /\ \E fs \in Partial : Fails("other", fs)
    /\ UNCHANGED <<case, held, late, cancelled, fate>>

(* The poll finds the flag or the deadline: the child is killed and reaped. *)
Killed ==
    /\ media.at = "running"
    /\ cancelled \/ late
    /\ \E fs \in Partial : Fails("other", fs)
    /\ UNCHANGED <<case, held, late, cancelled, fate>>

(* The backoff, which holds no permit, is over.                            *)
Resume ==
    /\ media.at = "pause"
    /\ \/ cancelled /\ FailCall("other")
       \/ ~cancelled /\ Goes("gate") /\ UNCHANGED <<todo, files, outputs, errors, pass>>
    /\ UNCHANGED <<case, held, late, cancelled, fate>>

-----------------------------------------------------------------------------
CancelResource ==
    /\ fate = "working"
    /\ ~cancelled
    /\ cancelled' = TRUE
    /\ UNCHANGED <<case, todo, files, outputs, held, errors, pass, media, late, fate>>

Expire ==
    /\ media.at # "off"
    /\ ~late
    /\ late' = TRUE
    /\ UNCHANGED <<case, todo, files, outputs, held, errors, pass, media, cancelled, fate>>

Finished == fate = "working" /\ media.at = "off" /\ todo = <<>>

(* The staging directory is renamed to its place, or goes.                 *)
Keep ==
    /\ Finished
    /\ errors = {}
    /\ case.retain
    /\ fate' = "kept"
    /\ UNCHANGED <<case, todo, files, outputs, held, errors, pass, media, late, cancelled>>

Discard ==
    /\ Finished
    /\ fate' = "dropped"
    /\ files' = <<>>
    /\ UNCHANGED <<case, todo, outputs, held, errors, pass, media, late, cancelled>>

ResourceInit ==
    /\ case \in Cases
    /\ todo = ProcessResource
    /\ files = <<>>
    /\ outputs = <<>>
    /\ held = [bytes |-> 0, objects |-> {}]
    /\ errors = {}
    /\ pass = "none"
    /\ media = Quiet
    /\ late = FALSE
    /\ cancelled \in BOOLEAN
    /\ fate = "working"

Calls ==
    \/ DoLook \/ DoTry \/ DoFits \/ DoMake \/ DoRecord \/ DoDrop \/ DoOpen \/ DoObject
    \/ DoObjectEnd \/ DoHold \/ DoMerge \/ DoUsm \/ DoUsmEnd \/ DoRun \/ DoEncode
    \/ Keep \/ Discard

(* What happens to a command without the child's doing.                    *)
Commands ==
    \/ Refused \/ Staged \/ Spawn \/ SpawnFails \/ Killed \/ Resume

Child == ChildSucceeds \/ ChildFails

-----------------------------------------------------------------------------
(* Properties *)

Marks == {"none", "masked", "plain"}
Stops == {"off", "stage", "ffiGate", "ffi", "gate", "running", "pause"}

ResourceTypes ==
    /\ case \in Case
    /\ \A f \in DOMAIN files : f \in Names /\ files[f] \in [whole : BOOLEAN, pass : Marks]
    /\ \A n \in DOMAIN outputs : outputs[n] \in [file : Names, pass : Marks]
    /\ held.bytes \in Nat /\ held.objects \subseteq DOMAIN case.objects
    /\ errors \subseteq 0 .. Len(case.objects)
    /\ pass \in Marks
    /\ media.at \in Stops /\ media.retry < Attempts
    /\ late \in BOOLEAN /\ cancelled \in BOOLEAN
    /\ fate \in {"working", "kept", "dropped"}

(* What is reported fits into the limit of the resource, no file is listed *)
(* twice, and its bytes are still those that were listed.                  *)
ReportHolds ==
    /\ Total <= case.room
    /\ Cardinality(Recorded) = Len(outputs)
    /\ fate = "working" => \A n \in DOMAIN outputs :
         /\ outputs[n].file \in DOMAIN files
         /\ files[outputs[n].file] = [whole |-> TRUE, pass |-> outputs[n].pass]

(* An attempt never meets the output of an earlier one: FFmpeg would refuse *)
(* to replace it.                                                          *)
FreshAttempt == media.at \in {"ffi", "running"} => media.outs \cap DOMAIN files = {}

(* The two passes over a USM do not mix.                                   *)
OnePass ==
    \A f, g \in Recorded : f[1] = g[1] /\ f # g =>
        \A m, n \in DOMAIN outputs :
            outputs[m].file = f /\ outputs[n].file = g => outputs[m].pass = outputs[n].pass

(* The files that a configuration asks for.                                *)
OfAudio(dir, stem) ==
    {<<dir, stem, e>> : e \in case.audio \cup (IF "flac" \in case.audio THEN {} ELSE {"wav"})}

OfWave(dir, n) ==
    {Nth(dir, n, "cues")} \cup
    (IF case.waves[n] = "stored" THEN {Nth(dir, n, "bin")} ELSE OfAudio(dir, <<"nth", n>>))

OfAcb(dir) ==
    IF case.preserve THEN {File(dir, "container", "acb")}
    ELSE UNION {OfWave(dir, n) : n \in DOMAIN case.waves}

OfUsm(dir) ==
    {File(dir, "video", "m2v"), File(dir, "usm", "json"), File(dir, "mask", "json")}
    \cup (IF case.sound = "none" THEN {} ELSE OfAudio(dir, <<"sound", 0>>))
    \cup {File(dir, "movie", e) : e \in CASE case.video = "both" -> {"mkv", "mp4"}
                                          [] case.video = "source" -> {}
                                          [] OTHER -> {case.video}}

OfImages(stem) == {ImageFile(stem, e) : e \in ToSet(case.images)}

OfObject(n) ==
    LET kind == case.objects[n]
    IN CASE kind = "skipped" -> {}
         [] kind = "plain" -> {OfStem(n, "json")}
         [] kind = "opaque" -> {OfStem(n, "json"), OfStem(n, "object.bin")}
         [] kind = "playable" -> {Playable}
         [] kind = "clip" -> {OfStem(n, "ogg")}
         [] kind = "image" -> OfImages(<<"nth", n>>)
         [] kind = "layers" -> OfImages(<<"layer 0", n>>) \cup OfImages(<<"layer 1", n>>)
         [] kind = "bank" -> {OfStem(n, "json")} \cup OfAcb(BankDir(n))

OfCri ==
    IF case.container = "acb" THEN OfAcb(Root)
    ELSE IF case.preserve THEN {File(Root, "container", "usm")}
    ELSE IF case.container = "usm" THEN OfUsm(Root)
    ELSE OfUsm(Dir("color")) \cup OfUsm(Dir("alpha"))

OfRaw == {File(Dir("raw"), "bundle", "ab")}

Promised ==
    (IF case.raw = "no" THEN {} ELSE OfRaw)
    \cup (IF case.raw = "only" THEN {}
          ELSE IF case.provider = "unity" THEN UNION {OfObject(n) : n \in DOMAIN case.objects}
          ELSE OfCri)

(* A resource that is kept has all files that its configuration asks for,  *)
(* whole, each in the report, and nothing else: no file of a failed        *)
(* attempt, of the pass that failed or that only served to make another.   *)
KeptIsReport == fate = "kept" =>
    /\ DOMAIN files = Promised
    /\ Recorded = Promised
    /\ \A f \in DOMAIN files : files[f].whole
    /\ errors = {}

ResourceInv == ResourceTypes /\ ReportHolds /\ FreshAttempt /\ OnePass /\ KeptIsReport
=============================================================================
