---------------------------- MODULE Publication ----------------------------
(***************************************************************************)
(* One publication of a verified export (publish_with_progress of          *)
(* src/storage.rs) to several providers, in their order.  The files of a   *)
(* provider are uploaded concurrently, each in a few attempts that need a  *)
(* permit of the gate that all jobs share; every uploaded object is read   *)
(* back.  The versioned layout has a new prefix for each publication and   *)
(* gets complete.json after the turns of all providers.  The stable layout *)
(* is published in place, over what earlier publications left: a file that *)
(* its manifest lists already is neither uploaded nor looked at, and it    *)
(* gets version.json at the end of its turn (StablePublication has its     *)
(* keys and shows how a manifest comes to differ from what is there).  The *)
(* local tree may be removed at the very end.                              *)
(***************************************************************************)
EXTENDS Integers, FiniteSets

CONSTANTS
    N,              \* number of providers
    Stable,         \* those with the stable layout
    Files,
    Attempts,       \* attempts of one object
    Concurrency,    \* uploads in flight
    MaxUploads,     \* permits of the gate of the service
    RemoveLocal     \* remove_local_after_upload

Providers == 1 .. N

ASSUME ProvidersAssumption ==
    /\ N \in Nat \ {0}
    /\ Stable \subseteq Providers
    /\ IsFiniteSet(Files)
    /\ Attempts \in Nat \ {0}
    /\ Concurrency \in Nat \ {0}
    /\ MaxUploads \in Nat \ {0}
    /\ RemoveLocal \in BOOLEAN

VARIABLES
    stage,      \* "reading", "uploading", "version", "markers", "cleanup", "checked",
                \* "done", "failed"
    provider,   \* whose turn it is
    up,         \* the uploads to that provider
    others,     \* permits held by other jobs
    listed,     \* the files that the previous manifest of a provider lists as they are now
    remote,     \* what each provider holds of each file
    marker,     \* complete.json or version.json of each provider
    stop,       \* the stop channel
    local       \* the export: "same" as verified, "changed", "removed"

vars == <<stage, provider, up, others, listed, remote, marker, stop, local>>

(* permit: waiting for the gate; sending; pause: before the next attempt.  *)
InFlight == {"permit", "sending", "pause"}
Upload == [at: {"queued", "ok", "err", "skipped"} \cup InFlight, tries: 0 .. Attempts]
Queued == [f \in Files |-> [at |-> "queued", tries |-> 0]]

At(S) == {f \in Files : up[f].at \in S}
Failed == At({"err"}) # {}      \* the flag that all uploads share

Becomes(f, at) == up' = [up EXCEPT ![f].at = at]
Holds(f, what) == remote' = [remote EXCEPT ![provider][f] = what]
Held == others + Cardinality(At({"sending"}))

-----------------------------------------------------------------------------
(* Uploads *)

Attempt(f) == up' = [up EXCEPT ![f] = [at |-> "permit", tries |-> up[f].tries + 1]]

(* An upload that has not begun when another one failed does not begin.    *)
Begin(f) ==
    /\ stage = "uploading"
    /\ up[f].at = "queued"
    /\ Cardinality(At(InFlight)) < Concurrency
    /\ IF Failed THEN Becomes(f, "err") ELSE Attempt(f)
    /\ UNCHANGED <<stage, provider, others, listed, remote, marker, stop, local>>

Acquire(f) ==
    /\ up[f].at = "permit"
    /\ ~stop
    /\ Held < MaxUploads
    /\ Becomes(f, "sending")
    /\ UNCHANGED <<stage, provider, others, listed, remote, marker, stop, local>>

(* Mutation of Sent: what the store holds is not read back. *)
SentUnread(f) ==
    /\ up[f].at = "sending"
    /\ ~stop
    /\ local = "same"
    /\ \E what \in {"good", "bad"} : Holds(f, what)
    /\ Becomes(f, "ok")
    /\ UNCHANGED <<stage, provider, others, listed, marker, stop, local>>

(* The object is there and was read back.                                  *)
Sent(f) ==
    /\ up[f].at = "sending"
    /\ ~stop
    /\ local = "same"
    /\ Holds(f, "good")
    /\ Becomes(f, "ok")
    /\ UNCHANGED <<stage, provider, others, listed, marker, stop, local>>

(* A file that changed since it was verified, a store that holds something *)
(* else or refuses: not tried again.                                       *)
Rejected(f) ==
    /\ up[f].at = "sending"
    /\ ~stop
    /\ \/ UNCHANGED remote
       \/ Holds(f, "bad")
    /\ Becomes(f, "err")
    /\ UNCHANGED <<stage, provider, others, listed, marker, stop, local>>

(* Mutation of TryAgain: attempts are not counted. *)
TryAgainUncounted(f) == up' = [up EXCEPT ![f] = [at |-> "pause", tries |-> 0]]

(* Mutation of TryAgain: one attempt too many. *)
TryAgainOnceMore(f) == Becomes(f, IF up[f].tries <= Attempts THEN "pause" ELSE "err")

TryAgain(f) == Becomes(f, IF up[f].tries < Attempts THEN "pause" ELSE "err")

(* A timeout, also of the wait for a permit, or a passing failure of the   *)
(* store; the object may be there, or the file may have changed meanwhile. *)
Transport(f) ==
    /\ ~stop
    /\ \/ up[f].at = "permit" /\ UNCHANGED remote
       \/ /\ up[f].at = "sending"
          /\ UNCHANGED remote \/ Holds(f, "bad") \/ (local = "same" /\ Holds(f, "good"))
    /\ TryAgain(f)
    /\ UNCHANGED <<stage, provider, others, listed, marker, stop, local>>

Resume(f) ==
    /\ up[f].at = "pause"
    /\ Attempt(f)
    /\ UNCHANGED <<stage, provider, others, listed, remote, marker, stop, local>>

Cancelled(f) ==
    /\ stop
    /\ up[f].at \in InFlight
    /\ \/ UNCHANGED remote
       \/ up[f].at = "sending" /\ (Holds(f, "bad") \/ (local = "same" /\ Holds(f, "good")))
    /\ Becomes(f, "err")
    /\ UNCHANGED <<stage, provider, others, listed, marker, stop, local>>

-----------------------------------------------------------------------------
(* The publication *)

(* A turn at a stable provider begins with its manifest.                   *)
Starts(p) == IF p \in Stable THEN "reading" ELSE "uploading"

(* Mutation of Skipped: the manifest is asked for the key only. *)
SkippedPresent(p) == {f \in Files : remote[p][f] # "absent"}

Skipped(p) == listed[p]

(* The manifest of the previous publication is all that decides.           *)
ReadManifest ==
    /\ stage = "reading"
    /\ ~stop
    /\ stage' = "uploading"
    /\ up' = [f \in Files |->
                [at |-> IF f \in Skipped(provider) THEN "skipped" ELSE "queued", tries |-> 0]]
    /\ UNCHANGED <<provider, others, listed, remote, marker, stop, local>>

(* It cannot be read or makes no sense, or the publication is cancelled.   *)
ManifestFails ==
    /\ stage = "reading"
    /\ stage' = "failed"
    /\ UNCHANGED <<provider, up, others, listed, remote, marker, stop, local>>

(* The turn of the next provider, or the markers after the last.           *)
NextTurn ==
    /\ provider' = provider + 1
    /\ up' = Queued
    /\ stage' = IF provider = N THEN "markers" ELSE Starts(provider + 1)

(* Mutation of Settled: the first failure ends the publication at once. *)
SettledAtOnce == Failed \/ At({"ok", "skipped"}) = Files

Settled == At({"ok", "err", "skipped"}) = Files

UploadsEnd ==
    /\ stage = "uploading"
    /\ Settled
    /\ \/ Failed /\ stage' = "failed" /\ UNCHANGED <<provider, up>>
       \/ ~Failed /\ provider \in Stable /\ stage' = "version" /\ UNCHANGED <<provider, up>>
       \/ ~Failed /\ provider \notin Stable /\ NextTurn
    /\ UNCHANGED <<others, listed, remote, marker, stop, local>>

Mark(p) == marker' = marker \cup {p}

WriteVersion ==
    /\ stage = "version"
    /\ ~stop
    /\ Mark(provider)
    /\ NextTurn
    /\ UNCHANGED <<others, listed, remote, stop, local>>

(* The next provider that waits for its complete.json.                     *)
ToMark == Providers \ (Stable \cup marker)
NextToMark == {p \in ToMark : \A q \in ToMark : p <= q}

WriteMarker(p) ==
    /\ stage = "markers"
    /\ ~stop
    /\ p \in NextToMark
    /\ Mark(p)
    /\ UNCHANGED <<stage, provider, up, others, listed, remote, stop, local>>

(* A marker or version could not be written, or not be read back.          *)
MarkerFails ==
    /\ stage \in {"version", "markers"}
    /\ \/ UNCHANGED marker
       \/ stage = "version" /\ Mark(provider)
       \/ stage = "markers" /\ \E p \in NextToMark : Mark(p)
    /\ stage' = "failed"
    /\ UNCHANGED <<provider, up, others, listed, remote, stop, local>>

(* Mutation of MarkersEnd: the export goes when the first marker is there. *)
MarkersEndEarly ==
    /\ stage = "markers"
    /\ marker # {}
    /\ stage' = IF stop THEN "failed" ELSE IF RemoveLocal THEN "cleanup" ELSE "done"
    /\ UNCHANGED <<provider, up, others, listed, remote, marker, stop, local>>

MarkersEnd ==
    /\ stage = "markers"
    /\ ToMark = {}
    /\ stage' = IF stop THEN "failed" ELSE IF RemoveLocal THEN "cleanup" ELSE "done"
    /\ UNCHANGED <<provider, up, others, listed, remote, marker, stop, local>>

(* The local tree is verified again before it goes.                        *)
CheckLocal ==
    /\ stage = "cleanup"
    /\ stage' = IF local = "same" /\ ~stop THEN "checked" ELSE "failed"
    /\ UNCHANGED <<provider, up, others, listed, remote, marker, stop, local>>

RemoveTree ==
    /\ stage = "checked"
    /\ local' = "removed"
    /\ stage' = "done"
    /\ UNCHANGED <<provider, up, others, listed, remote, marker, stop>>

-----------------------------------------------------------------------------
(* Others: jobs at the gate, the user, whoever changes the export *)

OtherJob ==
    /\ \/ others' = others + 1 /\ Held < MaxUploads
       \/ others' = others - 1 /\ others > 0
    /\ UNCHANGED <<stage, provider, up, listed, remote, marker, stop, local>>

Stop ==
    /\ ~stop
    /\ stop' = TRUE
    /\ UNCHANGED <<stage, provider, up, others, listed, remote, marker, local>>

ChangeLocal ==
    /\ local = "same"
    /\ stage # "checked"
    /\ local' = "changed"
    /\ UNCHANGED <<stage, provider, up, others, listed, remote, marker, stop>>

-----------------------------------------------------------------------------
(* Below a stable prefix earlier publications, some of them interrupted,   *)
(* left a manifest and objects that it may describe or not.                *)
Init ==
    /\ stage = Starts(1)
    /\ provider = 1
    /\ up = Queued
    /\ others = 0
    /\ listed \in [Providers -> SUBSET Files]
    /\ \A p \in Providers \ Stable : listed[p] = {}
    /\ remote \in [Providers -> [Files -> {"absent", "good", "bad"}]]
    /\ \A p \in Providers \ Stable : \A f \in Files : remote[p][f] = "absent"
    /\ marker = {}
    /\ stop = FALSE
    /\ local = "same"

UploadNext(f) ==
    \/ Begin(f) \/ Acquire(f) \/ Sent(f) \/ Rejected(f) \/ Transport(f)
    \/ Resume(f) \/ Cancelled(f)

PublishNext ==
    \/ ReadManifest \/ ManifestFails
    \/ UploadsEnd \/ WriteVersion \/ MarkerFails \/ MarkersEnd \/ CheckLocal \/ RemoveTree
    \/ \E p \in Providers : WriteMarker(p)

Next ==
    \/ \E f \in Files : UploadNext(f)
    \/ PublishNext
    \/ OtherJob \/ Stop \/ ChangeLocal

Spec == Init /\ [][Next]_vars

(* The publication and its uploads run, and every call of them has a       *)
(* deadline; nothing is assumed of the other jobs at the gate.             *)
FairSpec == Spec /\ WF_vars(PublishNext) /\ \A f \in Files : WF_vars(UploadNext(f))

-----------------------------------------------------------------------------
(* Properties *)

\* Every variable has its type.
TypeOK ==
    /\ stage \in {"reading", "uploading", "version", "markers", "cleanup", "checked", "done",
                  "failed"}
    /\ provider \in 1 .. N + 1
    /\ stage \in {"reading", "uploading"} => provider \in Providers
    /\ up \in [Files -> Upload]
    /\ others \in 0 .. MaxUploads
    /\ listed \in [Providers -> SUBSET Files]
    /\ remote \in [Providers -> [Files -> {"absent", "good", "bad"}]]
    /\ marker \subseteq Providers
    /\ stop \in BOOLEAN
    /\ local \in {"same", "changed", "removed"}

(* A provider has every file, read back, but for what the manifest of a    *)
(* stable one listed before: that is taken on its word.                    *)
Verified(p) == \A f \in Files : f \in listed[p] \/ remote[p][f] = "good"

\* complete.json says that its provider holds every file, read back, and that
\* every other provider holds every file that its manifest did not list; the
\* version.json of a stable provider says so of that provider only.
MarkersTellTruth ==
    \A p \in marker : Verified(p) /\ (p \notin Stable => \A q \in Providers : Verified(q))

\* The local export goes last: only when every provider says that it holds
\* every file and holds those that no manifest listed before.
LocalGoesLast ==
    local = "removed" => marker = Providers /\ \A p \in Providers : Verified(p)

\* A publication that returned has nothing in flight that could still change
\* a provider, and no permit of the gate (publish_with_progress drains).
NothingLeftBehind ==
    stage \in {"done", "failed"} => At(InFlight) = {}

\* A publication ends, even when other jobs never give a permit back.
Ends == <>(stage \in {"done", "failed"})
\* Types, and what a publication that returns leaves.
Inv == TypeOK /\ LocalGoesLast /\ NothingLeftBehind
=============================================================================
