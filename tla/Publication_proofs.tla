------------------------- MODULE Publication_proofs -------------------------
(***************************************************************************)
(* One publication, proved for every number of providers of either layout, *)
(* every set of files, whatever stable prefixes hold before and whatever   *)
(* their manifests list, any limits of the attempts, the uploads in flight *)
(* and the permits, and whatever the stores, the other jobs and those who  *)
(* change the export do; and the signer of its requests, for every history *)
(* of the credential file.                                                 *)
(***************************************************************************)
EXTENDS Publication, StorageSigner, FiniteSetTheorems, TLAPS

StageType ==
    stage \in {"reading", "uploading", "version", "markers", "cleanup", "checked", "done", "failed"}

Types ==
    /\ StageType
    /\ provider \in 1 .. N + 1
    /\ up \in [Files -> Upload]
    /\ listed \in [Providers -> SUBSET Files]
    /\ remote \in [Providers -> [Files -> {"absent", "good", "bad"}]]
    /\ marker \subseteq Providers
    /\ stop \in BOOLEAN
    /\ local \in {"same", "changed", "removed"}

OthersType == others \in 0 .. MaxUploads

(* The turn of a provider: an upload that ended well left the file there,  *)
(* the manifest lists what is skipped, and an attempt is left for one that *)
(* pauses.                                                                 *)
TurnUnderWay == stage \in {"reading", "uploading", "version"}

UploadSound(f) ==
    /\ up[f].at = "queued" => up[f].tries = 0
    /\ up[f].at = "pause" => up[f].tries < Attempts
    /\ up[f].at = "ok" /\ TurnUnderWay => remote[provider][f] = "good"
    /\ up[f].at = "skipped" /\ TurnUnderWay => f \in listed[provider]
    /\ up[f].at \in InFlight => stage = "uploading"
    /\ stage = "version" => up[f].at \in {"ok", "skipped"}

UploadsSound == \A f \in Files : UploadSound(f)

(* The turns: who had theirs is verified, and a stable one says so.        *)
TurnsSound ==
    /\ TurnUnderWay => provider \in Providers
    /\ stage \in {"reading", "version"} => provider \in Stable
    /\ stage \in {"markers", "cleanup", "checked", "done"} => provider = N + 1
    /\ \A p \in Providers : p < provider => Verified(p) /\ (p \in Stable => p \in marker)

(* While turns go on, only stable providers that had theirs have a marker. *)
MarkersSound ==
    /\ TurnUnderWay => \A p \in marker : p < provider /\ p \in Stable
    /\ MarkersTellTruth

LocalSound ==
    /\ stage \in {"cleanup", "checked"} => marker = Providers
    /\ local = "removed" => stage = "done" /\ marker = Providers

IInv ==
    /\ Types
    /\ UploadsSound
    /\ TurnsSound
    /\ MarkersSound
    /\ LocalSound

-----------------------------------------------------------------------------
LEMMA InitIInv == Init => IInv
<1> SUFFICES ASSUME Init PROVE IInv
    OBVIOUS
<1>1. 1 \in Providers /\ N \in Nat /\ Attempts \in Nat \ {0}
      /\ stage \in {"reading", "uploading"} /\ (stage = "reading" => 1 \in Stable)
    BY ProvidersAssumption DEF Providers, Init, Starts
<1>2. up \in [Files -> Upload] /\ \A f \in Files : up[f].at = "queued" /\ up[f].tries = 0
    BY <1>1 DEF Init, Queued, Upload
<1>3. Types
    <2>1. 1 \in 1 .. N + 1
        BY <1>1
    <2> QED BY <1>1, <1>2, <2>1 DEF Init, Types, StageType
<1>4. UploadsSound
    BY <1>1, <1>2 DEF UploadsSound, UploadSound, InFlight, Init
<1>5. TurnsSound
    BY <1>1 DEF TurnsSound, TurnUnderWay, Init, Providers
<1> QED BY <1>1, <1>3, <1>4, <1>5 DEF Init, IInv, MarkersSound, MarkersTellTruth, LocalSound

(* An upload in flight belongs to the turn of a provider.                  *)
LEMMA FlightStage ==
    ASSUME IInv, NEW f \in Files, up[f].at \in InFlight
    PROVE  /\ stage = "uploading" /\ provider \in Providers /\ provider \notin marker
           /\ \A p \in Providers : p < provider => p # provider
BY ProvidersAssumption DEF IInv, UploadsSound, UploadSound, TurnsSound, TurnUnderWay, MarkersSound, Providers

(* One upload moves while a turn goes on: what the provider holds of its   *)
(* file may change, and it is not settled well without the file.           *)
LEMMA UploadMoves ==
    ASSUME IInv, NEW f \in Files, stage = "uploading",
           NEW u \in Upload, up' = [up EXCEPT ![f] = u],
           NEW what \in {"absent", "good", "bad"}, remote' = [remote EXCEPT ![provider][f] = what],
           u.at = "queued" => u.tries = 0, u.at = "pause" => u.tries < Attempts,
           u.at = "ok" => what = "good", u.at # "skipped",
           UNCHANGED <<stage, provider, listed, marker, stop, local>>
    PROVE  IInv'
<1>1. provider \in Providers /\ provider \notin marker
    BY ProvidersAssumption DEF IInv, TurnsSound, TurnUnderWay, MarkersSound, Providers
<1>2. /\ up'[f] = u /\ \A g \in Files : g # f => up'[g] = up[g]
      /\ up' \in [Files -> Upload]
    BY DEF IInv, Types
<1>3. /\ remote' \in [Providers -> [Files -> {"absent", "good", "bad"}]]
      /\ remote'[provider][f] = what
      /\ \A g \in Files : g # f => remote'[provider][g] = remote[provider][g]
      /\ \A p \in Providers : p # provider => remote'[p] = remote[p]
    BY <1>1 DEF IInv, Types
<1>4. Types'
    BY <1>2, <1>3 DEF IInv, Types, StageType
<1>5. UploadsSound'
    <2> SUFFICES ASSUME NEW g \in Files PROVE UploadSound(g)'
        BY DEF UploadsSound
    <2>1. CASE g = f
        BY <1>2, <1>3, <2>1 DEF UploadSound, TurnUnderWay
    <2>2. CASE g # f
        BY <1>2, <1>3, <2>2 DEF IInv, UploadsSound, UploadSound, TurnUnderWay
    <2> QED BY <2>1, <2>2
<1>6. \A p \in Providers : p # provider /\ Verified(p) => Verified(p)'
    BY <1>3 DEF Verified
<1>7. \A p \in Providers : p < provider => p # provider
    BY ProvidersAssumption DEF Providers
<1>8. TurnsSound'
    BY <1>6, <1>7 DEF IInv, TurnsSound, TurnUnderWay
<1>9. MarkersSound'
    <2>1. \A p \in marker : p \in Stable /\ p < provider /\ p \in Providers
        BY DEF IInv, MarkersSound, TurnUnderWay, Types
    <2>2. \A p \in marker : Verified(p)'
        BY <2>1, <1>6, <1>7 DEF IInv, MarkersSound, MarkersTellTruth
    <2> QED BY <2>1, <2>2 DEF MarkersSound, MarkersTellTruth, TurnUnderWay
<1>10. LocalSound'
    BY DEF IInv, LocalSound
<1> QED BY <1>4, <1>5, <1>8, <1>9, <1>10 DEF IInv

(* The same when the provider's objects stay as they are.                  *)
LEMMA UploadStays ==
    ASSUME IInv, NEW f \in Files, stage = "uploading",
           NEW u \in Upload, up' = [up EXCEPT ![f] = u], UNCHANGED remote,
           u.at = "queued" => u.tries = 0, u.at = "pause" => u.tries < Attempts,
           u.at \notin {"ok", "skipped"},
           UNCHANGED <<stage, provider, listed, marker, stop, local>>
    PROVE  IInv'
<1>1. provider \in Providers
    BY DEF IInv, TurnsSound, TurnUnderWay
<1>2. /\ remote[provider][f] \in {"absent", "good", "bad"}
      /\ remote' = [remote EXCEPT ![provider][f] = remote[provider][f]]
    BY <1>1 DEF IInv, Types
<1> QED BY <1>2, UploadMoves

LEMMA UploadTypes ==
    ASSUME IInv, NEW f \in Files
    PROVE  /\ up[f] \in Upload /\ up[f].tries \in 0 .. Attempts /\ Attempts \in Nat \ {0}
           /\ \A at \in {"queued", "ok", "err", "skipped"} \cup InFlight :
                /\ [up[f] EXCEPT !.at = at] \in Upload
                /\ [up[f] EXCEPT !.at = at].at = at
                /\ [up[f] EXCEPT !.at = at].tries = up[f].tries
                /\ Becomes(f, at) => up' = [up EXCEPT ![f] = [up[f] EXCEPT !.at = at]]
BY ProvidersAssumption DEF IInv, Types, Upload, Becomes

(* An attempt begins only where one is left.                               *)
LEMMA AttemptIInv ==
    ASSUME IInv, NEW f \in Files, stage = "uploading", up[f].at \in {"queued", "pause"}, Attempt(f),
           UNCHANGED <<stage, provider, listed, remote, marker, stop, local>>
    PROVE  IInv'
<1> DEFINE u == [at |-> "permit", tries |-> up[f].tries + 1]
<1>1. up[f].tries \in 0 .. Attempts /\ up[f].tries < Attempts /\ Attempts \in Nat
    BY UploadTypes DEF IInv, UploadsSound, UploadSound
<1>2. u \in Upload /\ u.at = "permit"
    BY <1>1 DEF Upload, InFlight
<1>3. up' = [up EXCEPT ![f] = u]
    BY DEF Attempt
<1> HIDE DEF u
<1> QED BY <1>2, <1>3, UploadStays

(* What an upload becomes without a change of what is held.                *)
LEMMA BecomesIInv ==
    ASSUME IInv, NEW f \in Files, stage = "uploading",
           NEW at \in {"permit", "sending", "pause", "err"}, Becomes(f, at),
           at = "pause" => up[f].tries < Attempts,
           UNCHANGED <<stage, provider, listed, remote, marker, stop, local>>
    PROVE  IInv'
<1> DEFINE u == [up[f] EXCEPT !.at = at]
<1>1. /\ u \in Upload /\ u.at = at /\ u.tries = up[f].tries
      /\ up' = [up EXCEPT ![f] = u]
    BY UploadTypes DEF InFlight
<1> HIDE DEF u
<1> QED BY <1>1, UploadStays

LEMMA HoldsIInv ==
    ASSUME IInv, NEW f \in Files, stage = "uploading",
           NEW at \in {"pause", "ok", "err"}, Becomes(f, at),
           at = "pause" => up[f].tries < Attempts,
           NEW what \in {"good", "bad"}, Holds(f, what), at = "ok" => what = "good",
           UNCHANGED <<stage, provider, listed, marker, stop, local>>
    PROVE  IInv'
<1> DEFINE u == [up[f] EXCEPT !.at = at]
<1>1. /\ u \in Upload /\ u.at = at /\ u.tries = up[f].tries
      /\ up' = [up EXCEPT ![f] = u]
    BY UploadTypes DEF InFlight
<1> HIDE DEF u
<1> QED BY <1>1, UploadMoves DEF Holds

LEMMA UploadIInv ==
    ASSUME IInv, NEW f \in Files, UploadNext(f)
    PROVE  IInv'
<1>1. CASE Begin(f)
    <2>1. CASE Failed
        BY <1>1, <2>1, BecomesIInv DEF Begin
    <2>2. CASE ~Failed
        BY <1>1, <2>2, AttemptIInv DEF Begin
    <2> QED BY <2>1, <2>2
<1>2. CASE Acquire(f)
    BY <1>2, FlightStage, BecomesIInv DEF Acquire, InFlight
<1>3. CASE Sent(f)
    BY <1>3, FlightStage, HoldsIInv DEF Sent, InFlight
<1>4. CASE Rejected(f)
    <2>1. stage = "uploading"
        BY <1>4, FlightStage DEF Rejected, InFlight
    <2>2. CASE UNCHANGED remote
        BY <1>4, <2>1, <2>2, BecomesIInv DEF Rejected
    <2>3. CASE Holds(f, "bad")
        BY <1>4, <2>1, <2>3, HoldsIInv DEF Rejected
    <2> QED BY <1>4, <2>2, <2>3 DEF Rejected
<1>5. CASE Transport(f)
    <2>1. stage = "uploading"
        BY <1>5, FlightStage DEF Transport, InFlight
    <2>2. PICK at \in {"pause", "err"} : Becomes(f, at) /\ (at = "pause" => up[f].tries < Attempts)
        BY <1>5 DEF Transport, TryAgain
    <2>3. CASE UNCHANGED remote
        BY <1>5, <2>1, <2>2, <2>3, BecomesIInv DEF Transport
    <2>4. ASSUME NEW what \in {"good", "bad"}, Holds(f, what) PROVE IInv'
        BY <1>5, <2>1, <2>2, <2>4, HoldsIInv DEF Transport
    <2> QED BY <1>5, <2>3, <2>4 DEF Transport
<1>6. CASE Resume(f)
    BY <1>6, FlightStage, AttemptIInv DEF Resume, InFlight
<1>7. CASE Cancelled(f)
    <2>1. stage = "uploading"
        BY <1>7, FlightStage DEF Cancelled
    <2>2. CASE UNCHANGED remote
        BY <1>7, <2>1, <2>2, BecomesIInv DEF Cancelled
    <2>3. ASSUME NEW what \in {"good", "bad"}, Holds(f, what) PROVE IInv'
        BY <1>7, <2>1, <2>3, HoldsIInv DEF Cancelled
    <2> QED BY <1>7, <2>2, <2>3 DEF Cancelled
<1> QED BY <1>1, <1>2, <1>3, <1>4, <1>5, <1>6, <1>7 DEF UploadNext

-----------------------------------------------------------------------------
(* The steps of the publication *)

(* All uploads of a turn settled or were skipped, none of them badly.      *)
LEMMA TurnDone ==
    ASSUME IInv, stage = "uploading", Settled, ~Failed
    PROVE  (\A f \in Files : up[f].at \in {"ok", "skipped"}) /\ Verified(provider)
<1>1. \A f \in Files : up[f].at \in {"ok", "skipped"}
    BY DEF Settled, Failed, At
<1> QED BY <1>1 DEF IInv, UploadsSound, UploadSound, TurnUnderWay, Verified

(* The manifest decides which uploads begin.                               *)
LEMMA ReadingIInv ==
    ASSUME IInv, ReadManifest \/ ManifestFails
    PROVE  IInv'
<1>1. /\ stage = "reading" /\ stage' \in {"uploading", "failed"}
      /\ UNCHANGED <<provider, listed, remote, marker, stop, local>>
    BY DEF ReadManifest, ManifestFails
<1>2. Attempts \in Nat \ {0}
    BY ProvidersAssumption
<1>3. up' \in [Files -> Upload] /\ UploadsSound'
    <2>1. CASE ReadManifest
        <3>1. /\ stage' = "uploading"
              /\ up' = [f \in Files |->
                           [at |-> IF f \in listed[provider] THEN "skipped" ELSE "queued",
                            tries |-> 0]]
            BY <2>1 DEF ReadManifest, Skipped
        <3>2. \A f \in Files :
                 /\ up'[f] \in Upload /\ up'[f].tries = 0
                 /\ up'[f].at \in {"skipped", "queued"}
                 /\ up'[f].at = "skipped" => f \in listed[provider]
            BY <1>2, <3>1 DEF Upload
        <3>3. up' \in [Files -> Upload]
            BY <3>1, <3>2
        <3> QED BY <1>1, <3>1, <3>2, <3>3 DEF UploadsSound, UploadSound, InFlight
    <2>2. CASE ManifestFails
        BY <1>1, <2>2 DEF ManifestFails, IInv, Types, UploadsSound, UploadSound, TurnUnderWay
    <2> QED BY <2>1, <2>2
<1>4. \A p \in Providers : Verified(p)' <=> Verified(p)
    BY <1>1 DEF Verified
<1>5. Types' /\ LocalSound'
    BY <1>1, <1>3 DEF IInv, Types, StageType, LocalSound
<1>6. TurnsSound' /\ MarkersSound'
    BY <1>1, <1>4 DEF IInv, Types, TurnsSound, MarkersSound, MarkersTellTruth, TurnUnderWay
<1> QED BY <1>3, <1>5, <1>6 DEF IInv

(* The next turn begins when the provider is verified and, with the stable *)
(* layout, has its version.                                                *)
LEMMA NextTurnIInv ==
    ASSUME IInv, TurnUnderWay, Verified(provider), NextTurn,
           \/ marker' = marker /\ provider \notin Stable
           \/ marker' = marker \cup {provider} /\ provider \in Stable,
           UNCHANGED <<listed, remote, stop, local>>
    PROVE  IInv'
<1>1. /\ N \in Nat \ {0} /\ Attempts \in Nat \ {0} /\ Stable \subseteq Providers
      /\ provider \in 1 .. N /\ Providers = 1 .. N
    BY ProvidersAssumption DEF IInv, TurnsSound, Providers
<1>2. up' \in [Files -> Upload] /\ \A f \in Files : up'[f].at = "queued" /\ up'[f].tries = 0
    BY <1>1 DEF NextTurn, Queued, Upload
<1>3. /\ provider' = provider + 1 /\ provider' \in 1 .. N + 1
      /\ stage' = IF provider = N THEN "markers" ELSE Starts(provider + 1)
      /\ stage' \in {"markers", "reading", "uploading"}
      /\ stage' = "reading" => provider' \in Stable
      /\ stage' = "markers" <=> provider = N
    BY <1>1 DEF NextTurn, Starts
<1>4. Types'
    BY <1>1, <1>2, <1>3 DEF IInv, Types, StageType
<1>5. UploadsSound'
    BY <1>2, <1>3 DEF UploadsSound, UploadSound, InFlight
<1>6. \A p \in Providers : Verified(p)' <=> Verified(p)
    BY DEF Verified
<1>7. TurnsSound'
    <2>1. \A p \in Providers : p < provider' => p < provider \/ p = provider
        BY <1>1, <1>3
    <2>2. \A p \in Providers : p < provider' => Verified(p)' /\ (p \in Stable => p \in marker')
        BY <1>6, <2>1 DEF IInv, TurnsSound
    <2> QED BY <1>1, <1>3, <2>2 DEF TurnsSound, TurnUnderWay
<1>8. MarkersSound'
    <2>1. \A p \in marker : p \in Stable /\ p < provider /\ Verified(p)
        BY DEF IInv, MarkersSound, MarkersTellTruth
    <2>2. provider < provider + 1 /\ \A p \in 1 .. N : p < provider => p < provider + 1
        BY <1>1
    <2>3. \A p \in marker : p < provider'
        <3>1. marker \subseteq 1 .. N
            BY <1>1 DEF IInv, Types
        <3> QED BY <1>3, <2>1, <2>2, <3>1
    <2>4. \A p \in marker' : p \in marker \/ (p = provider /\ provider \in Stable)
        OBVIOUS
    <2>5. \A p \in marker' : p \in Stable /\ Verified(p) /\ p < provider'
        BY <1>3, <2>1, <2>2, <2>3, <2>4
    <2> QED BY <1>1, <1>6, <2>5 DEF MarkersSound, MarkersTellTruth
<1>9. LocalSound'
    BY <1>3 DEF IInv, LocalSound, TurnUnderWay
<1> QED BY <1>4, <1>5, <1>7, <1>8, <1>9 DEF IInv

LEMMA UploadsEndIInv ==
    ASSUME IInv, UploadsEnd
    PROVE  IInv'
<1>1. CASE ~Failed /\ provider \notin Stable /\ NextTurn
    BY <1>1, TurnDone, NextTurnIInv DEF UploadsEnd, TurnUnderWay
<1>2. CASE Failed /\ stage' = "failed" /\ UNCHANGED <<provider, up>>
    <2>1. \A f \in Files : up[f].at \notin InFlight
        BY DEF UploadsEnd, Settled, At, InFlight
    <2>2. \A p \in Providers : Verified(p)' <=> Verified(p)
        BY DEF UploadsEnd, Verified
    <2>3. TurnsSound' /\ MarkersSound'
        BY <1>2, <2>2 DEF UploadsEnd, IInv, Types, TurnsSound, MarkersSound, MarkersTellTruth, TurnUnderWay
    <2> QED BY <1>2, <2>1, <2>3 DEF UploadsEnd, IInv, Types, StageType, UploadsSound, UploadSound,
        TurnUnderWay, LocalSound
<1>3. CASE ~Failed /\ provider \in Stable /\ stage' = "version" /\ UNCHANGED <<provider, up>>
    <2>1. \A f \in Files : up[f].at \in {"ok", "skipped"}
        BY <1>3, TurnDone DEF UploadsEnd
    <2>2. \A p \in Providers : Verified(p)' <=> Verified(p)
        BY DEF UploadsEnd, Verified
    <2>3. TurnsSound' /\ MarkersSound'
        BY <1>3, <2>2 DEF UploadsEnd, IInv, Types, TurnsSound, MarkersSound, MarkersTellTruth, TurnUnderWay
    <2> QED BY <1>3, <2>1, <2>3 DEF UploadsEnd, IInv, Types, StageType, UploadsSound, UploadSound,
        TurnUnderWay, LocalSound, InFlight
<1> QED BY <1>1, <1>2, <1>3 DEF UploadsEnd

LEMMA VersionVerified ==
    ASSUME IInv, stage = "version"
    PROVE  TurnUnderWay /\ Verified(provider) /\ provider \in Providers /\ provider \in Stable
BY DEF IInv, UploadsSound, UploadSound, TurnsSound, TurnUnderWay, Verified

(* After the turns every provider is verified.                             *)
LEMMA AllVerified ==
    ASSUME IInv, stage \in {"markers", "cleanup", "checked", "done"}
    PROVE  /\ \A p \in Providers : Verified(p) /\ (p \in Stable => p \in marker)
           /\ \A f \in Files : up[f].at \notin InFlight
<1>1. \A p \in Providers : p < provider
    BY ProvidersAssumption DEF IInv, TurnsSound, Providers
<1> QED BY <1>1 DEF IInv, TurnsSound, UploadsSound, UploadSound

(* The steps after the uploads, whatever they do to the markers.           *)
LEMMA LaterIInv ==
    ASSUME IInv, stage \in {"version", "markers", "cleanup", "checked"},
           stage' \in {"markers", "cleanup", "checked", "done", "failed"},
           stage = "version" => stage' = "failed",
           marker \subseteq marker', marker' \subseteq Providers,
           \A p \in marker' \ marker : Verified(p) /\ (p \notin Stable => stage = "markers"),
           stage' \in {"cleanup", "checked", "done"} /\ (stage' = "done" => local' = "removed") =>
               marker' = Providers,
           local' = local \/ (local' = "removed" /\ stage' = "done"),
           UNCHANGED <<provider, up, listed, remote, stop>>
    PROVE  IInv'
<1>1. \A p \in Providers : Verified(p)' <=> Verified(p)
    BY DEF Verified
<1>2. \A f \in Files : up[f].at \notin InFlight
    BY DEF IInv, UploadsSound, UploadSound
<1>3. Types'
    BY DEF IInv, Types, StageType
<1>4. UploadsSound'
    BY <1>2 DEF IInv, UploadsSound, UploadSound, TurnUnderWay
<1>5. TurnsSound'
    BY <1>1 DEF IInv, TurnsSound, TurnUnderWay
<1>6. MarkersSound'
    <2>1. ASSUME NEW p \in marker'
          PROVE  Verified(p) /\ (p \notin Stable => \A q \in Providers : Verified(q))
        <3>1. CASE p \in marker
            BY <3>1 DEF IInv, MarkersSound, MarkersTellTruth
        <3>2. CASE p \notin marker
            BY <3>2, AllVerified
        <3> QED BY <3>1, <3>2
    <2>2. MarkersTellTruth'
        BY <1>1, <2>1 DEF MarkersTellTruth
    <2> QED BY <2>2 DEF MarkersSound, TurnUnderWay
<1>7. LocalSound'
    BY DEF IInv, LocalSound
<1> QED BY <1>3, <1>4, <1>5, <1>6, <1>7 DEF IInv

LEMMA PublishIInv ==
    ASSUME IInv, PublishNext
    PROVE  IInv'
<1>0. CASE ReadManifest \/ ManifestFails
    BY <1>0, ReadingIInv
<1>1. CASE UploadsEnd
    BY <1>1, UploadsEndIInv
<1>2. CASE WriteVersion
    <2>1. stage = "version" /\ marker' = marker \cup {provider}
        BY <1>2 DEF WriteVersion, Mark
    <2> QED BY <1>2, <2>1, VersionVerified, NextTurnIInv DEF WriteVersion
<1>3. ASSUME NEW p \in Providers, WriteMarker(p) PROVE IInv'
    <2>1. stage = "markers" /\ stage' = "markers" /\ marker' = marker \cup {p}
        BY <1>3 DEF WriteMarker, Mark
    <2>2. marker' \subseteq Providers
        BY <2>1 DEF IInv, Types
    <2>3. Verified(p)
        BY <2>1, AllVerified
    <2> QED BY <1>3, <2>1, <2>2, <2>3, LaterIInv DEF WriteMarker
<1>4. CASE MarkerFails
    <2>1. stage \in {"version", "markers"} /\ stage' = "failed"
        BY <1>4 DEF MarkerFails
    <2>2. /\ marker \subseteq marker' /\ marker' \subseteq Providers
          /\ \A p \in marker' \ marker : Verified(p) /\ (p \notin Stable => stage = "markers")
        <3>1. marker \subseteq Providers
            BY DEF IInv, Types
        <3>2. CASE UNCHANGED marker
            BY <3>1, <3>2
        <3>3. CASE stage = "version" /\ Mark(provider)
            BY <3>1, <3>3, VersionVerified DEF Mark
        <3>4. CASE stage = "markers" /\ \E p \in NextToMark : Mark(p)
            BY <3>1, <3>4, AllVerified DEF Mark, NextToMark, ToMark
        <3> QED BY <1>4, <3>2, <3>3, <3>4 DEF MarkerFails
    <2> QED BY <1>4, <2>1, <2>2, LaterIInv DEF MarkerFails
<1>5. CASE MarkersEnd
    <2>1. stage = "markers" /\ stage' \in {"failed", "cleanup", "done"}
        BY <1>5 DEF MarkersEnd
    <2>2. marker = Providers
        <3>1. Providers \subseteq marker
            BY <1>5, <2>1, AllVerified DEF MarkersEnd, ToMark
        <3> QED BY <3>1 DEF IInv, Types
    <2> QED BY <1>5, <2>1, <2>2, LaterIInv DEF MarkersEnd
<1>6. CASE CheckLocal
    <2>1. stage = "cleanup" /\ stage' \in {"checked", "failed"} /\ marker = Providers
        BY <1>6 DEF CheckLocal, IInv, LocalSound
    <2> QED BY <1>6, <2>1, LaterIInv DEF CheckLocal
<1>7. CASE RemoveTree
    <2>1. stage = "checked" /\ stage' = "done" /\ marker = Providers
        BY <1>7 DEF RemoveTree, IInv, LocalSound
    <2> QED BY <1>7, <2>1, LaterIInv DEF RemoveTree
<1> QED BY <1>0, <1>1, <1>2, <1>3, <1>4, <1>5, <1>6, <1>7 DEF PublishNext

LEMMA OthersIInv ==
    ASSUME IInv, OtherJob \/ Stop \/ ChangeLocal \/ UNCHANGED vars
    PROVE  IInv'
<1>1. UNCHANGED <<stage, provider, up, listed, remote, marker>>
    BY DEF OtherJob, Stop, ChangeLocal, vars
<1>2. stop' \in BOOLEAN /\ local' \in {"same", "changed", "removed"}
      /\ (local' = "removed" => local = "removed")
    BY DEF OtherJob, Stop, ChangeLocal, vars, IInv, Types
<1>3. \A p \in Providers : Verified(p)' <=> Verified(p)
    BY <1>1 DEF Verified
<1>4. Types' /\ UploadsSound' /\ LocalSound'
    BY <1>1, <1>2 DEF IInv, Types, StageType, UploadsSound, UploadSound, TurnUnderWay, LocalSound
<1>5. TurnsSound' /\ MarkersSound'
    BY <1>1, <1>3 DEF IInv, Types, TurnsSound, MarkersSound, MarkersTellTruth, TurnUnderWay
<1> QED BY <1>4, <1>5 DEF IInv

LEMMA NextIInv == IInv /\ [Next]_vars => IInv'
<1> SUFFICES ASSUME IInv, [Next]_vars PROVE IInv'
    OBVIOUS
<1>1. ASSUME NEW f \in Files, UploadNext(f) PROVE IInv'
    BY <1>1, UploadIInv
<1>2. CASE PublishNext
    BY <1>2, PublishIInv
<1>3. CASE OtherJob \/ Stop \/ ChangeLocal \/ UNCHANGED vars
    BY <1>3, OthersIInv
<1> QED BY <1>1, <1>2, <1>3 DEF Next

LEMMA Inductive == Spec => []IInv
BY InitIInv, NextIInv, PTL DEF Spec

-----------------------------------------------------------------------------
(* The gate: other jobs take a permit only when one is free *)

LEMMA SendersCount == Cardinality(At({"sending"})) \in Nat
<1>1. IsFiniteSet(At({"sending"}))
    BY ProvidersAssumption, FS_Subset DEF At
<1> QED BY <1>1, FS_CardinalityType

LEMMA GateStep == OthersType /\ [Next]_vars => OthersType'
<1> SUFFICES ASSUME OthersType, [Next]_vars PROVE OthersType'
    OBVIOUS
<1>1. CASE OtherJob
    <2>1. others \in 0 .. MaxUploads /\ MaxUploads \in Nat
        BY ProvidersAssumption DEF OthersType
    <2>2. CASE others' = others + 1 /\ Held < MaxUploads
        <3>1. others + Cardinality(At({"sending"})) < MaxUploads
            BY <2>2 DEF Held
        <3>2. others + 1 \in 0 .. MaxUploads
            BY <2>1, <3>1, SendersCount
        <3> QED BY <2>2, <3>2 DEF OthersType
    <2>3. CASE others' = others - 1 /\ others > 0
        BY <2>1, <2>3 DEF OthersType
    <2> QED BY <1>1, <2>2, <2>3 DEF OtherJob
<1>2. CASE ~OtherJob
    <2>1. others' = others
        BY <1>2 DEF Next, vars, UploadNext, Begin, Acquire, Sent, Rejected, Transport, Resume,
            Cancelled, PublishNext, ReadManifest, ManifestFails, UploadsEnd, WriteVersion, MarkerFails, MarkersEnd, CheckLocal,
            RemoveTree, WriteMarker, Stop, ChangeLocal
    <2> QED BY <2>1 DEF OthersType
<1> QED BY <1>1, <1>2

-----------------------------------------------------------------------------
(* complete.json is there only when its provider holds every file, read    *)
(* back, and every other one all that its manifest did not list before;    *)
(* the version.json of a stable provider only when that provider does      *)
(* (publish_with_progress), also after it failed or was cancelled.         *)
THEOREM MarkersAreTrue == Spec => []MarkersTellTruth
<1>1. IInv => MarkersTellTruth
    BY DEF IInv, MarkersSound
<1> QED BY <1>1, Inductive, PTL

(* The local export goes only when every provider says that it has all and *)
(* holds what no manifest listed, and a publication that returned has nothing *)
(* in flight (publish_with_progress drains its uploads and verifies the    *)
(* tree again before it removes it).                                       *)
THEOREM NothingIsLeft == Spec => []Inv
<1>1. Init => OthersType
    BY ProvidersAssumption DEF Init, OthersType
<1>2. IInv /\ OthersType => Inv
    <2> SUFFICES ASSUME IInv, OthersType PROVE Inv
        OBVIOUS
    <2>1. TypeOK
        BY DEF IInv, Types, StageType, TurnsSound, TurnUnderWay, OthersType, TypeOK
    <2>2. LocalGoesLast
        BY AllVerified DEF IInv, LocalSound, LocalGoesLast
    <2>3. NothingLeftBehind
        BY DEF IInv, UploadsSound, UploadSound, NothingLeftBehind, At
    <2> QED BY <2>1, <2>2, <2>3 DEF Inv
<1>3. Spec => []OthersType
    BY <1>1, GateStep, PTL DEF Spec
<1> QED BY <1>2, <1>3, Inductive, PTL
-----------------------------------------------------------------------------
(* The signer                                                              *)
(*                                                                         *)
(* The requests of a publication are signed by tasks that share a          *)
(* credential: proved for any number of tasks, any history of the file and *)
(* every time to live that STS grants.                                     *)

Contents == [ok : BOOLEAN, id : Nat, expires : Nat, since : Nat]
Keys == [id : Int, expires : Nat]

SignerTypes ==
    /\ clock \in Nat
    /\ setup \in Setups
    /\ contents \in Seq(Contents)
    /\ Len(contents) > 0
    /\ keys \in Keys
    /\ session \in Keys
    /\ task \in [Tasks -> Places]
    /\ lock \in Tasks \cup {Nobody}

(* Contents are numbered in the order in which they came.                  *)
Numbered == \A n \in DOMAIN contents : contents[n].id = n - 1

LockHeld == \A t \in Tasks : task[t] \in {"reading", "assuming"} <=> lock = t

LockNeeded == lock # Nobody => ~Fresh(Credential)

RoleAssumed == \A t \in Tasks : task[t] = "assuming" => setup.role

(* Keys of the file last no longer than it says, and their freshness ends  *)
(* refresh_seconds after something else came in its place.                 *)
KeysNamed(k) ==
    \/ k = Nothing
    \/ /\ k.id + 1 \in DOMAIN contents
       /\ k.expires <= clock + Refresh + Slack
       /\ contents[k.id + 1].expires # 0 => k.expires <= contents[k.id + 1].expires
       /\ k.id + 1 # Len(contents) =>
            k.expires <= contents[k.id + 2].since + Refresh + Slack

FileKeys == setup.file => KeysNamed(keys)

SignerIInv ==
    /\ SignerTypes
    /\ Numbered
    /\ LockHeld
    /\ LockNeeded
    /\ RoleAssumed
    /\ FileKeys

-----------------------------------------------------------------------------
LEMMA SetupShape ==
    ASSUME setup \in Setups
    PROVE  setup.file \in BOOLEAN /\ setup.role \in BOOLEAN /\ (setup.file \/ setup.role)
<1>1. CASE setup = [file |-> TRUE, role |-> FALSE] BY <1>1
<1>2. CASE setup = [file |-> TRUE, role |-> TRUE] BY <1>2
<1>3. CASE setup = [file |-> FALSE, role |-> TRUE] BY <1>3
<1> QED BY <1>1, <1>2, <1>3, Zenon DEF Setups

LEMMA NothingShape == Nothing \in Keys /\ Nothing.expires = 0
BY DEF Nothing, Keys

LEMMA EnvironmentShape ==
    Environment \in Keys
BY SignerAssumption DEF Environment, Keys

(* The last content of the file, and the keys that are read from it.       *)
LEMMA ElementShape ==
    ASSUME SignerTypes, NEW n \in DOMAIN contents
    PROVE  /\ contents[n] \in Contents
           /\ contents[n].expires \in Nat /\ contents[n].since \in Nat /\ contents[n].id \in Nat
<1>1. contents[n] \in Contents BY DEF SignerTypes
<1> QED BY <1>1 DEF Contents

LEMMA LastShape ==
    ASSUME SignerTypes, Numbered
    PROVE  /\ Last(contents).expires \in Nat /\ Last(contents).id \in Nat
           /\ Last(contents) = contents[Len(contents)]
           /\ Last(contents).id + 1 = Len(contents)
           /\ Len(contents) \in DOMAIN contents
<1>1. Len(contents) \in DOMAIN contents /\ Last(contents) = contents[Len(contents)]
    BY DEF SignerTypes, Last
<1>2. Len(contents) \in Nat BY DEF SignerTypes
<1> QED BY <1>1, <1>2, ElementShape DEF Numbered

LEMMA FileShape ==
    ASSUME SignerTypes, Numbered, Readable(Last(contents))
    PROVE  LET k == FromFile(Last(contents)) IN
           /\ k \in Keys
           /\ k.expires > clock
           /\ KeysNamed(k)
           /\ Usable(k.id)
<1> DEFINE file == Last(contents)
           k == FromFile(file)
<1>1. /\ k = [id |-> file.id, expires |-> k.expires]
      /\ k.expires \in Nat /\ k.expires <= clock + Refresh + Slack
      /\ k.expires > clock
      /\ file.expires # 0 => k.expires <= file.expires
    BY LastShape, SignerAssumption DEF FromFile, Readable, SignerTypes
<1>2. k.id = file.id BY <1>1
<1>3. k.id + 1 = Len(contents) /\ k.id \in Nat BY <1>2, LastShape
<1>4. KeysNamed(k) BY <1>1, <1>3, LastShape DEF KeysNamed
<1>5. Usable(k.id) BY <1>3, LastShape DEF Usable, Readable
<1>6. k \in Keys BY <1>1, <1>3 DEF Keys
<1> QED BY <1>1, <1>4, <1>5, <1>6

(* Fresh keys of the file may sign.                                        *)
LEMMA FreshUsable ==
    ASSUME SignerIInv, setup.file, Fresh(keys)
    PROVE  Usable(keys.id)
<1>1. KeysNamed(keys) BY DEF SignerIInv, FileKeys
<1>2. keys # Nothing BY NothingShape, SignerAssumption DEF Fresh, SignerIInv, SignerTypes
<1>3. keys.id + 1 \in DOMAIN contents BY <1>1, <1>2 DEF KeysNamed
<1>4. contents[keys.id + 1].expires \in Nat BY <1>3, ElementShape DEF SignerIInv
<1> keys.expires \in Nat /\ clock \in Nat /\ keys.id \in Int BY DEF SignerIInv, SignerTypes, Keys
<1>5. contents[keys.id + 1].expires = 0 \/ contents[keys.id + 1].expires > clock
    BY <1>1, <1>2, <1>4, SignerAssumption DEF KeysNamed, Fresh
<1>6. ASSUME keys.id + 1 # Len(contents) PROVE contents[keys.id + 2].since + Refresh > clock
    <2>1. keys.id + 2 \in DOMAIN contents BY <1>3, <1>6 DEF SignerIInv, SignerTypes
    <2>2. contents[keys.id + 2].since \in Nat BY <2>1, ElementShape DEF SignerIInv
    <2>3. keys.expires <= contents[keys.id + 2].since + Refresh + Slack
        BY <1>1, <1>2, <1>6 DEF KeysNamed
    <2>4. keys.expires > clock + Slack BY DEF Fresh
    <2> QED BY <2>2, <2>3, <2>4, SignerAssumption
<1> QED BY <1>5, <1>6 DEF Usable

-----------------------------------------------------------------------------
LEMMA SignerStarts == ASSUME SignerInit PROVE SignerIInv
<1>1. SignerTypes
    <2>1. contents \in Seq(Contents) /\ Len(contents) > 0
        BY DEF SignerInit, FirstContents, Contents
    <2>2. keys \in Keys /\ session \in Keys
        BY NothingShape, EnvironmentShape DEF SignerInit
    <2> QED BY <2>1, <2>2 DEF SignerInit, SignerTypes, Places
<1>2. Numbered BY DEF SignerInit, FirstContents, Numbered
<1>3. LockHeld /\ RoleAssumed
    BY SignerAssumption DEF SignerInit, LockHeld, RoleAssumed
<1>4. LockNeeded BY DEF SignerInit, LockNeeded
<1>5. FileKeys BY DEF SignerInit, FileKeys, KeysNamed
<1> QED BY <1>1, <1>2, <1>3, <1>4, <1>5 DEF SignerIInv

(* The task that gets a credential is the one that holds the lock; what     *)
(* another task does keeps both.                                           *)
LEMMA MoveTypes ==
    ASSUME SignerIInv, NEW t \in Tasks, NEW at \in Places, task' = [task EXCEPT ![t] = at]
    PROVE  /\ task' \in [Tasks -> Places]
           /\ task'[t] = at
           /\ \A u \in Tasks : u # t => task'[u] = task[u]
BY DEF SignerIInv, SignerTypes

(* A task that leaves gives the lock back.                                 *)
LEMMA LeaveHeld ==
    ASSUME SignerIInv, NEW t \in Tasks, lock \in {t, Nobody},
           NEW at \in {"signed", "unsigned"}, Leaves(t, at)
    PROVE  LockHeld' /\ LockNeeded' /\ task' \in [Tasks -> Places] /\ lock' = Nobody
<1>1. task' = [task EXCEPT ![t] = at] /\ lock' = Nobody BY DEF Leaves, Moves
<1>2. at \in Places BY DEF Places
<1>3. \A u \in Tasks : u # t => task[u] \notin {"reading", "assuming"}
    BY SignerAssumption DEF SignerIInv, LockHeld
<1>4. LockHeld'
    BY <1>1, <1>2, <1>3, MoveTypes, SignerAssumption DEF LockHeld
<1> QED BY <1>1, <1>2, <1>4, MoveTypes DEF LockNeeded

LEMMA CredentialShape ==
    ASSUME SignerIInv PROVE Credential.expires \in Nat /\ clock \in Nat
<1>1. keys.expires \in Nat /\ session.expires \in Nat BY DEF SignerIInv, SignerTypes, Keys
<1> QED BY <1>1 DEF Credential, SignerIInv, SignerTypes

LEMMA TickKeeps ==
    ASSUME SignerIInv, Tick PROVE SignerIInv'
<1> USE DEF Tick
<1>1. clock \in Nat /\ clock' = clock + 1 BY DEF SignerIInv, SignerTypes
<1>2. SignerTypes' BY <1>1 DEF SignerIInv, SignerTypes
<1>3. (Numbered /\ LockHeld /\ RoleAssumed)'
    BY DEF SignerIInv, Numbered, LockHeld, RoleAssumed
<1>4. LockNeeded'
    <2>1. Credential' = Credential BY DEF Credential
    <2> QED BY <1>1, <2>1, CredentialShape, SignerAssumption DEF SignerIInv, LockNeeded, Fresh
<1>5. FileKeys'
    <2>1. keys.expires \in Nat BY DEF SignerIInv, SignerTypes, Keys
    <2>2. clock + Refresh + Slack <= clock' + Refresh + Slack BY <1>1, SignerAssumption
    <2>3. keys.expires <= clock + Refresh + Slack => keys.expires <= clock' + Refresh + Slack
        BY <1>1, <2>1, <2>2, SignerAssumption
    <2> QED BY <2>3 DEF SignerIInv, FileKeys, KeysNamed
<1> QED BY <1>2, <1>3, <1>4, <1>5 DEF SignerIInv

(* Keys that are in use were the last before the file was replaced.        *)
LEMMA ReplaceKeeps ==
    ASSUME SignerIInv, Replace PROVE SignerIInv'
<1> UNCHANGED <<clock, setup, keys, session, task, lock>> BY DEF Replace
<1>1. PICK new \in Contents : /\ contents' = Append(contents, new)
                           /\ new.id = Len(contents) /\ new.since = clock
    <2>1. Len(contents) \in Nat /\ clock \in Nat BY DEF SignerIInv, SignerTypes
    <2>2. CASE contents' = Append(contents, Bad(Len(contents)))
        <3>1. /\ Bad(Len(contents)) \in Contents
              /\ Bad(Len(contents)).id = Len(contents) /\ Bad(Len(contents)).since = clock
            BY <2>1 DEF Bad, Contents
        <3> QED BY <2>2, <3>1
    <2>3. ASSUME NEW e \in Expirations, contents' = Append(contents, Good(Len(contents), e))
          PROVE  \E new \in Contents : /\ contents' = Append(contents, new)
                                    /\ new.id = Len(contents) /\ new.since = clock
        <3>1. e \in Nat BY SignerAssumption
        <3>2. /\ Good(Len(contents), e) \in Contents
              /\ Good(Len(contents), e).id = Len(contents)
              /\ Good(Len(contents), e).since = clock
            BY <2>1, <3>1 DEF Good, Contents
        <3> QED BY <2>3, <3>2
    <2> QED BY <2>2, <2>3 DEF Replace
<1>2. /\ Len(contents) \in Nat /\ Len(contents) > 0
      /\ Len(contents') = Len(contents) + 1
      /\ contents' \in Seq(Contents)
      /\ \A n \in DOMAIN contents : n \in DOMAIN contents' /\ contents'[n] = contents[n]
      /\ contents'[Len(contents) + 1] = new
      /\ DOMAIN contents' = DOMAIN contents \cup {Len(contents) + 1}
    BY <1>1 DEF SignerIInv, SignerTypes
<1>3. SignerTypes' BY <1>2 DEF SignerIInv, SignerTypes
<1>4. Numbered' BY <1>1, <1>2 DEF SignerIInv, Numbered
<1>5. (LockHeld /\ LockNeeded /\ RoleAssumed)'
    BY DEF SignerIInv, LockHeld, LockNeeded, RoleAssumed, Fresh, Credential
<1>6. FileKeys'
    <2> SUFFICES ASSUME setup.file, keys # Nothing PROVE KeysNamed(keys)'
        BY DEF FileKeys, KeysNamed
    <2>1. KeysNamed(keys) BY DEF SignerIInv, FileKeys
    <2>2. /\ keys.id + 1 \in DOMAIN contents
          /\ contents'[keys.id + 1] = contents[keys.id + 1]
        BY <2>1, <1>2 DEF KeysNamed
    <2>3. keys.id \in Int BY DEF SignerIInv, SignerTypes, Keys
    <2>4. ASSUME keys.id + 1 = Len(contents)
          PROVE  keys.expires <= contents'[keys.id + 2].since + Refresh + Slack
        <3>1. contents'[keys.id + 2] = new BY <1>2, <2>3, <2>4
        <3> QED BY <1>1, <2>1, <3>1 DEF KeysNamed
    <2>5. ASSUME keys.id + 1 # Len(contents)
          PROVE  keys.expires <= contents'[keys.id + 2].since + Refresh + Slack
        <3>1. keys.id + 2 \in DOMAIN contents BY <1>2, <2>2, <2>3, <2>5 DEF SignerIInv, SignerTypes
        <3> QED BY <1>2, <2>1, <2>5, <3>1 DEF KeysNamed
    <2> QED BY <1>2, <2>1, <2>2, <2>4, <2>5 DEF KeysNamed
<1> QED BY <1>3, <1>4, <1>5, <1>6 DEF SignerIInv

LEMMA AskKeeps ==
    ASSUME SignerIInv, NEW t \in Tasks, Ask(t) PROVE SignerIInv'
<1>1. /\ task' = [task EXCEPT ![t] = "waiting"] /\ task[t] \in {"unsigned", "signed"}
      /\ UNCHANGED <<clock, setup, contents, keys, session, lock>>
    BY DEF Ask, Moves
<1>2. "waiting" \in Places BY DEF Places
<1>3. SignerTypes' BY <1>1, <1>2, MoveTypes DEF SignerIInv, SignerTypes
<1>4. (Numbered /\ LockNeeded /\ FileKeys)'
    BY <1>1 DEF SignerIInv, Numbered, LockNeeded, FileKeys, KeysNamed, Fresh, Credential
<1>5. (LockHeld /\ RoleAssumed)'
    BY <1>1, <1>2, MoveTypes DEF SignerIInv, LockHeld, RoleAssumed
<1> QED BY <1>3, <1>4, <1>5 DEF SignerIInv

LEMMA LoadingShape ==
    ASSUME SignerIInv
    PROVE  /\ Loading \in {"reading", "assuming"} /\ Loading \in Places
           /\ Loading = "assuming" => setup.role /\ Fresh(keys)
BY DEF Loading, Places

LEMMA TakeLockKeeps ==
    ASSUME SignerIInv, NEW t \in Tasks, TakeLock(t) PROVE SignerIInv'
<1>1. /\ UNCHANGED <<clock, setup, contents, keys, session>>
      /\ lock = Nobody /\ task[t] = "waiting"
    BY DEF TakeLock
<1>2. (Numbered /\ FileKeys)' BY <1>1 DEF SignerIInv, Numbered, FileKeys, KeysNamed
<1>3. Fresh(Credential)' = Fresh(Credential) BY <1>1 DEF Fresh, Credential
<1>4. CASE Fresh(Credential)
    <2>1. Leaves(t, "signed") BY <1>4 DEF TakeLock
    <2>2. LockHeld' /\ LockNeeded' /\ task' \in [Tasks -> Places] /\ lock' = Nobody
        BY <1>1, <2>1, LeaveHeld
    <2>3. RoleAssumed'
        BY <1>1, <2>1, MoveTypes DEF Leaves, Moves, Places, SignerIInv, RoleAssumed
    <2> QED BY <1>1, <1>2, <2>2, <2>3 DEF SignerIInv, SignerTypes
<1>5. CASE ~Fresh(Credential)
    <2>1. lock' = t /\ task' = [task EXCEPT ![t] = Loading] BY <1>5 DEF TakeLock, Moves
    <2>2. SignerTypes' BY <1>1, <2>1, LoadingShape, MoveTypes DEF SignerIInv, SignerTypes
    <2>3. LockHeld'
        <3>1. \A u \in Tasks : task[u] \notin {"reading", "assuming"}
            BY <1>1, SignerAssumption DEF SignerIInv, LockHeld
        <3> QED BY <2>1, <3>1, LoadingShape, MoveTypes DEF LockHeld
    <2>4. LockNeeded' BY <1>3, <1>5 DEF LockNeeded
    <2>5. RoleAssumed' BY <1>1, <2>1, LoadingShape, MoveTypes DEF SignerIInv, RoleAssumed
    <2> QED BY <1>2, <2>2, <2>3, <2>4, <2>5 DEF SignerIInv
<1> QED BY <1>4, <1>5

LEMMA ReadKeeps ==
    ASSUME SignerIInv, NEW t \in Tasks, Read(t) PROVE SignerIInv'
<1> DEFINE file == Last(contents)
<1>1. /\ UNCHANGED <<clock, setup, contents, session>>
      /\ task[t] = "reading"
    BY DEF Read
<1>2. lock = t BY <1>1 DEF SignerIInv, LockHeld
<1>3. Numbered' BY <1>1 DEF SignerIInv, Numbered
<1>4. CASE ~Readable(file) /\ Leaves(t, "unsigned") /\ UNCHANGED keys
    <2>1. LockHeld' /\ LockNeeded' /\ task' \in [Tasks -> Places] /\ lock' = Nobody
        BY <1>2, <1>4, LeaveHeld
    <2>2. RoleAssumed'
        BY <1>1, <1>4, MoveTypes DEF Leaves, Moves, Places, SignerIInv, RoleAssumed
    <2>3. FileKeys' BY <1>1, <1>4 DEF SignerIInv, FileKeys, KeysNamed
    <2> QED BY <1>1, <1>3, <1>4, <2>1, <2>2, <2>3 DEF SignerIInv, SignerTypes
<1>5. CASE Readable(file) /\ keys' = FromFile(file)
    <2>1. keys' \in Keys /\ KeysNamed(keys') BY <1>5, FileShape DEF SignerIInv
    <2>2. FileKeys' BY <1>1, <2>1 DEF FileKeys, KeysNamed
    <2>3. CASE setup.role /\ Moves(t, "assuming") /\ UNCHANGED lock
        <3>1. task' = [task EXCEPT ![t] = "assuming"] /\ "assuming" \in Places
            BY <2>3 DEF Moves, Places
        <3>2. SignerTypes' BY <1>1, <2>1, <2>3, <3>1, MoveTypes DEF SignerIInv, SignerTypes
        <3>3. LockHeld' BY <1>1, <2>3, <3>1, MoveTypes DEF SignerIInv, LockHeld
        <3>4. LockNeeded' BY <1>1, <2>3 DEF SignerIInv, LockNeeded, Credential, Fresh
        <3>5. RoleAssumed' BY <1>1, <2>3, <3>1, MoveTypes DEF SignerIInv, RoleAssumed
        <3> QED BY <1>3, <2>2, <3>2, <3>3, <3>4, <3>5 DEF SignerIInv
    <2>4. CASE ~setup.role /\ Leaves(t, "signed")
        <3>1. LockHeld' /\ LockNeeded' /\ task' \in [Tasks -> Places] /\ lock' = Nobody
            BY <1>2, <2>4, LeaveHeld
        <3>2. RoleAssumed'
            BY <1>1, <2>4, MoveTypes DEF Leaves, Moves, Places, SignerIInv, RoleAssumed
        <3> QED BY <1>1, <1>3, <2>1, <2>2, <3>1, <3>2 DEF SignerIInv, SignerTypes
    <2> QED BY <1>5, <2>3, <2>4 DEF Read
<1> QED BY <1>4, <1>5 DEF Read

LEMMA AssumedKeeps ==
    ASSUME SignerIInv, NEW t \in Tasks, Assumed(t) \/ AssumeFails(t)
    PROVE  SignerIInv'
<1>1. /\ UNCHANGED <<clock, setup, contents, keys>>
      /\ task[t] = "assuming"
    BY DEF Assumed, AssumeFails
<1>2. PICK at \in {"signed", "unsigned"} : Leaves(t, at)
    BY DEF Assumed, AssumeFails
<1>3. session' \in Keys
    <2>1. ASSUME NEW life \in Lifetimes, Granted(life) PROVE session' \in Keys
        BY <2>1, SignerAssumption DEF Granted, Keys, SignerIInv, SignerTypes
    <2> QED BY <2>1 DEF Assumed, AssumeFails, SignerIInv, SignerTypes
<1>4. LockHeld' /\ LockNeeded' /\ task' \in [Tasks -> Places] /\ lock' = Nobody
    BY <1>1, <1>2, LeaveHeld DEF SignerIInv, LockHeld
<1>5. RoleAssumed'
    BY <1>1, <1>2, MoveTypes DEF Leaves, Moves, Places, SignerIInv, RoleAssumed
<1>6. (Numbered /\ FileKeys)' BY <1>1 DEF SignerIInv, Numbered, FileKeys, KeysNamed
<1> QED BY <1>1, <1>3, <1>4, <1>5, <1>6 DEF SignerIInv, SignerTypes

(* Whoever gives up, the lock is free or with another task afterwards.     *)
LEMMA GiveUpKeeps ==
    ASSUME SignerIInv, NEW t \in Tasks, GiveUp(t) PROVE SignerIInv'
<1>1. /\ UNCHANGED <<clock, setup, contents, keys, session>>
      /\ task' = [task EXCEPT ![t] = "unsigned"]
      /\ lock' = IF lock = t THEN Nobody ELSE lock
    BY DEF GiveUp, Moves
<1>2. "unsigned" \in Places BY DEF Places
<1>3. SignerTypes' BY <1>1, <1>2, MoveTypes DEF SignerIInv, SignerTypes
<1>4. LockHeld' BY <1>1, <1>2, MoveTypes, SignerAssumption DEF SignerIInv, LockHeld
<1>5. LockNeeded' BY <1>1 DEF SignerIInv, LockNeeded, Credential, Fresh
<1>6. RoleAssumed' BY <1>1, <1>2, MoveTypes DEF SignerIInv, RoleAssumed
<1>7. (Numbered /\ FileKeys)' BY <1>1 DEF SignerIInv, Numbered, FileKeys, KeysNamed
<1> QED BY <1>3, <1>4, <1>5, <1>6, <1>7 DEF SignerIInv

LEMMA StepKeeps == ASSUME SignerIInv, [SignerNext]_signer PROVE SignerIInv'
<1>1. CASE UNCHANGED signer
    BY <1>1 DEF signer, SignerIInv, SignerTypes, Numbered, LockHeld, LockNeeded, RoleAssumed, FileKeys,
        KeysNamed, Credential, Fresh
<1>2. CASE Tick BY <1>2, TickKeeps
<1>3. CASE Replace BY <1>3, ReplaceKeeps
<1>4. ASSUME NEW t \in Tasks, Signing(t) PROVE SignerIInv'
    BY <1>4, AskKeeps, TakeLockKeeps, ReadKeeps, AssumedKeeps, GiveUpKeeps DEF Signing
<1> QED BY <1>1, <1>2, <1>3, <1>4 DEF SignerNext

LEMMA SignerInductive == SignerSpec => []SignerIInv
<1>1. SignerInit => SignerIInv BY SignerStarts
<1>2. SignerIInv /\ [SignerNext]_signer => SignerIInv' BY StepKeeps
<1> QED BY <1>1, <1>2, PTL DEF SignerSpec

(* One task at a time gets a credential, and none while a fresh one is     *)
(* there: the cached chain of src/storage_sts.rs (chain_from_source), with *)
(* any number of uploads that are cancelled anywhere.                      *)
THEOREM OneSigner == SignerSpec => []SignerInv
<1>1. SignerIInv => SignerInv
    BY DEF SignerIInv, SignerTypes, LockHeld, LockNeeded, SignerInv
<1> QED BY <1>1, SignerInductive, PTL

-----------------------------------------------------------------------------
(* A task begins to ask STS or to sign in three places.                    *)
LEMMA Turned ==
    ASSUME SignerIInv, SignerNext, NEW t \in Tasks, NEW at \in {"signed", "assuming"}, Turns(t, at)
    PROVE  \/ TakeLock(t)
           \/ Read(t)
           \/ Assumed(t) /\ at = "signed"
<1> USE DEF Turns
<1>1. ~Tick /\ ~Replace BY DEF Tick, Replace
<1>2. PICK u \in Tasks : Signing(u) BY <1>1 DEF SignerNext
<1>3. PICK other \in Places : task' = [task EXCEPT ![u] = other]
    BY <1>2, LoadingShape DEF Signing, Ask, TakeLock, Read, Assumed, AssumeFails, GiveUp,
        Leaves, Moves, Places
<1>4. u = t BY <1>3, MoveTypes
<1>5. task \in [Tasks -> Places] BY DEF SignerIInv, SignerTypes
<1>6. ~Ask(t) /\ ~AssumeFails(t) /\ ~GiveUp(t)
    BY <1>5 DEF Ask, AssumeFails, GiveUp, Leaves, Moves
<1>7. Assumed(t) => at = "signed" BY <1>5 DEF Assumed, Leaves, Moves
<1> QED BY <1>2, <1>4, <1>6, <1>7 DEF Signing

(* What signs has not expired.                                             *)
LEMMA SignedInTime ==
    ASSUME SignerIInv, SignerNext, NEW t \in Tasks, Turns(t, "signed")
    PROVE  Credential'.expires > clock
<1>1. CASE TakeLock(t)
    <2>1. Fresh(Credential)
        <3> SUFFICES ASSUME ~Fresh(Credential) PROVE FALSE OBVIOUS
        <3>1. task' = [task EXCEPT ![t] = Loading] BY <1>1 DEF TakeLock, Moves
        <3> QED BY <3>1, LoadingShape, MoveTypes DEF Turns
    <2>2. Credential' = Credential BY <1>1 DEF TakeLock, Credential
    <2>3. Credential.expires > clock + Slack BY <2>1 DEF Fresh
    <2> QED BY <2>2, <2>3, CredentialShape, SignerAssumption
<1>2. CASE Read(t)
    <2>1. "assuming" \in Places /\ "unsigned" \in Places BY DEF Places
    <2>2. Readable(Last(contents)) /\ keys' = FromFile(Last(contents)) /\ ~setup.role
        BY <1>2, <2>1, MoveTypes DEF Read, Leaves, Moves, Turns
    <2>3. keys'.expires > clock BY <2>2, FileShape DEF SignerIInv
    <2> QED BY <1>2, <2>2, <2>3 DEF Read, Credential
<1>3. CASE Assumed(t)
    <2>1. setup'.role BY <1>3 DEF Assumed, SignerIInv, RoleAssumed
    <2>2. session'.expires > clock
        BY <1>3, SignerAssumption DEF Assumed, Granted, SignerIInv, SignerTypes
    <2> QED BY <2>1, <2>2 DEF Credential
<1> QED BY <1>1, <1>2, <1>3, Turned

(* Keys of the file that sign, or ask STS, are usable.                     *)
LEMMA NamedInTime ==
    ASSUME SignerIInv, SignerNext, NEW t \in Tasks, setup.file,
           Turns(t, "assuming") \/ (Turns(t, "signed") /\ ~setup.role)
    PROVE  Usable(keys'.id)
<1>1. CASE TakeLock(t)
    <2>1. keys' = keys /\ task[t] = "waiting" BY <1>1 DEF TakeLock
    <2>2. Fresh(keys)
        <3>1. CASE Fresh(Credential)
            <4>1. task' = [task EXCEPT ![t] = "signed"] /\ "signed" \in Places
                BY <1>1, <3>1 DEF TakeLock, Leaves, Moves, Places
            <4>2. ~setup.role BY <4>1, MoveTypes DEF Turns
            <4> QED BY <3>1, <4>2 DEF Credential
        <3>2. CASE ~Fresh(Credential)
            <4>1. task' = [task EXCEPT ![t] = Loading] BY <1>1, <3>2 DEF TakeLock, Moves
            <4> QED BY <4>1, LoadingShape, MoveTypes DEF Turns
        <3> QED BY <3>1, <3>2
    <2> QED BY <2>1, <2>2, FreshUsable
<1>2. CASE Read(t)
    <2>1. "unsigned" \in Places BY DEF Places
    <2>2. Readable(Last(contents)) /\ keys' = FromFile(Last(contents))
        BY <1>2, <2>1, MoveTypes DEF Read, Leaves, Moves, Turns
    <2> QED BY <2>2, FileShape DEF SignerIInv
<1>3. CASE Assumed(t)
    <2>1. "signed" \in Places /\ setup.role BY <1>3 DEF Assumed, SignerIInv, RoleAssumed, Places
    <2> QED BY <1>3, <2>1, MoveTypes DEF Assumed, Leaves, Moves, Turns
<1> QED BY <1>1, <1>2, <1>3, Turned

(* No request is signed with keys that have expired or that the file       *)
(* stopped to name refresh_seconds ago: Config::read of                    *)
(* src/storage_credentials.rs behind the cache, for every history of the   *)
(* file and any number of tasks.                                           *)
THEOREM NeverSignsStale == SignerSpec => NeverStale
<1>1. ASSUME SignerIInv, SignerNext
      PROVE  \A t \in Tasks :
                /\ Turns(t, "signed") => Credential'.expires > clock
                /\ setup.file /\ (Turns(t, "assuming") \/ (Turns(t, "signed") /\ ~setup.role)) =>
                      Usable(keys'.id)
    BY <1>1, SignedInTime, NamedInTime
<1> QED BY <1>1, SignerInductive, PTL DEF SignerSpec, NeverStale
=============================================================================
