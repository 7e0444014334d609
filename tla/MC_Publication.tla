--------------------------- MODULE MC_Publication ---------------------------
(***************************************************************************)
(* Two providers, the first with the stable layout, and up to three files; *)
(* before it, and then at rest, the signer of the requests to a provider.  *)
(***************************************************************************)
EXTENDS Publication, StorageSigner

CONSTANTS f1, f2, f3

VARIABLE turn

allVars == <<vars, turn, signer>>

(* What interrupted publications left at the first provider: an earlier    *)
(* version of every file that no manifest lists; one listed file that is   *)
(* not what the manifest says, between others that are there; or two       *)
(* listed files, of which one has been deleted.                            *)
Before(lists, has) == [lists |-> lists, has |-> has]
AllAre(what) == [f \in Files |-> what]
Situations ==
    {Before({}, AllAre("bad")),
     Before({f1}, [AllAre("good") EXCEPT ![f1] = "bad"]),
     Before({f1, f2}, [AllAre("absent") EXCEPT ![f2] = "good"])}

MCInit ==
    /\ turn = "signer"
    /\ SignerInit
    /\ Init
    /\ listed = [p \in Providers |-> {}]
    /\ remote = [p \in Providers |-> AllAre("absent")]

SignerTurn == turn = "signer" /\ UNCHANGED <<turn, vars>>

EndSigner ==
    /\ turn = "signer"
    /\ \A t \in Tasks : task[t] \in {"signed", "unsigned"}
    /\ turn' = "publication"
    /\ clock' = 0 /\ setup' = [file |-> TRUE, role |-> FALSE]
    /\ contents' = FirstContents /\ keys' = Nothing /\ session' = Nothing
    /\ task' = [t \in Tasks |-> "unsigned"]
    /\ \E before \in Situations :
        listed' = [listed EXCEPT ![1] = before.lists] /\ remote' = [remote EXCEPT ![1] = before.has]
    /\ UNCHANGED <<stage, provider, up, others, marker, stop, local, lock>>

PublicationTurn == turn = "publication" /\ UNCHANGED <<turn, signer>>

MCNext ==
    \/ SignerTurn /\ SignerNext
    \/ EndSigner
    \/ PublicationTurn /\ Next

MCSpec ==
    /\ MCInit /\ [][MCNext]_allVars
    /\ \A t \in Tasks :
          /\ WF_allVars(SignerTurn /\ HoldsLock(t))
          /\ SF_allVars(SignerTurn /\ TakeLock(t))
    /\ WF_allVars(SignerTurn /\ Tick)
    /\ SF_allVars(EndSigner)
    /\ WF_allVars(PublicationTurn /\ PublishNext)
    /\ \A f \in Files : WF_allVars(PublicationTurn /\ UploadNext(f))
=============================================================================
