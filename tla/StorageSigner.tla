--------------------------- MODULE StorageSigner ---------------------------
(***************************************************************************)
(* What signs the requests to an S3 provider (src/storage_credentials.rs,  *)
(* src/storage_sts.rs): the keys of a credential file that is read again   *)
(* now and then, or the temporary keys of a role that the keys of the file *)
(* or of the environment ask STS for.  Tasks share the signer, which keeps *)
(* its credential while it is fresh and lets one task at a time get a new  *)
(* one.  The file is replaced at any time.                                 *)
(***************************************************************************)
EXTENDS Integers, Sequences, SequencesExt

CONSTANTS
    Tasks,
    Refresh,        \* refresh_seconds
    Slack,          \* a credential is fresh until this long before it expires
    Lifetimes,      \* of what STS grants, from the answer on
    Expirations,    \* "expiration" of a file; 0: none
    MaxTime, MaxWrites      \* bounds of the model

VARIABLES
    clock,
    setup,      \* where keys come from: file, or else the environment; role
    contents,   \* history of the file; the last is there now
    keys,       \* the keys that sign for STS (role) or for the provider
    session,    \* the temporary keys of the role
    task,       \* what each task does
    lock        \* who gets a credential

signer == <<clock, setup, contents, keys, session, task, lock>>

Nobody == "nobody"

(* refresh_seconds is at least one; what STS grants has not expired.       *)
ASSUME SignerAssumption ==
    /\ Nobody \notin Tasks
    /\ Refresh \in Nat \ {0} /\ Slack \in Nat
    /\ Lifetimes \subseteq Nat \ {0} /\ Expirations \subseteq Nat
    /\ MaxTime \in Nat /\ MaxWrites \in Nat

(* A file: who it names, and since when it is there.                       *)
Good(id, expires) == [ok |-> TRUE, id |-> id, expires |-> expires, since |-> clock]
Bad(id) == [ok |-> FALSE, id |-> id, expires |-> 0, since |-> clock]

Nothing == [id |-> -1, expires |-> 0]
Environment == [id |-> 0, expires |-> MaxTime + Slack + 1]

Fresh(credential) == credential.expires > clock + Slack
Credential == IF setup.role THEN session ELSE keys

-----------------------------------------------------------------------------
(* Tasks *)

Moves(t, at) == task' = [task EXCEPT ![t] = at]
Leaves(t, at) == Moves(t, at) /\ lock' = Nobody

(* A request needs a signature.                                            *)
Ask(t) ==
    /\ task[t] \in {"unsigned", "signed"}
    /\ clock < MaxTime
    /\ Moves(t, "waiting")
    /\ UNCHANGED <<clock, setup, contents, keys, session, lock>>

Loading == IF setup.role /\ Fresh(keys) THEN "assuming" ELSE "reading"

(* Mutation of TakeLock: what another task got meanwhile is not looked at. *)
TakeLockBlindly(t) ==
    /\ task[t] = "waiting"
    /\ lock = Nobody
    /\ lock' = t /\ Moves(t, Loading)
    /\ UNCHANGED <<clock, setup, contents, keys, session>>

TakeLock(t) ==
    /\ task[t] = "waiting"
    /\ lock = Nobody
    /\ IF Fresh(Credential) THEN Leaves(t, "signed") ELSE lock' = t /\ Moves(t, Loading)
    /\ UNCHANGED <<clock, setup, contents, keys, session>>

(* Mutation of FromFile: "expiration" is not looked at. *)
FromFileExtended(file) == [id |-> file.id, expires |-> clock + Refresh + Slack]

(* The keys last for refresh_seconds, and never longer than the file says. *)
FromFile(file) ==
    LET limit == clock + Refresh + Slack IN
    [id |-> file.id,
     expires |-> IF file.expires = 0 \/ file.expires > limit THEN limit ELSE file.expires]

Readable(file) == file.ok /\ (file.expires = 0 \/ file.expires > clock)

(* Mutation of Read: keys that cannot be read again still sign. *)
ReadOrKeep(t) ==
    /\ task[t] = "reading"
    /\ LET file == Last(contents) IN
       IF ~Readable(file)
       THEN /\ Leaves(t, IF keys # Nothing /\ ~setup.role THEN "signed" ELSE "unsigned")
            /\ UNCHANGED keys
       ELSE /\ keys' = FromFile(file)
            /\ IF setup.role THEN Moves(t, "assuming") /\ UNCHANGED lock
               ELSE Leaves(t, "signed")
    /\ UNCHANGED <<clock, setup, contents, session>>

Read(t) ==
    /\ task[t] = "reading"
    /\ LET file == Last(contents) IN
       \/ /\ ~Readable(file)
          /\ Leaves(t, "unsigned")
          /\ UNCHANGED keys
       \/ /\ Readable(file)
          /\ keys' = FromFile(file)
          /\ IF setup.role THEN Moves(t, "assuming") /\ UNCHANGED lock
             ELSE Leaves(t, "signed")
    /\ UNCHANGED <<clock, setup, contents, session>>

Granted(life) == session' = [id |-> keys.id, expires |-> clock + life]

(* Mutation of Assumed: what STS grants may have expired. *)
AssumedBlindly(t) ==
    /\ task[t] = "assuming"
    /\ \E life \in Lifetimes \cup {0} : Granted(life)
    /\ Leaves(t, "signed")
    /\ UNCHANGED <<clock, setup, contents, keys>>

(* STS grants the role to the identity that asked.                         *)
Assumed(t) ==
    /\ task[t] = "assuming"
    /\ \E life \in Lifetimes : Granted(life)
    /\ Leaves(t, "signed")
    /\ UNCHANGED <<clock, setup, contents, keys>>

(* No answer in time, a refusal, a redirect, too long an answer, one that  *)
(* cannot be read or has expired.                                          *)
AssumeFails(t) ==
    /\ task[t] = "assuming"
    /\ Leaves(t, "unsigned")
    /\ UNCHANGED <<clock, setup, contents, keys, session>>

(* Mutation of GiveUp: the task that was getting a credential is not replaced. *)
GiveUpHolding(t) ==
    /\ task[t] \in {"waiting", "reading", "assuming"}
    /\ Moves(t, "unsigned")
    /\ UNCHANGED <<clock, setup, contents, keys, session, lock>>

(* The attempt is cancelled or runs out of time; a file that is being read *)
(* is read to no end.                                                      *)
GiveUp(t) ==
    /\ task[t] \in {"waiting", "reading", "assuming"}
    /\ Moves(t, "unsigned")
    /\ lock' = IF lock = t THEN Nobody ELSE lock
    /\ UNCHANGED <<clock, setup, contents, keys, session>>

Signing(t) == Ask(t) \/ TakeLock(t) \/ Read(t) \/ Assumed(t) \/ AssumeFails(t) \/ GiveUp(t)

-----------------------------------------------------------------------------
(* Time and the file *)

Tick ==
    /\ clock < MaxTime
    /\ clock' = clock + 1
    /\ UNCHANGED <<setup, contents, keys, session, task, lock>>

(* Somebody replaces the file at once, by good or by bad content.          *)
Replace ==
    /\ setup.file
    /\ Len(contents) <= MaxWrites
    /\ LET id == Len(contents) IN
       contents' \in {Append(contents, Good(id, e)) :
                        e \in {x \in Expirations : x = 0 \/ x > clock}} \cup
                     {Append(contents, Bad(id))}
    /\ UNCHANGED <<clock, setup, keys, session, task, lock>>

(* The configuration was checked, the file read for it.                    *)
FirstContents == <<[ok |-> TRUE, id |-> 0, expires |-> 0, since |-> 0]>>
Setups == {[file |-> TRUE, role |-> FALSE], [file |-> TRUE, role |-> TRUE],
           [file |-> FALSE, role |-> TRUE]}

SignerInit ==
    /\ clock = 0
    /\ setup \in Setups
    /\ contents = FirstContents
    /\ keys = IF setup.file THEN Nothing ELSE Environment
    /\ session = Nothing
    /\ task = [t \in Tasks |-> "unsigned"]
    /\ lock = Nobody

SignerNext == Tick \/ Replace \/ \E t \in Tasks : Signing(t)

HoldsLock(t) == lock = t /\ (Read(t) \/ Assumed(t) \/ AssumeFails(t) \/ GiveUp(t))

(* Who gets a credential ends, at the latest when its attempt is over; the *)
(* lock goes to the tasks in their order.                                  *)
SignerSpec ==
    /\ SignerInit /\ [][SignerNext]_signer
    /\ \A t \in Tasks : WF_signer(HoldsLock(t)) /\ SF_signer(TakeLock(t))

-----------------------------------------------------------------------------
(* Properties *)

Places == {"unsigned", "waiting", "reading", "assuming", "signed"}

(* One task at a time gets a credential, and none while another task has   *)
(* left it one that is fresh: tasks that waited together ask STS once.     *)
SignerInv ==
    /\ task \in [Tasks -> Places]
    /\ \A t \in Tasks : task[t] \in {"reading", "assuming"} <=> lock = t
    /\ lock # Nobody => ~Fresh(Credential)

(* The keys of id have not expired, and the file names them or did so less *)
(* than refresh_seconds ago.                                               *)
Usable(id) ==
    /\ contents[id + 1].expires = 0 \/ contents[id + 1].expires > clock
    /\ id + 1 = Len(contents) \/ contents[id + 2].since + Refresh > clock

Turns(t, at) == task[t] # at /\ task[t]' = at

(* No request is signed with keys that have expired, or that the file      *)
(* stopped to name refresh_seconds ago, however the file, the clock and    *)
(* the other tasks change meanwhile; with a role only such keys ask STS,   *)
(* and what it grants signs no request once it has expired.                *)
NeverStale ==
    [][\A t \in Tasks :
          /\ Turns(t, "signed") => Credential'.expires > clock
          /\ setup.file /\ (Turns(t, "assuming") \/ (Turns(t, "signed") /\ ~setup.role)) =>
                Usable(keys'.id)]_signer

(* A task that waits gets a signature or an error, although the ones       *)
(* before it are cancelled while they get the credential.                  *)
SignersEnd ==
    \A t \in Tasks : [](task[t] = "waiting" => <>(task[t] \in {"signed", "unsigned"}))
=============================================================================
