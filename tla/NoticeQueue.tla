---------------------------- MODULE NoticeQueue ----------------------------
(***************************************************************************)
(* What the completion notices of the service promise to their recipients: *)
(* each one hears of every job it is owed once, in the order in which the  *)
(* jobs completed.                                                         *)
(***************************************************************************)
EXTENDS Naturals

CONSTANTS Ids, Targets   \* the numbers of completed jobs, the recipients

VARIABLES owed, received   \* pairs of a completed job and a recipient

queue == <<owed, received>>

Owe(id, ts) ==
    /\ \A n \in owed : n[1] < id
    /\ owed' = owed \cup ({id} \X ts)
    /\ UNCHANGED received

(* A recipient learns of the first job it was not told of. *)
Deliver(id, t) ==
    /\ <<id, t>> \in owed \ received
    /\ \A n \in owed : n[2] = t /\ n[1] < id => n \in received
    /\ received' = received \cup {<<id, t>>}
    /\ UNCHANGED owed

QueueInit == owed = {} /\ received = {}

QueueNext ==
    \/ \E id \in Ids, ts \in SUBSET Targets : Owe(id, ts)
    \/ \E id \in Ids, t \in Targets : Deliver(id, t)

QueueSpec == QueueInit /\ [][QueueNext]_queue
=============================================================================
