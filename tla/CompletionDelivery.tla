------------------------- MODULE CompletionDelivery -------------------------
(***************************************************************************)
(* The notice workers of src/service.rs (run_completion_target) and the    *)
(* requests of src/completion_notify.rs (Target::deliver).                 *)
(*                                                                         *)
(* The outbox is the durable part of the ledger that JobLedger models in   *)
(* full; here jobs are numbered in the order in which they complete, which *)
(* is the order of the outbox.  Each configured recipient has one worker.  *)
(* A worker reads the first delivery that waits for its recipient, lets go *)
(* of the ledger, posts the notice, and takes the ledger again to record   *)
(* the acknowledgement.  A request the worker no longer waits for may      *)
(* still reach its receiver.                                               *)
(***************************************************************************)
EXTENDS Integers, FiniteSets

CONSTANTS
    Regions, Targets,
    TargetRegion,   \* the region each recipient listens to
    MaxCompleted    \* bound of the model: jobs that complete

ASSUME DeliveryAssumption ==
    /\ TargetRegion \in [Targets -> Regions]
    /\ MaxCompleted \in Nat

VARIABLES
    up,         \* "down", "running", "stopping": the process and its shutdown channel
    configured, \* Inner.completion_targets
    outbox,     \* completions of jobs.json: the recipients each one waits for
    completed,  \* jobs completed so far
    worker,     \* per recipient, where its worker is and the event it cloned
    due,        \* DeliveryState.due has passed (or was never set)
    stray,      \* requests on their way that nobody waits for
    received,   \* what each receiver accepted; receivers do not forget
    owed        \* history: what each completed job owed

vars == <<up, configured, outbox, completed, worker, due, stray, received, owed>>

Ids == 1 .. MaxCompleted
NoId == 0

(* posting: the request is on its way; accepted: the receiver took it and  *)
(* its answer is on its way; answered: the worker waits for the ledger.    *)
Busy == {"posting", "accepted", "answered"}
Off == [at |-> "off", id |-> NoId]
Idle == [at |-> "idle", id |-> NoId]

Pending(t) == {id \in DOMAIN outbox : t \in outbox[id]}
Held(t) == <<worker[t].id, t>>
Posts == {Held(t) : t \in {u \in Targets : worker[u].at = "posting"}}

Turn(t, to) == worker' = [worker EXCEPT ![t] = to]

-----------------------------------------------------------------------------
(* The process *)

(* Every worker is gone; any of its requests may still arrive.             *)
Gone ==
    /\ up' = "down"
    /\ configured' = {}
    /\ worker' = [t \in Targets |-> Off]
    /\ due' = [t \in Targets |-> TRUE]
    /\ \E S \in SUBSET Posts : stray' = stray \cup S

Boot(ts) ==
    /\ up = "down"
    /\ up' = "running"
    /\ configured' = ts
    /\ worker' = [t \in Targets |-> IF t \in ts THEN Idle ELSE Off]
    /\ UNCHANGED <<outbox, completed, due, stray, received, owed>>

(* A crash, or the end of the job workers, which drops the notice workers. *)
Die ==
    /\ up # "down"
    /\ Gone
    /\ UNCHANGED <<outbox, completed, received, owed>>

Shutdown ==
    /\ up = "running"
    /\ up' = "stopping"
    /\ UNCHANGED <<configured, outbox, completed, worker, due, stray, received, owed>>

(* The process survives the write of the ledger, or dies right after it.   *)
Survive == UNCHANGED <<up, configured, due, stray>>

(* Mutation of NewOutbox: a full outbox makes room by dropping its oldest. *)
NewOutboxEvicting(id, ts) ==
    LET oldest == {o \in DOMAIN outbox : Cardinality(DOMAIN outbox) > 1
                                         /\ \A p \in DOMAIN outbox : o <= p}
    IN [j \in (DOMAIN outbox \ oldest) \cup {id} |-> IF j = id THEN ts ELSE outbox[j]]

NewOutbox(id, ts) == [j \in DOMAIN outbox \cup {id} |-> IF j = id THEN ts ELSE outbox[j]]

(* A job of region r completes: its notice is part of the same write.      *)
Complete(r) ==
    LET id == completed + 1
        ts == {t \in configured : TargetRegion[t] = r}
    IN /\ up # "down"
       /\ completed < MaxCompleted
       /\ ts # {}
       /\ completed' = id
       /\ outbox' = NewOutbox(id, ts)
       /\ owed' = owed \cup ({id} \X ts)
       /\ UNCHANGED received
       /\ (Survive /\ UNCHANGED worker) \/ Gone

-----------------------------------------------------------------------------
(* The worker of one recipient *)

(* Mutation of First: the newest notice goes out first. *)
FirstIsNewest(id, t) == id \in Pending(t) /\ \A j \in Pending(t) : j <= id

First(id, t) == id \in Pending(t) /\ \A j \in Pending(t) : id <= j

(* Mutation of Post: one retry timer for all recipients. *)
PostTogether(t) ==
    /\ up = "running"
    /\ worker[t].at = "idle"
    /\ \A u \in configured : due[u]
    /\ \E id \in Ids :
          /\ First(id, t)
          /\ Turn(t, [at |-> "posting", id |-> id])
    /\ UNCHANGED <<up, configured, outbox, completed, due, stray, received, owed>>

Post(t) ==
    /\ up = "running"
    /\ worker[t].at = "idle"
    /\ due[t]
    /\ \E id \in Ids :
          /\ First(id, t)
          /\ Turn(t, [at |-> "posting", id |-> id])
    /\ UNCHANGED <<up, configured, outbox, completed, due, stray, received, owed>>

(* deliver fails: the next attempt waits for retry_seconds.                *)
Later(t) ==
    /\ Turn(t, Idle)
    /\ due' = [due EXCEPT ![t] = FALSE]

(* Refused, not transported, or timed out; a request that timed out may    *)
(* still be on its way.                                                    *)
GiveUp(t) ==
    /\ worker[t].at = "posting"
    /\ Later(t)
    /\ stray' \in {stray, stray \cup {Held(t)}}
    /\ UNCHANGED <<up, configured, outbox, completed, received, owed>>

(* The answer was lost, late or not the expected acknowledgement.          *)
LoseAnswer(t) ==
    /\ worker[t].at = "accepted"
    /\ Later(t)
    /\ UNCHANGED <<up, configured, outbox, completed, stray, received, owed>>

(* Mutation of Answer: any answer counts, whoever gave it. *)
AnswerAny(t) ==
    /\ worker[t].at \in {"posting", "accepted"}
    /\ Turn(t, [worker[t] EXCEPT !.at = "answered"])
    /\ UNCHANGED <<up, configured, outbox, completed, due, stray, received, owed>>

Answer(t) ==
    /\ worker[t].at = "accepted"
    /\ Turn(t, [worker[t] EXCEPT !.at = "answered"])
    /\ UNCHANGED <<up, configured, outbox, completed, due, stray, received, owed>>

(* Mutation of Acknowledged: deliveries that wait for nobody are kept. *)
AcknowledgedKeepsEmpty(id, t) == [outbox EXCEPT ![id] = outbox[id] \ {t}]

Acknowledged(id, t) ==
    LET left == outbox[id] \ {t}
    IN IF left # {} THEN [outbox EXCEPT ![id] = left]
       ELSE [j \in DOMAIN outbox \ {id} |-> outbox[j]]

Acknowledge(t) ==
    /\ worker[t].at = "answered"
    /\ t \in outbox[worker[t].id]
    /\ outbox' = Acknowledged(worker[t].id, t)
    /\ UNCHANGED <<completed, received, owed>>
    /\ (Survive /\ Turn(t, Idle)) \/ Gone

(* The ledger could not be written: the notice will be sent again.         *)
AcknowledgeFails(t) ==
    /\ worker[t].at = "answered"
    /\ Later(t)
    /\ UNCHANGED <<up, configured, outbox, completed, stray, received, owed>>

RetryDue(t) ==
    /\ up = "running"
    /\ ~due[t]
    /\ due' = [due EXCEPT ![t] = TRUE]
    /\ UNCHANGED <<up, configured, outbox, completed, worker, stray, received, owed>>

(* Shutdown ends a worker that waits or posts; one that was answered still *)
(* records the acknowledgement first.                                      *)
Cancelled(t) ==
    /\ up = "stopping"
    /\ worker[t].at \in {"idle", "posting", "accepted"}
    /\ Turn(t, Off)
    /\ \E S \in SUBSET (Posts \cap {Held(t)}) : stray' = stray \cup S
    /\ UNCHANGED <<up, configured, outbox, completed, due, received, owed>>

-----------------------------------------------------------------------------
(* The receivers *)

Receive(t) ==
    /\ worker[t].at = "posting"
    /\ received' = received \cup {Held(t)}
    /\ Turn(t, [worker[t] EXCEPT !.at = "accepted"])
    /\ UNCHANGED <<up, configured, outbox, completed, due, stray, owed>>

ArriveLate(n) ==
    /\ n \in stray
    /\ stray' = stray \ {n}
    /\ received' = received \cup {n}
    /\ UNCHANGED <<up, configured, outbox, completed, worker, due, owed>>

-----------------------------------------------------------------------------
Init ==
    /\ up = "down"
    /\ configured = {}
    /\ outbox = <<>>
    /\ completed = 0
    /\ worker = [t \in Targets |-> Off]
    /\ due = [t \in Targets |-> TRUE]
    /\ stray = {}
    /\ received = {}
    /\ owed = {}

WorkerNext(t) ==
    \/ Post(t) \/ GiveUp(t) \/ LoseAnswer(t) \/ Answer(t) \/ Acknowledge(t)
    \/ AcknowledgeFails(t) \/ RetryDue(t) \/ Cancelled(t) \/ Receive(t)

Next ==
    \/ \E ts \in SUBSET Targets : Boot(ts)
    \/ Die
    \/ Shutdown
    \/ \E r \in Regions : Complete(r)
    \/ \E t \in Targets : WorkerNext(t)
    \/ \E n \in stray : ArriveLate(n)

Spec == Init /\ [][Next]_vars

(* The workers and their timers run; requests time out; a receiver that is *)
(* asked again and again accepts, answers, and the answer is recorded.     *)
(* Nothing is assumed of the other recipients.                             *)
Fair(t) ==
    /\ WF_vars(Post(t)) /\ WF_vars(RetryDue(t))
    /\ WF_vars(GiveUp(t) \/ Receive(t)) /\ SF_vars(Receive(t))
    /\ WF_vars(LoseAnswer(t) \/ Answer(t)) /\ SF_vars(Answer(t))
    /\ WF_vars(Acknowledge(t) \/ AcknowledgeFails(t))
    /\ SF_vars(Acknowledge(t))

-----------------------------------------------------------------------------
(* Properties *)

\* Every variable has its type.
TypeOK ==
    /\ up \in {"down", "running", "stopping"}
    /\ configured \subseteq Targets
    /\ completed \in 0 .. MaxCompleted
    /\ DOMAIN outbox \subseteq 1 .. completed
    /\ \A id \in DOMAIN outbox : outbox[id] \in (SUBSET Targets) \ {{}}
    /\ worker \in [Targets -> [at: {"off", "idle"}, id: {NoId}] \cup [at: Busy, id: Ids]]
    /\ due \in [Targets -> BOOLEAN]
    /\ stray \subseteq Ids \X Targets
    /\ received \subseteq Ids \X Targets
    /\ owed \subseteq (1 .. completed) \X Targets

\* At least once: what a completed job owes a recipient stays in the outbox
\* until that recipient has accepted it, through lost answers, failed writes,
\* crashes and changes of the configuration (deliver, acknowledge_completion).
NothingForgotten ==
    \A n \in owed : n \in received \/ n[1] \in Pending(n[2])

\* The event a worker cloned before it let go of the ledger is still the
\* first one its recipient waits for when the answer comes back, so the
\* acknowledgement it records is never refused or out of turn.
HeldIsFirst ==
    \A t \in Targets : worker[t].at \in Busy => First(worker[t].id, t)

\* Every notice is kept until it was heard, and told in its turn.
Inv == TypeOK /\ NothingForgotten /\ HeldIsFirst

\* Receivers that drop duplicates hear of each job once and in order, even
\* when requests they were given up on arrive late.
Queue == INSTANCE NoticeQueue WITH
    Ids <- Ids, Targets <- Targets, owed <- owed, received <- received
InOrderOnce == Queue!QueueSpec

\* While the service runs, a recipient that keeps accepting is told of every
\* job, whatever the other recipients do (run_completion_notifications).
Delivered(t) ==
    \A id \in Ids :
        (up = "running" /\ t \in configured /\ id \in Pending(t))
            ~> (up # "running" \/ id \notin Pending(t))
=============================================================================
