----------------------------- MODULE JobService -----------------------------
(***************************************************************************)
(* The worker loop of src/service.rs over the job ledger: run_job_workers  *)
(* claims jobs, spawns one task per job, passes cancellations and shutdown *)
(* to the tasks through their control channels and records how they end.   *)
(* HTTP handlers and the tasks use the same ledger under one lock, which   *)
(* the loop keeps from its sweep to its last claim ("claiming").           *)
(*                                                                         *)
(* A step of the ledger may end with the death of the process; the service *)
(* then loses everything it holds (Gone) and starts again from the disk.   *)
(***************************************************************************)
EXTENDS JobLedger

CONSTANT MaxEntered     \* bound of the model: handlers between their two steps

ASSUME EnteredAssumption == MaxEntered \in Nat

VARIABLES
    loop,           \* where the worker loop is
    stopping, storageError,
    shutdown,       \* the shutdown channel
    accepting,      \* Inner.accepting
    entered,        \* handlers that saw accepting and wait for the ledger
    control,        \* controls: the stop flag of each task
    task            \* the tasks of the JoinSet

service == <<loop, stopping, storageError, shutdown, accepting, entered, control, task>>
allVars == <<vars, service>>

(* working: up to the last stop check of the pipeline; final: recording    *)
(* the final progress; returned: waiting to be joined.                     *)
Task == [at: {"working", "final", "returned"}, late: BOOLEAN, ok: BOOLEAN]

Idle ==
    /\ loop' = "off"
    /\ stopping' = FALSE
    /\ storageError' = FALSE
    /\ shutdown' = FALSE
    /\ accepting' = FALSE
    /\ entered' = 0
    /\ control' = <<>>
    /\ task' = <<>>

Died == phase' = "down" /\ Idle
Alive == phase' # "down"

Unlocked == phase = "serving" /\ loop \notin {"off", "claiming"}
With1(f, x, v) == [y \in DOMAIN f \cup {x} |-> IF y = x THEN v ELSE f[y]]

-----------------------------------------------------------------------------
(* Starting and dying *)

OpenService ==
    /\ Open
    /\ UNCHANGED service

Start ==
    /\ loop = "off"
    /\ \E ts \in SUBSET Targets : Configure(ts)
    /\ loop' = "top"
    /\ accepting' = TRUE
    /\ UNCHANGED <<stopping, storageError, shutdown, entered, control, task>>

Die == Crash /\ Idle

(* A signal closes admission and raises the shutdown channel.              *)
Signal ==
    /\ loop # "off"
    /\ ~shutdown
    /\ shutdown' = TRUE
    /\ accepting' = FALSE
    /\ UNCHANGED <<vars, loop, stopping, storageError, entered, control, task>>

-----------------------------------------------------------------------------
(* HTTP handlers: submit and retry look at accepting before they take the  *)
(* lock, cancel does not look at it.                                       *)

Enter ==
    /\ accepting
    /\ entered < MaxEntered
    /\ entered' = entered + 1
    /\ UNCHANGED <<vars, loop, stopping, storageError, shutdown, accepting, control, task>>

Served ==
    \/ Died
    \/ /\ Alive
       /\ entered' = entered - 1
       /\ UNCHANGED <<loop, stopping, storageError, shutdown, accepting, control, task>>

SubmitRequest(r, p) == Unlocked /\ entered > 0 /\ Submit(r, p) /\ Served
RetryRequest(id) == Unlocked /\ entered > 0 /\ Retry(id) /\ Served

(* Full, invalid, not found, or a ledger that could not be written.        *)
RefuseRequest ==
    /\ Unlocked
    /\ entered > 0
    /\ entered' = entered - 1
    /\ UNCHANGED <<vars, loop, stopping, storageError, shutdown, accepting, control, task>>

CancelRequest(id) ==
    /\ Unlocked
    /\ Cancel(id)
    /\ Died \/ (Alive /\ UNCHANGED service)

-----------------------------------------------------------------------------
(* The worker loop *)

(* Mutation of Ended: the loop stops without waiting for its tasks.        *)
EndedAtOnce(tasks) == "done"

(* The loop ends when it is stopping and no task is left.                  *)
Ended(tasks) == IF DOMAIN tasks = {} THEN "done" ELSE "select"

(* Mutation of TopStopping: the tasks are not told to stop. *)
TopStoppingSilent ==
    /\ loop = "top"
    /\ stopping \/ shutdown
    /\ stopping' = TRUE
    /\ loop' = Ended(task)
    /\ accepting' = (accepting /\ ~shutdown /\ loop' # "done")
    /\ UNCHANGED <<vars, storageError, shutdown, entered, control, task>>

TopStopping ==
    /\ loop = "top"
    /\ stopping \/ shutdown
    /\ stopping' = TRUE
    /\ control' = [id \in DOMAIN control |-> TRUE]
    /\ loop' = Ended(task)
    /\ accepting' = (accepting /\ ~shutdown /\ loop' # "done")
    /\ UNCHANGED <<vars, storageError, shutdown, entered, task>>

(* Mutation of TopSweep: cancellations are not passed to the tasks. *)
TopSweepSilent ==
    /\ loop = "top"
    /\ ~stopping /\ ~shutdown
    /\ loop' = "claiming"
    /\ UNCHANGED <<vars, stopping, storageError, shutdown, accepting, entered, control, task>>

TopSweep ==
    /\ loop = "top"
    /\ ~stopping /\ ~shutdown
    /\ control' = [id \in DOMAIN control |->
                      control[id] \/ ledger.jobs[id].status = "cancelling"]
    /\ loop' = "claiming"
    /\ UNCHANGED <<vars, stopping, storageError, shutdown, accepting, entered, task>>

NewTask == [at |-> "working", late |-> FALSE, ok |-> FALSE]

ClaimNext(id) ==
    /\ loop = "claiming"
    /\ Claim(id)
    /\ \/ Died
       \/ /\ Alive
          /\ control' = With1(control, id, FALSE)
          /\ task' = With1(task, id, NewTask)
          /\ UNCHANGED <<loop, stopping, storageError, shutdown, accepting, entered>>

NothingToClaim ==
    \/ Cardinality(With(ledger.jobs, Active)) >= MaxRunning
    \/ Claimable = {}

ClaimNone ==
    /\ loop = "claiming"
    /\ NothingToClaim
    /\ loop' = "select"
    /\ UNCHANGED <<vars, stopping, storageError, shutdown, accepting, entered, control, task>>

ClaimFails ==
    /\ loop = "claiming"
    /\ ~NothingToClaim
    /\ storageError' = TRUE
    /\ stopping' = TRUE
    /\ accepting' = FALSE
    /\ loop' = Ended(task)
    /\ UNCHANGED <<vars, shutdown, entered, control, task>>

(* A wake-up, or the 250 ms timer.                                         *)
Tick ==
    /\ loop = "select"
    /\ loop' = "top"
    /\ UNCHANGED <<vars, stopping, storageError, shutdown, accepting, entered, control, task>>

NoticeShutdown ==
    /\ loop = "select"
    /\ shutdown /\ ~stopping
    /\ stopping' = TRUE
    /\ accepting' = FALSE
    /\ loop' = "top"
    /\ UNCHANGED <<vars, storageError, shutdown, entered, control, task>>

(* Mutation of Succeeded: the deadline does not outweigh the result.       *)
SucceededAnyway(t) == t.ok

(* The result a task reports: execute discards the work of a late job.     *)
Succeeded(t) == t.ok /\ ~t.late

(* Mutation of Forget: the control of the joined task stays. *)
ForgetTask(id) ==
    /\ loop' = "top"
    /\ control' = control
    /\ task' = Remove(task, {id})

Forget(id) ==
    /\ loop' = "top"
    /\ control' = Remove(control, {id})
    /\ task' = Remove(task, {id})

Join(id) ==
    /\ loop = "select"
    /\ id \in DOMAIN task
    /\ task[id].at = "returned"
    /\ Finish(id, ~Succeeded(task[id]), Succeeded(task[id]))
    /\ \/ Died
       \/ Alive /\ Forget(id) /\ UNCHANGED <<stopping, storageError, shutdown, accepting, entered>>

(* Mutation of JoinFails: the failure is ignored and the loop goes on. *)
JoinFailsSilently(id) ==
    /\ loop = "select"
    /\ id \in DOMAIN task
    /\ task[id].at = "returned"
    /\ Forget(id)
    /\ UNCHANGED <<vars, stopping, storageError, shutdown, accepting, entered>>

(* The end of the job could not be written: it keeps its slot until the    *)
(* next start, and the loop drains what is left.                           *)
JoinFails(id) ==
    /\ loop = "select"
    /\ id \in DOMAIN task
    /\ task[id].at = "returned"
    /\ Forget(id)
    /\ storageError' = TRUE
    /\ stopping' = TRUE
    /\ UNCHANGED <<vars, shutdown, accepting, entered>>

-----------------------------------------------------------------------------
(* A task: execute and pipeline *)

At(id, where) == id \in DOMAIN task /\ task[id].at = where

UnchangedButTask == UNCHANGED <<loop, stopping, storageError, shutdown, accepting, entered, control>>

Report(id, failed) ==
    /\ Unlocked
    /\ At(id, "working")
    /\ Progress(id, failed)
    /\ Died \/ (Alive /\ UNCHANGED service)

Returned(id, ok) == task' = [task EXCEPT ![id].at = "returned", ![id].ok = ok]

(* An error, a panic or a progress report that could not be written.       *)
WorkFails(id) ==
    /\ At(id, "working") \/ At(id, "final")
    /\ Returned(id, FALSE)
    /\ UnchangedButTask
    /\ UNCHANGED vars

ObserveStop(id) ==
    /\ At(id, "working")
    /\ control[id]
    /\ Returned(id, FALSE)
    /\ UnchangedButTask
    /\ UNCHANGED vars

WorkDone(id) ==
    /\ At(id, "working")
    /\ ~control[id]
    /\ task' = [task EXCEPT ![id].at = "final"]
    /\ UnchangedButTask
    /\ UNCHANGED vars

FinalProgress(id) ==
    /\ Unlocked
    /\ At(id, "final")
    /\ Progress(id, FALSE)
    /\ Died \/ (Alive /\ Returned(id, TRUE) /\ UnchangedButTask)

(* Mutation of Deadline: the late task is not told to stop. *)
DeadlineUnheard(id) ==
    /\ At(id, "working") \/ At(id, "final")
    /\ ~task[id].late
    /\ task' = [task EXCEPT ![id].late = TRUE]
    /\ UNCHANGED <<vars, loop, stopping, storageError, shutdown, accepting, entered, control>>

Deadline(id) ==
    /\ At(id, "working") \/ At(id, "final")
    /\ ~task[id].late
    /\ task' = [task EXCEPT ![id].late = TRUE]
    /\ control' = [control EXCEPT ![id] = TRUE]
    /\ UNCHANGED <<vars, loop, stopping, storageError, shutdown, accepting, entered>>

-----------------------------------------------------------------------------
ServiceInit == Init /\ loop = "off" /\ stopping = FALSE /\ storageError = FALSE
               /\ shutdown = FALSE /\ accepting = FALSE /\ entered = 0
               /\ control = <<>> /\ task = <<>>

Claiming == (\E id \in JobIds : ClaimNext(id)) \/ ClaimNone \/ ClaimFails
Joining(id) == Join(id) \/ JoinFails(id)

ServiceNext ==
    \/ OpenService \/ Start \/ Die \/ Signal \/ Enter \/ RefuseRequest
    \/ \E r \in Regions, p \in Profiles : SubmitRequest(r, p)
    \/ \E id \in JobIds : RetryRequest(id) \/ CancelRequest(id)
    \/ TopStopping \/ TopSweep \/ Claiming \/ Tick \/ NoticeShutdown
    \/ \E id \in JobIds : Joining(id)
    \/ \E id \in JobIds, failed \in BOOLEAN : Report(id, failed)
    \/ \E id \in JobIds : WorkFails(id) \/ ObserveStop(id) \/ WorkDone(id)
                          \/ FinalProgress(id) \/ Deadline(id)

ServiceSpec == ServiceInit /\ [][ServiceNext]_allVars

(* The loop is one task of a runtime that never stops; select! picks among *)
(* its ready branches at random and the ledger lock is a fair queue, so a  *)
(* branch or a waiter that is ready again and again is served.  Every      *)
(* stage of the pipeline looks at its stop channel; nothing says that its  *)
(* work ever ends.                                                         *)
Fairness ==
    /\ WF_allVars(TopStopping) /\ WF_allVars(TopSweep) /\ WF_allVars(Claiming)
    /\ WF_allVars(Tick) /\ SF_allVars(NoticeShutdown)
    /\ \A id \in JobIds :
          /\ SF_allVars(Joining(id))
          /\ WF_allVars(ObserveStop(id))
          /\ SF_allVars(FinalProgress(id))

FairSpec == ServiceSpec /\ Fairness

(* The deadline of a job is a timer; QueuedRuns says what holds if timers  *)
(* fire.                                                                   *)
TimersFire == \A id \in JobIds : WF_allVars(Deadline(id))

-----------------------------------------------------------------------------
(* Properties *)

\* Every variable of the service has its type; a task always has its control.
ServiceTypeOK ==
    /\ loop \in {"off", "top", "claiming", "select", "done"}
    /\ {stopping, storageError, shutdown, accepting} \subseteq BOOLEAN
    /\ entered \in 0 .. MaxEntered
    /\ DOMAIN task \subseteq JobIds
    /\ \A id \in DOMAIN task : task[id] \in Task
    /\ DOMAIN control = DOMAIN task
    /\ \A id \in DOMAIN control : control[id] \in BOOLEAN

\* A task keeps its slot until it has ended and was joined, whatever was
\* cancelled or timed out meanwhile, so two tasks never work on one region
\* (run_job_workers, execute).
WorkerHoldsSlot ==
    /\ DOMAIN task \subseteq With(ledger.jobs, Active)
    /\ \A i, j \in DOMAIN task : ledger.jobs[i].region = ledger.jobs[j].region => i = j

\* A slot is never leaked: while the ledger can be written every job that
\* occupies one has its task.
SlotHasWorker ==
    phase = "serving" /\ ~storageError => With(ledger.jobs, Active) \subseteq DOMAIN task

\* The loop ends with nothing running, nothing accepted any more and, unless
\* the ledger failed, no job left in a slot (run_job_workers).
EndsClean ==
    loop = "done" =>
        /\ DOMAIN task = {}
        /\ ~accepting
        /\ ~storageError => With(ledger.jobs, Active) = {}

\* A job whose deadline has passed is never completed afterwards, even when
\* its pipeline went through (execute).
DeadlineIsFinal ==
    [][\A id \in DOMAIN task :
        task[id].late /\ id \in DOMAIN ledger'.jobs => ledger'.jobs[id].status # "completed"]_allVars

Gone(id) == phase # "serving" \/ storageError \/ id \notin DOMAIN ledger.jobs

\* A cancellation that was accepted ends: the job does not stay cancelling
\* unless the process dies or its ledger cannot be written.
CancellationEnds ==
    \A id \in JobIds :
        (id \in DOMAIN ledger.jobs /\ ledger.jobs[id].status = "cancelling")
            ~> (Gone(id) \/ ledger.jobs[id].status \in Terminal)

\* A queued job starts, however long its predecessors run, unless the service
\* stops or the job is cancelled.
QueuedRuns ==
    TimersFire => \A id \in JobIds :
        (id \in DOMAIN ledger.jobs /\ ledger.jobs[id].status = "queued")
            ~> (Gone(id) \/ shutdown \/ ledger.jobs[id].status # "queued")

\* After a shutdown request the loop drains its tasks and ends.
ShutdownDrains == shutdown ~> (loop = "done" \/ phase = "down")
\* The state of the loop: tasks and slots belong to each other, and the loop
\* ends clean.
ServiceInv == ServiceTypeOK /\ WorkerHoldsSlot /\ SlotHasWorker /\ EndsClean

\* Everything that was told to stop stops.
StopsEnd == CancellationEnds /\ ShutdownDrains
=============================================================================
