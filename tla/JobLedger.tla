----------------------------- MODULE JobLedger -----------------------------
(***************************************************************************)
(* The durable job ledger of src/jobs.rs (JobStore).                       *)
(*                                                                         *)
(* One process at a time owns the ledger.  Every operation computes a new  *)
(* ledger, writes it to jobs.json by an atomic rename and only then makes  *)
(* it the ledger in memory (commit).  A write that fails changes neither   *)
(* copy, which is a stuttering step here; a process that dies after the    *)
(* rename leaves the new ledger on disk and answers nobody.                *)
(*                                                                         *)
(* Jobs are numbered in the order of the Vec they are pushed to, so the    *)
(* order of the numbers is the order of the queue.  Dates are readings of  *)
(* the wall clock (any member of Clock, in any order): only the date at    *)
(* which a job ended is ever compared, by the retention of commit.         *)
(***************************************************************************)
EXTENDS Integers, FiniteSets

CONSTANTS
    Regions,        \* the regions the service accepts (region.rs, CN excluded)
    Profiles,       \* the configured profiles a request names
    Keys, NoKey,    \* digests of idempotency keys, and their absence
    Targets,        \* identities of the recipients of completion notices
    TargetRegion,   \* the region each recipient listens to
    MaxRunning, MaxQueued, Retain,  \* Limits
    MaxEvents,      \* MAX_COMPLETION_EVENTS
    MaxJobs,        \* bound of the model: jobs ever accepted
    Clock           \* readings of Utc::now()

ASSUME LimitsAssumption ==
    /\ MaxRunning \in Nat \ {0}
    /\ MaxQueued \in Nat \ {0}
    /\ Retain \in Nat
    /\ MaxEvents \in Nat
    /\ MaxJobs \in Nat
ASSUME TargetAssumption == TargetRegion \in [Targets -> Regions]
ASSUME ClockAssumption == Clock \subseteq Nat
ASSUME KeyAssumption == NoKey \notin Keys

VARIABLES
    phase,      \* "down", "opened" (JobStore::open returned), "serving"
    ledger,     \* JobStore.ledger, the copy in memory
    disk,       \* jobs.json
    targets,    \* JobStore.completion_targets
    accepted,   \* jobs ever pushed to the ledger
    owed        \* history: notices due by a completed job, not acknowledged yet

vars == <<phase, ledger, disk, targets, accepted, owed>>

JobIds == 1 .. MaxJobs
Active == {"running", "cancelling"}
Terminal == {"completed", "failed", "cancelled"}
Status == {"queued"} \cup Active \cup Terminal
Job == [region: Regions, profile: Profiles, key: Keys \cup {NoKey},
        status: Status, failed: BOOLEAN, outcome: BOOLEAN, ended: Nat]

(* A delivery keeps the recipients that have not acknowledged it and its   *)
(* index in the Vec of deliveries.                                         *)
Delivery == [pos: 1 .. MaxEvents, pending: SUBSET Targets]

EmptyLedger == [jobs |-> <<>>, completions |-> <<>>]

With(js, S) == {j \in DOMAIN js : js[j].status \in S}
TargetsOf(r, ts) == {t \in ts : TargetRegion[t] = r}
Reserved(js, ts) ==
    {j \in DOMAIN js : js[j].status \notin Terminal /\ TargetsOf(js[j].region, ts) # {}}
Remove(f, S) == [x \in DOMAIN f \ S |-> f[x]]

(* What open accepts of a jobs.json: anything else is an error and the     *)
(* service cannot start.                                                   *)
Valid(l) ==
    /\ Cardinality(DOMAIN l.completions) <= MaxEvents
    /\ \A j \in DOMAIN l.completions : l.completions[j].pending # {}
    /\ \A i, j \in DOMAIN l.jobs :
          l.jobs[i].key # NoKey /\ l.jobs[i].key = l.jobs[j].key => i = j

-----------------------------------------------------------------------------
(* commit *)

(* The deliveries of the jobs that js completes and old does not.          *)
NewlyCompleted(old, js) ==
    {j \in DOMAIN js :
        /\ js[j].status = "completed"
        /\ ~(j \in DOMAIN old /\ old[j].status = "completed")
        /\ js[j].outcome
        /\ TargetsOf(js[j].region, targets) # {}}

Announce(cs, new, js) ==
    [j \in DOMAIN cs \cup new |->
        IF j \in new
        THEN [pos |-> Cardinality(DOMAIN cs) + 1,
              pending |-> TargetsOf(js[j].region, targets)]
        ELSE cs[j]]

(* Mutation of Prunable: the newest jobs go instead of the oldest. *)
PrunableNewest(js) ==
    LET ended == With(js, Terminal) IN
    {new \in SUBSET ended :
        /\ Cardinality(new) = IF Cardinality(ended) > Retain
                              THEN Cardinality(ended) - Retain ELSE 0
        /\ \A i \in new, j \in ended \ new : js[i].ended >= js[j].ended}

(* The oldest ended jobs beyond the retained number; dates that are equal  *)
(* are told apart by random identifiers.                                   *)
Prunable(js) ==
    LET ended == With(js, Terminal) IN
    IF Retain = 0 THEN {{}}
    ELSE {old \in SUBSET ended :
            /\ Cardinality(old) = IF Cardinality(ended) > Retain
                                  THEN Cardinality(ended) - Retain ELSE 0
            /\ \A i \in old, j \in ended \ old : js[i].ended <= js[j].ended}

Stop ==
    /\ phase' = "down"
    /\ ledger' = EmptyLedger
    /\ targets' = {}

(* Mutation of Write: the copy in memory is replaced before a write that   *)
(* may fail.                                                               *)
WriteMemoryFirst(next, up) ==
    /\ disk' \in {next, disk}
    /\ ledger' = next
    /\ phase' = up
    /\ UNCHANGED targets

Write(next, up) ==
    /\ disk' = next
    /\ \/ ledger' = next /\ phase' = up /\ UNCHANGED targets
       \/ Stop

Commit(old, js, cs, up) ==
    LET new == NewlyCompleted(old, js) IN
    /\ Cardinality(DOMAIN cs) + Cardinality(new) <= MaxEvents
    /\ \E gone \in Prunable(js) :
          Write([jobs |-> Remove(js, gone), completions |-> Announce(cs, new, js)], up)

(* An operation of the running store.                                      *)
CommitJobs(js) == Commit(ledger.jobs, js, ledger.completions, phase)

-----------------------------------------------------------------------------
(* Opening the ledger *)

(* Mutation of Interrupt: every job that has not ended is failed. *)
InterruptAll(js, at) ==
    [j \in DOMAIN js |->
        IF js[j].status \in Terminal THEN js[j]
        ELSE [js[j] EXCEPT !.status = "failed", !.outcome = FALSE,
                           !.ended = IF j \in DOMAIN at THEN at[j] ELSE 0]]

Interrupt(js, at) ==
    [j \in DOMAIN js |->
        IF js[j].status \in Active
        THEN [js[j] EXCEPT !.status = "failed", !.outcome = FALSE, !.ended = at[j]]
        ELSE js[j]]

Open ==
    /\ phase = "down"
    /\ Valid(disk)
    /\ \E at \in [With(disk.jobs, Active) -> Clock] :
          LET js == Interrupt(disk.jobs, at) IN Commit(js, js, disk.completions, "opened")
    /\ UNCHANGED <<accepted, owed>>

Configure(ts) ==
    /\ phase = "opened"
    /\ Cardinality(Reserved(ledger.jobs, ts)) + Cardinality(DOMAIN ledger.completions)
          <= MaxEvents
    /\ targets' = ts
    /\ phase' = "serving"
    /\ UNCHANGED <<ledger, disk, accepted, owed>>

(* The owner dies, exits, or gives up because its recipients do not fit.   *)
Crash ==
    /\ phase # "down"
    /\ Stop
    /\ UNCHANGED <<disk, accepted, owed>>

-----------------------------------------------------------------------------
(* Requests *)

(* Mutation of Room: only the deliveries already waiting are counted. *)
RoomUnreserved(r) ==
    /\ Cardinality(With(ledger.jobs, {"queued"})) < MaxQueued
    /\ TargetsOf(r, targets) # {} => Cardinality(DOMAIN ledger.completions) < MaxEvents

Room(r) ==
    /\ Cardinality(With(ledger.jobs, {"queued"})) < MaxQueued
    /\ TargetsOf(r, targets) # {} =>
          Cardinality(DOMAIN ledger.completions) + Cardinality(Reserved(ledger.jobs, targets))
             < MaxEvents

NewJob(r, p, k) ==
    [region |-> r, profile |-> p, key |-> k, status |-> "queued",
     failed |-> FALSE, outcome |-> FALSE, ended |-> 0]

Enqueue(r, p, k) ==
    /\ phase = "serving"
    /\ accepted < MaxJobs
    /\ Room(r)
    /\ accepted' = accepted + 1
    /\ CommitJobs([j \in DOMAIN ledger.jobs \cup {accepted + 1} |->
                      IF j = accepted + 1 THEN NewJob(r, p, k) ELSE ledger.jobs[j]])
    /\ UNCHANGED owed

Submit(r, p) == Enqueue(r, p, NoKey)

(* Mutation of SubmitIdempotent: ended jobs no longer hold their key. *)
SubmitIdempotentUnlessEnded(r, p, k) ==
    /\ \A j \in DOMAIN ledger.jobs :
          ledger.jobs[j].key = k => ledger.jobs[j].status \in Terminal
    /\ Enqueue(r, p, k)

(* A retained job with the same key answers the request (the job itself,   *)
(* or a conflict when the request differs): the ledger does not change.    *)
SubmitIdempotent(r, p, k) ==
    /\ \A j \in DOMAIN ledger.jobs : ledger.jobs[j].key # k
    /\ Enqueue(r, p, k)

Retry(id) ==
    /\ id \in With(ledger.jobs, {"failed", "cancelled"})
    /\ Enqueue(ledger.jobs[id].region, ledger.jobs[id].profile, NoKey)

-----------------------------------------------------------------------------
(* Transitions of one job *)

(* Mutation of Claimable: a job being cancelled no longer holds its region. *)
ClaimableWhileCancelling ==
    LET busy == {ledger.jobs[j].region : j \in With(ledger.jobs, {"running"})} IN
    {j \in With(ledger.jobs, {"queued"}) : ledger.jobs[j].region \notin busy}

Claimable ==
    LET busy == {ledger.jobs[j].region : j \in With(ledger.jobs, Active)} IN
    {j \in With(ledger.jobs, {"queued"}) : ledger.jobs[j].region \notin busy}

(* Mutation of Claim: any runnable job, not the first of the queue. *)
ClaimAny(id) ==
    /\ phase = "serving"
    /\ Cardinality(With(ledger.jobs, Active)) < MaxRunning
    /\ id \in Claimable
    /\ CommitJobs([ledger.jobs EXCEPT ![id].status = "running"])
    /\ UNCHANGED <<accepted, owed>>

Claim(id) ==
    /\ phase = "serving"
    /\ Cardinality(With(ledger.jobs, Active)) < MaxRunning
    /\ id \in Claimable
    /\ \A j \in Claimable : id <= j
    /\ CommitJobs([ledger.jobs EXCEPT ![id].status = "running"])
    /\ UNCHANGED <<accepted, owed>>

(* Mutation of Cancel: a running job gives its slot up at once. *)
CancelAtOnce(id) ==
    /\ phase = "serving"
    /\ id \in DOMAIN ledger.jobs
    /\ ledger.jobs[id].status \notin Terminal
    /\ \E now \in Clock :
          CommitJobs([ledger.jobs EXCEPT ![id].status = "cancelled", ![id].ended = now])
    /\ UNCHANGED <<accepted, owed>>

Cancel(id) ==
    /\ phase = "serving"
    /\ id \in DOMAIN ledger.jobs
    /\ \/ /\ ledger.jobs[id].status = "queued"
          /\ \E now \in Clock :
                CommitJobs([ledger.jobs EXCEPT ![id].status = "cancelled", ![id].ended = now])
       \/ /\ ledger.jobs[id].status \in Active
          /\ CommitJobs([ledger.jobs EXCEPT ![id].status = "cancelling"])
    /\ UNCHANGED <<accepted, owed>>

Progress(id, failed) ==
    /\ phase = "serving"
    /\ id \in With(ledger.jobs, Active)
    /\ CommitJobs([ledger.jobs EXCEPT ![id].failed = failed])
    /\ UNCHANGED <<accepted, owed>>

(* Mutation of FinalStatus: a worker that finishes anyway wins over the    *)
(* cancellation.                                                           *)
FinalStatusOfWork(job, code) ==
    IF code \/ job.failed THEN "failed" ELSE "completed"

FinalStatus(job, code) ==
    IF job.status = "cancelling" THEN "cancelled"
    ELSE IF code \/ job.failed THEN "failed" ELSE "completed"

(* code: the worker reports a failure; outcome: it hands over a result.    *)
Finish(id, code, outcome) ==
    /\ phase = "serving"
    /\ id \in With(ledger.jobs, Active)
    /\ LET job == ledger.jobs[id]
           end == FinalStatus(job, code)
       IN /\ \E now \in Clock :
                CommitJobs([ledger.jobs EXCEPT
                    ![id] = [job EXCEPT !.status = end,
                                        !.outcome = outcome /\ end = "completed",
                                        !.ended = now]])
          /\ owed' = IF outcome /\ end = "completed"
                     THEN owed \cup ({id} \X TargetsOf(job.region, targets))
                     ELSE owed
    /\ UNCHANGED accepted

-----------------------------------------------------------------------------
(* Acknowledged notices *)

(* Mutation of Acknowledged: every later or earlier delivery moves up. *)
AcknowledgedShiftAll(cs, id, t) ==
    LET left == cs[id].pending \ {t} IN
    IF left # {} THEN [cs EXCEPT ![id].pending = left]
    ELSE [j \in DOMAIN cs \ {id} |-> [cs[j] EXCEPT !.pos = @ - 1]]

(* Mutation of Acknowledged: the first recipient acknowledges for all. *)
AcknowledgedAtOnce(cs, id, t) ==
    [j \in DOMAIN cs \ {id} |->
        IF cs[j].pos > cs[id].pos THEN [cs[j] EXCEPT !.pos = @ - 1] ELSE cs[j]]

Acknowledged(cs, id, t) ==
    LET left == cs[id].pending \ {t} IN
    IF left # {} THEN [cs EXCEPT ![id].pending = left]
    ELSE [j \in DOMAIN cs \ {id} |->
             IF cs[j].pos > cs[id].pos THEN [cs[j] EXCEPT !.pos = @ - 1] ELSE cs[j]]

Acknowledge(id, t) ==
    /\ phase = "serving"
    /\ id \in DOMAIN ledger.completions
    /\ t \in ledger.completions[id].pending
    /\ Commit(ledger.jobs, ledger.jobs, Acknowledged(ledger.completions, id, t), phase)
    /\ owed' = owed \ {<<id, t>>}
    /\ UNCHANGED accepted

-----------------------------------------------------------------------------
Init ==
    /\ phase = "down"
    /\ ledger = EmptyLedger
    /\ disk = EmptyLedger
    /\ targets = {}
    /\ accepted = 0
    /\ owed = {}

Next ==
    \/ Open
    \/ \E ts \in SUBSET Targets : Configure(ts)
    \/ Crash
    \/ \E r \in Regions, p \in Profiles : Submit(r, p)
    \/ \E r \in Regions, p \in Profiles, k \in Keys : SubmitIdempotent(r, p, k)
    \/ \E id \in JobIds : Retry(id)
    \/ \E id \in JobIds : Claim(id)
    \/ \E id \in JobIds : Cancel(id)
    \/ \E id \in JobIds, failed \in BOOLEAN : Progress(id, failed)
    \/ \E id \in JobIds, code, outcome \in BOOLEAN : Finish(id, code, outcome)
    \/ \E id \in JobIds, t \in Targets : Acknowledge(id, t)

Spec == Init /\ [][Next]_vars

-----------------------------------------------------------------------------
(* Properties *)

JobsType(js, n) ==
    /\ DOMAIN js \subseteq 1 .. n
    /\ \A j \in DOMAIN js : js[j] \in Job
DeliveriesType(cs, n) ==
    /\ DOMAIN cs \subseteq 1 .. n
    /\ \A j \in DOMAIN cs : cs[j] \in Delivery
LedgerType(l, n) == JobsType(l.jobs, n) /\ DeliveriesType(l.completions, n)

Exclusive(js) ==
    \A i, j \in With(js, Active) : js[i].region = js[j].region => i = j

\* Every variable has its type: the copies of the ledger hold only jobs that
\* were accepted, and deliveries with a place in the queue of MaxEvents.
TypeOK ==
    /\ phase \in {"down", "opened", "serving"}
    /\ targets \subseteq Targets
    /\ accepted \in 0 .. MaxJobs
    /\ LedgerType(ledger, accepted)
    /\ LedgerType(disk, accepted)
    /\ owed \subseteq JobIds \X Targets

\* A write that is refused or interrupted never leaves the two copies apart:
\* what the running store answers is what a restart will read (commit, open).
MemoryIsDurable == phase # "down" => ledger = disk

\* The two copies of the ledger: what they hold, and that they agree.
Inv == TypeOK /\ MemoryIsDurable

\* At most one job of a region occupies a slot, and no more than MaxRunning
\* altogether, whatever cancellations, crashes and retries came before
\* (claim, finish_with_outcome, open).
SlotsExclusive ==
    /\ Exclusive(disk.jobs)
    /\ Cardinality(With(disk.jobs, Active)) <= MaxRunning

\* The service never writes a ledger that open would refuse: keys stay unique
\* among the retained jobs, no delivery waits for nobody, and the outbox fits.
Reopenable == Valid(disk)

\* The admission test of enqueue and configure_completions keeps a place in
\* the outbox for every job that may still complete, so no finished job is
\* ever refused with JobError::Full.
OutboxReserved ==
    phase = "serving" =>
        Cardinality(DOMAIN ledger.completions) + Cardinality(Reserved(ledger.jobs, targets))
            <= MaxEvents

\* The outbox on disk holds exactly the notices that completed jobs owe and
\* nobody acknowledged: retention, crashes and new recipients lose and invent
\* none (commit, acknowledge_completion).
OutboxExact ==
    /\ owed = {n \in JobIds \X Targets :
                 n[1] \in DOMAIN disk.completions /\ n[2] \in disk.completions[n[1]].pending}
    /\ \A i, j \in DOMAIN disk.completions :
          disk.completions[i].pos = disk.completions[j].pos => i = j
    /\ \A j \in DOMAIN disk.completions :
          disk.completions[j].pos <= Cardinality(DOMAIN disk.completions)

\* Jobs of one region start in the order they were accepted: a job that has
\* started leaves no earlier job of its region in the queue, across restarts
\* (enqueue, claim, open).
StartedInOrder ==
    \A i, j \in DOMAIN disk.jobs :
        i < j /\ disk.jobs[i].region = disk.jobs[j].region /\ disk.jobs[i].status = "queued"
            => disk.jobs[j].status \in {"queued", "cancelled"}

\* The life of a job on disk: an ended job never changes, a cancellation that
\* was accepted never turns into a completion, and a queued job ends only by
\* being cancelled (cancel, finish_with_outcome, open).
Lives ==
    \A j \in DOMAIN disk.jobs \cap DOMAIN disk'.jobs :
        LET before == disk.jobs[j]
            after == disk'.jobs[j]
        IN /\ before.status \in Terminal => after = before
           /\ before.status = "cancelling" => after.status \in {"cancelling", "cancelled", "failed"}
           /\ before.status = "queued" => after.status \in {"queued", "running", "cancelled"}
           /\ before.key = after.key /\ before.region = after.region

LifeCycle == [][Lives]_disk

\* Work waiting on disk when a service dies is still waiting, unchanged, when
\* the next one has opened the ledger, and nothing is left occupying a slot.
Survives ==
    phase = "down" =>
        /\ \A j \in With(disk.jobs, {"queued"}) :
              j \in DOMAIN disk'.jobs /\ disk'.jobs[j] = disk.jobs[j]
        /\ With(disk'.jobs, Active) = {}
        /\ disk'.completions = disk.completions

QueueSurvivesRestart == [][Survives]_disk

\* Records leave the ledger only through retention: the window is then full
\* of ended jobs and none of them ended before a record that was dropped.
KeepsNewest ==
    \A j \in DOMAIN disk.jobs \ DOMAIN disk'.jobs :
        /\ Retain > 0
        /\ Cardinality(With(disk'.jobs, Terminal)) = Retain
        /\ disk.jobs[j].status \in Terminal =>
              \A k \in With(disk'.jobs, Terminal) : disk.jobs[j].ended <= disk'.jobs[k].ended

RetentionKeepsNewest == [][KeepsNewest]_disk

\* docs/JOB_SERVICE.md says of a restart: interrupted running jobs become
\* failed and can be retried explicitly.  open itself prunes beyond Retain.
InterruptedRetriable ==
    [][phase = "down" =>
        \A j \in With(disk.jobs, Active) :
            j \in DOMAIN disk'.jobs /\ disk'.jobs[j].status = "failed"]_disk
\* What happens to records on disk, through requests, ends, retention and
\* restarts.
RecordsKept == LifeCycle /\ QueueSurvivesRestart /\ RetentionKeepsNewest
=============================================================================
