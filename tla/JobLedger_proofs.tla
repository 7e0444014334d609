-------------------------- MODULE JobLedger_proofs --------------------------
(***************************************************************************)
(* Theorems about the job ledger and about the service that works on it,   *)
(* for every value of their constants.  The first part speaks of every     *)
(* behaviour of the ledger (Spec); the second shows that a service is one  *)
(* of them and what its tasks and the slots of the ledger have to do with  *)
(* each other (ServiceSpec).                                               *)
(***************************************************************************)
EXTENDS JobService, FiniteSetTheorems, TLAPS

(* A write of jobs and deliveries that have their types leaves the copies  *)
(* of the ledger with their types.                                         *)
LEMMA CommitType ==
    ASSUME NEW n \in Nat, n <= MaxJobs, NEW old, NEW js, NEW cs,
           NEW up \in {"down", "opened", "serving"},
           JobsType(js, n), DeliveriesType(cs, n), targets \subseteq Targets,
           Commit(old, js, cs, up)
    PROVE  /\ LedgerType(disk', n)
           /\ LedgerType(ledger', n)
           /\ targets' \subseteq Targets
           /\ phase' \in {"down", "opened", "serving"}
<1> DEFINE new == NewlyCompleted(old, js)
<1>1. IsFiniteSet(1 .. n)
  BY FS_Interval
<1>2. new \subseteq DOMAIN js /\ DOMAIN js \subseteq 1 .. n /\ DOMAIN cs \subseteq 1 .. n
  BY DEF NewlyCompleted, JobsType, DeliveriesType
<1>3. IsFiniteSet(new) /\ IsFiniteSet(DOMAIN cs)
  BY <1>1, <1>2, FS_Subset
<1>4. Cardinality(new) \in Nat /\ Cardinality(DOMAIN cs) \in Nat
  BY <1>3, FS_CardinalityType
<1>5. Cardinality(DOMAIN cs) + Cardinality(new) <= MaxEvents
  BY DEF Commit
<1>6. ASSUME NEW j \in new
      PROVE  Cardinality(DOMAIN cs) + 1 \in 1 .. MaxEvents
  <2>1. Cardinality(new) # 0
    BY <1>3, FS_EmptySet
  <2>2. QED
    BY <2>1, <1>4, <1>5, LimitsAssumption
<1>7. DeliveriesType(Announce(cs, new, js), n)
  <2>1. DOMAIN Announce(cs, new, js) \subseteq 1 .. n
    BY <1>2 DEF Announce
  <2>2. ASSUME NEW j \in DOMAIN Announce(cs, new, js)
        PROVE  Announce(cs, new, js)[j] \in Delivery
    <3>1. CASE j \in new
      <4>1. TargetsOf(js[j].region, targets) \subseteq Targets
        BY DEF TargetsOf
      <4>2. Announce(cs, new, js)[j] =
              [pos |-> Cardinality(DOMAIN cs) + 1, pending |-> TargetsOf(js[j].region, targets)]
        BY <3>1 DEF Announce
      <4>3. QED
        BY <4>1, <4>2, <3>1, <1>6 DEF Delivery
    <3>2. CASE j \notin new
      BY <3>2 DEF Announce, DeliveriesType
    <3>3. QED
      BY <3>1, <3>2
  <2>3. QED
    BY <2>1, <2>2 DEF DeliveriesType
<1>8. ASSUME NEW gone
      PROVE  LedgerType([jobs |-> Remove(js, gone), completions |-> Announce(cs, new, js)], n)
  BY <1>7 DEF LedgerType, JobsType, Remove
<1>9. LedgerType(EmptyLedger, n)
  BY DEF LedgerType, EmptyLedger, JobsType, DeliveriesType
<1>10. QED
  BY <1>8, <1>9 DEF Commit, Write, Stop

(* The copies read a state whose types hold, so every operation hands      *)
(* commit jobs and deliveries that have their types.                       *)
LEMMA TypeStep == TypeOK /\ [Next]_vars => TypeOK'
<1> SUFFICES ASSUME TypeOK, [Next]_vars
             PROVE  TypeOK'
  OBVIOUS
<1> USE LimitsAssumption, ClockAssumption
<1> DEFINE Phases == {"down", "opened", "serving"}
<1>1. /\ accepted \in Nat /\ accepted <= MaxJobs
      /\ LedgerType(ledger, accepted) /\ LedgerType(disk, accepted)
      /\ targets \subseteq Targets /\ phase \in Phases /\ owed \subseteq JobIds \X Targets
  BY DEF TypeOK
<1>2. JobsType(ledger.jobs, accepted) /\ DeliveriesType(ledger.completions, accepted)
  BY <1>1 DEF LedgerType
<1>3. JobsType(disk.jobs, accepted) /\ DeliveriesType(disk.completions, accepted)
  BY <1>1 DEF LedgerType
<1>4. ASSUME NEW js, JobsType(js, accepted), CommitJobs(js), accepted' = accepted,
             owed' \subseteq JobIds \X Targets
      PROVE  TypeOK'
  BY <1>1, <1>2, <1>4, CommitType DEF CommitJobs, TypeOK
<1>5. CASE Open
  <2>1. PICK at \in [With(disk.jobs, Active) -> Clock] :
          Commit(Interrupt(disk.jobs, at), Interrupt(disk.jobs, at), disk.completions, "opened")
    BY <1>5 DEF Open
  <2>2. JobsType(Interrupt(disk.jobs, at), accepted)
    BY <1>3, <2>1 DEF JobsType, Interrupt, Job, With, Status, Active, Terminal
  <2>3. QED
    BY <1>1, <1>3, <1>5, <2>1, <2>2, CommitType DEF Open, TypeOK
<1>6. ASSUME NEW ts \in SUBSET Targets, Configure(ts)
      PROVE  TypeOK'
  BY <1>1, <1>6 DEF Configure, TypeOK
<1>7. CASE Crash
  BY <1>1, <1>7 DEF Crash, Stop, TypeOK, EmptyLedger, LedgerType, JobsType, DeliveriesType
<1>8. ASSUME NEW r \in Regions, NEW p \in Profiles, NEW k \in Keys \cup {NoKey}, Enqueue(r, p, k)
      PROVE  TypeOK'
  <2> DEFINE js == [j \in DOMAIN ledger.jobs \cup {accepted + 1} |->
                      IF j = accepted + 1 THEN NewJob(r, p, k) ELSE ledger.jobs[j]]
  <2>1. accepted' = accepted + 1 /\ accepted + 1 <= MaxJobs /\ UNCHANGED owed /\ CommitJobs(js)
    BY <1>1, <1>8 DEF Enqueue
  <2>2. NewJob(r, p, k) \in Job
    BY DEF NewJob, Job, Status
  <2>3. JobsType(js, accepted + 1)
    BY <1>1, <1>2, <2>2 DEF JobsType
  <2>4. DeliveriesType(ledger.completions, accepted + 1)
    BY <1>1, <1>2 DEF DeliveriesType
  <2>5. QED
    BY <1>1, <2>1, <2>3, <2>4, CommitType DEF CommitJobs, TypeOK
<1>9. ASSUME NEW id \in JobIds, Retry(id)
      PROVE  TypeOK'
  <2>1. id \in DOMAIN ledger.jobs /\ Enqueue(ledger.jobs[id].region, ledger.jobs[id].profile, NoKey)
    BY <1>9 DEF Retry, With
  <2>2. ledger.jobs[id].region \in Regions /\ ledger.jobs[id].profile \in Profiles
    BY <1>2, <2>1 DEF JobsType, Job
  <2>3. QED
    BY <2>1, <2>2, <1>8
<1>10. ASSUME NEW id \in JobIds, Claim(id)
       PROVE  TypeOK'
  <2>1. JobsType([ledger.jobs EXCEPT ![id].status = "running"], accepted)
    BY <1>2 DEF JobsType, Job, Status, Active
  <2>2. QED
    BY <1>1, <1>4, <1>10, <2>1 DEF Claim
<1>11. ASSUME NEW id \in JobIds, Cancel(id)
       PROVE  TypeOK'
  <2>1. ASSUME NEW now \in Clock
        PROVE  JobsType([ledger.jobs EXCEPT ![id].status = "cancelled", ![id].ended = now], accepted)
    BY <1>2 DEF JobsType, Job, Status, Terminal
  <2>2. JobsType([ledger.jobs EXCEPT ![id].status = "cancelling"], accepted)
    BY <1>2 DEF JobsType, Job, Status, Active
  <2>3. QED
    BY <1>1, <1>4, <1>11, <2>1, <2>2 DEF Cancel
<1>12. ASSUME NEW id \in JobIds, NEW failed \in BOOLEAN, Progress(id, failed)
       PROVE  TypeOK'
  <2>1. JobsType([ledger.jobs EXCEPT ![id].failed = failed], accepted)
    BY <1>2 DEF JobsType, Job
  <2>2. QED
    BY <1>1, <1>4, <1>12, <2>1 DEF Progress
<1>13. ASSUME NEW id \in JobIds, NEW code \in BOOLEAN, NEW outcome \in BOOLEAN,
              Finish(id, code, outcome)
       PROVE  TypeOK'
  <2> DEFINE job == ledger.jobs[id]
             end == FinalStatus(job, code)
             js(now) == [ledger.jobs EXCEPT
                           ![id] = [job EXCEPT !.status = end,
                                               !.outcome = outcome /\ end = "completed",
                                               !.ended = now]]
  <2>1. PICK now \in Clock : CommitJobs(js(now))
    BY <1>13 DEF Finish
  <2>2. id \in DOMAIN ledger.jobs
    BY <1>13 DEF Finish, With
  <2>3. end \in Status
    BY DEF FinalStatus, Status, Terminal
  <2>4. job \in Job
    BY <1>2, <2>2 DEF JobsType
  <2>5. [job EXCEPT !.status = end, !.outcome = outcome /\ end = "completed", !.ended = now] \in Job
    <3> HIDE DEF end
    <3>1. (outcome /\ end = "completed") \in BOOLEAN
      OBVIOUS
    <3>2. QED
      BY <2>3, <2>4, <3>1 DEF Job
  <2>6. JobsType(js(now), accepted)
    <3> HIDE DEF job, end
    <3>1. QED
      BY <1>2, <2>5 DEF JobsType
  <2>7. accepted' = accepted /\ owed' \subseteq JobIds \X Targets
    BY <1>1, <1>13 DEF Finish, TargetsOf
  <2>8. QED
    BY <1>4, <2>1, <2>6, <2>7
<1>14. ASSUME NEW id \in JobIds, NEW t \in Targets, Acknowledge(id, t)
       PROVE  TypeOK'
  <2>1. DeliveriesType(Acknowledged(ledger.completions, id, t), accepted)
    BY <1>2, <1>14 DEF Acknowledge, Acknowledged, DeliveriesType, Delivery
  <2>2. Commit(ledger.jobs, ledger.jobs, Acknowledged(ledger.completions, id, t), phase)
        /\ accepted' = accepted /\ owed' \subseteq owed
    BY <1>14 DEF Acknowledge
  <2>3. QED
    BY <1>1, <1>2, <2>1, <2>2, CommitType DEF TypeOK
<1>15. CASE UNCHANGED vars
  BY <1>1, <1>15 DEF vars, TypeOK
<1>16. QED
  BY <1>5, <1>6, <1>7, <1>8, <1>9, <1>10, <1>11, <1>12, <1>13, <1>14, <1>15
     DEF Next, Submit, SubmitIdempotent

(* The types hold in every state: commit never writes a job or a delivery  *)
(* that the ledger could not hold.                                         *)
THEOREM TypeCorrect == Spec => []TypeOK
<1>1. Init => TypeOK
  BY LimitsAssumption DEF Init, TypeOK, EmptyLedger, LedgerType, JobsType, DeliveriesType
<1>2. QED
  BY <1>1, TypeStep, PTL DEF Spec

-----------------------------------------------------------------------------
(* What a commit leaves behind: the ended jobs it drops aside, the jobs it *)
(* was given, and a memory that is the disk's or is gone.                  *)
LEMMA CommitEffect ==
    ASSUME NEW old, NEW js, NEW cs, NEW up, Commit(old, js, cs, up)
    PROVE  /\ \E gone \in SUBSET With(js, Terminal) : disk'.jobs = Remove(js, gone)
           /\ disk'.completions = Announce(cs, NewlyCompleted(old, js), js)
           /\ \/ ledger' = disk' /\ phase' = up /\ targets' = targets
              \/ phase' = "down"
<1>1. PICK gone \in Prunable(js) :
        Write([jobs |-> Remove(js, gone),
               completions |-> Announce(cs, NewlyCompleted(old, js), js)], up)
  BY DEF Commit
<1>2. gone \in SUBSET With(js, Terminal)
  BY DEF Prunable
<1>3. QED
  BY <1>1, <1>2 DEF Write, Stop

(* A refused or interrupted write never leaves the two copies apart.       *)
THEOREM Durable == Spec => []MemoryIsDurable
<1>1. Init => MemoryIsDurable
  BY DEF Init, MemoryIsDurable
<1>2. MemoryIsDurable /\ [Next]_vars => MemoryIsDurable'
  <2> SUFFICES ASSUME MemoryIsDurable, [Next]_vars
               PROVE  MemoryIsDurable'
    OBVIOUS
  <2>1. ASSUME NEW old, NEW js, NEW cs, NEW up, Commit(old, js, cs, up)
        PROVE  MemoryIsDurable'
    BY <2>1, CommitEffect DEF MemoryIsDurable
  <2>2. ASSUME NEW r, NEW p, NEW k, Enqueue(r, p, k)
        PROVE  MemoryIsDurable'
    BY <2>1, <2>2 DEF Enqueue, CommitJobs
  <2>3. CASE Open
    BY <2>1, <2>3 DEF Open
  <2>4. ASSUME NEW ts \in SUBSET Targets, Configure(ts)
        PROVE  MemoryIsDurable'
    BY <2>4 DEF Configure, MemoryIsDurable
  <2>5. CASE Crash
    BY <2>5 DEF Crash, Stop, MemoryIsDurable
  <2>6. ASSUME NEW id \in JobIds, Retry(id)
        PROVE  MemoryIsDurable'
    BY <2>2, <2>6 DEF Retry
  <2>7. ASSUME NEW id \in JobIds, Claim(id) \/ Cancel(id)
        PROVE  MemoryIsDurable'
    BY <2>1, <2>7 DEF Claim, Cancel, CommitJobs
  <2>8. ASSUME NEW id \in JobIds, NEW failed \in BOOLEAN, Progress(id, failed)
        PROVE  MemoryIsDurable'
    BY <2>1, <2>8 DEF Progress, CommitJobs
  <2>9. ASSUME NEW id \in JobIds, NEW code \in BOOLEAN, NEW outcome \in BOOLEAN,
               Finish(id, code, outcome)
        PROVE  MemoryIsDurable'
    BY <2>1, <2>9 DEF Finish, CommitJobs
  <2>10. ASSUME NEW id \in JobIds, NEW t \in Targets, Acknowledge(id, t)
         PROVE  MemoryIsDurable'
    BY <2>1, <2>10 DEF Acknowledge
  <2>11. CASE UNCHANGED vars
    BY <2>11 DEF vars, MemoryIsDurable
  <2>12. QED
    BY <2>2, <2>3, <2>4, <2>5, <2>6, <2>7, <2>8, <2>9, <2>10, <2>11
       DEF Next, Submit, SubmitIdempotent
<1>3. QED
  BY <1>1, <1>2, PTL DEF Spec

(* The running store and the file agree on records that have their types.  *)
THEOREM StoreSound == Spec => []Inv
<1>1. QED
  BY TypeCorrect, Durable, PTL DEF Inv

-----------------------------------------------------------------------------
(* Slots *)

Slots(js) == Exclusive(js) /\ Cardinality(With(js, Active)) <= MaxRunning

LEMMA FiniteJobs ==
    ASSUME NEW js, NEW n \in Nat, DOMAIN js \subseteq 1 .. n, NEW S
    PROVE  IsFiniteSet(With(js, S)) /\ Cardinality(With(js, S)) \in Nat
<1>1. With(js, S) \subseteq 1 .. n
  BY DEF With
<1>2. IsFiniteSet(1 .. n)
  BY FS_Interval
<1>3. QED
  BY <1>1, <1>2, FS_Subset, FS_CardinalityType

(* Jobs that only lose slots keep the slots exclusive.                     *)
LEMMA FewerActive ==
    ASSUME NEW js, NEW ks, NEW n \in Nat, DOMAIN js \subseteq 1 .. n, Slots(js),
           \A j \in With(ks, Active) : j \in With(js, Active) /\ ks[j].region = js[j].region
    PROVE  Slots(ks)
<1>1. With(ks, Active) \subseteq With(js, Active)
  OBVIOUS
<1>2. IsFiniteSet(With(js, Active)) /\ Cardinality(With(js, Active)) \in Nat
  BY FiniteJobs
<1>3. IsFiniteSet(With(ks, Active)) /\ Cardinality(With(ks, Active)) <= Cardinality(With(js, Active))
  BY <1>1, <1>2, FS_Subset
<1>4. Cardinality(With(ks, Active)) \in Nat
  BY <1>3, FS_CardinalityType
<1>5. Cardinality(With(ks, Active)) <= MaxRunning
  BY <1>2, <1>3, <1>4, LimitsAssumption DEF Slots
<1>6. Exclusive(ks)
  BY DEF Slots, Exclusive
<1>7. QED
  BY <1>5, <1>6 DEF Slots

LEMMA CommitSlots ==
    ASSUME NEW n \in Nat, NEW old, NEW js, NEW cs, NEW up, Commit(old, js, cs, up),
           DOMAIN js \subseteq 1 .. n, Slots(js)
    PROVE  Slots(disk'.jobs)
<1>1. PICK gone : disk'.jobs = Remove(js, gone)
  BY CommitEffect
<1>2. \A j \in With(disk'.jobs, Active) :
        j \in With(js, Active) /\ disk'.jobs[j].region = js[j].region
  BY <1>1 DEF Remove, With
<1>3. QED
  BY <1>2, FewerActive

(* One job of a region at a time, and never more than MaxRunning, for      *)
(* every number of regions, jobs, recipients and limits.                   *)
THEOREM SlotSafety == Spec => []SlotsExclusive
<1> USE LimitsAssumption
<1>1. Init => SlotsExclusive
  <2> SUFFICES ASSUME Init PROVE SlotsExclusive
    OBVIOUS
  <2>1. With(disk.jobs, Active) = {}
    BY DEF Init, EmptyLedger, With
  <2>2. QED
    BY <2>1, FS_EmptySet DEF SlotsExclusive, Exclusive
<1>2. TypeOK /\ MemoryIsDurable /\ SlotsExclusive /\ [Next]_vars => SlotsExclusive'
  <2> SUFFICES ASSUME TypeOK, MemoryIsDurable, SlotsExclusive, [Next]_vars
               PROVE  SlotsExclusive'
    OBVIOUS
  <2>1. accepted \in Nat /\ JobsType(ledger.jobs, accepted) /\ JobsType(disk.jobs, accepted)
    BY DEF TypeOK, LedgerType
  <2>2. DOMAIN ledger.jobs \subseteq 1 .. accepted /\ DOMAIN disk.jobs \subseteq 1 .. accepted
    BY <2>1 DEF JobsType
  <2>3. Slots(disk.jobs) /\ (phase # "down" => Slots(ledger.jobs))
    BY DEF SlotsExclusive, Slots, MemoryIsDurable
  <2>4. ASSUME Slots(disk'.jobs)
        PROVE  SlotsExclusive'
    BY <2>4 DEF SlotsExclusive, Slots
  <2>5. ASSUME UNCHANGED disk
        PROVE  SlotsExclusive'
    BY <2>5, <2>3, <2>4
  <2>6. CASE Open
    <3>1. PICK at \in [With(disk.jobs, Active) -> Clock] :
            Commit(Interrupt(disk.jobs, at), Interrupt(disk.jobs, at), disk.completions, "opened")
      BY <2>6 DEF Open
    <3> DEFINE js == Interrupt(disk.jobs, at)
    <3>2. \A j \in DOMAIN js : js[j].status \notin Active
      BY <2>1 DEF Interrupt, JobsType, Job, Active
    <3>3. With(js, Active) = {} /\ DOMAIN js = DOMAIN disk.jobs
      BY <3>2 DEF With, Interrupt
    <3>4. Slots(js)
      BY <3>3, FS_EmptySet DEF Slots, Exclusive
    <3> HIDE DEF js
    <3>5. QED
      BY <2>1, <2>2, <2>4, <3>1, <3>3, <3>4, CommitSlots DEF js
  <2>7. ASSUME NEW r, NEW p, NEW k, Enqueue(r, p, k)
        PROVE  SlotsExclusive'
    <3> DEFINE js == [j \in DOMAIN ledger.jobs \cup {accepted + 1} |->
                        IF j = accepted + 1 THEN NewJob(r, p, k) ELSE ledger.jobs[j]]
    <3>1. Commit(ledger.jobs, js, ledger.completions, phase) /\ phase # "down"
      BY <2>7 DEF Enqueue, CommitJobs
    <3>2. DOMAIN js \subseteq 1 .. (accepted + 1)
      BY <2>1, <2>2
    <3>3. \A j \in With(js, Active) :
            j \in With(ledger.jobs, Active) /\ js[j].region = ledger.jobs[j].region
      BY DEF With, NewJob, Active
    <3> HIDE DEF js
    <3>4. Slots(js)
      BY <2>1, <2>2, <2>3, <3>1, <3>3, FewerActive
    <3>5. QED
      BY <2>1, <2>4, <3>1, <3>2, <3>4, CommitSlots
  <2>8. ASSUME NEW js, CommitJobs(js), phase # "down", DOMAIN js = DOMAIN ledger.jobs,
               \A j \in With(js, Active) :
                  j \in With(ledger.jobs, Active) /\ js[j].region = ledger.jobs[j].region
        PROVE  SlotsExclusive'
    <3>1. Slots(js)
      BY <2>1, <2>2, <2>3, <2>8, FewerActive
    <3>2. QED
      BY <2>1, <2>2, <2>4, <2>8, <3>1, CommitSlots DEF CommitJobs
  <2>9. ASSUME NEW id \in JobIds, Claim(id)
        PROVE  SlotsExclusive'
    <3> DEFINE js == [ledger.jobs EXCEPT ![id].status = "running"]
               A == With(ledger.jobs, Active)
    <3>1. Commit(ledger.jobs, js, ledger.completions, phase) /\ phase # "down"
      BY <2>9 DEF Claim, CommitJobs
    <3>2. id \in DOMAIN ledger.jobs /\ Cardinality(A) < MaxRunning
          /\ \A j \in A : ledger.jobs[j].region # ledger.jobs[id].region
      BY <2>9 DEF Claim, Claimable, With
    <3>3. With(js, Active) \subseteq A \cup {id}
      BY <2>1, <3>2 DEF With, JobsType, Job
    <3>4. \A j \in DOMAIN js : js[j].region = ledger.jobs[j].region
      BY <2>1, <3>2 DEF JobsType, Job
    <3>5. Exclusive(js)
      BY <2>3, <3>1, <3>2, <3>3, <3>4 DEF Exclusive, Slots, With
    <3>6. IsFiniteSet(A) /\ Cardinality(A) \in Nat
      BY <2>1, <2>2, FiniteJobs
    <3>7. Cardinality(A \cup {id}) <= Cardinality(A) + 1 /\ IsFiniteSet(A \cup {id})
          /\ Cardinality(A \cup {id}) \in Nat
      <4> HIDE DEF A
      <4>1. /\ IsFiniteSet(A \cup {id})
            /\ Cardinality(A \cup {id}) = IF id \in A THEN Cardinality(A) ELSE Cardinality(A) + 1
        BY <3>6, FS_AddElement
      <4>2. QED
        BY <3>6, <4>1
    <3>8. DOMAIN js \subseteq 1 .. accepted
      BY <2>2
    <3> HIDE DEF js, A
    <3>9. Cardinality(With(js, Active)) <= Cardinality(A \cup {id})
          /\ Cardinality(With(js, Active)) \in Nat
      BY <2>1, <3>3, <3>7, <3>8, FS_Subset, FiniteJobs
    <3>10. Slots(js)
      BY <3>2, <3>5, <3>6, <3>7, <3>9 DEF Slots
    <3>11. QED
      BY <2>1, <2>4, <3>1, <3>8, <3>10, CommitSlots
  <2>10. ASSUME NEW id \in JobIds, Cancel(id)
         PROVE  SlotsExclusive'
    <3>1. id \in DOMAIN ledger.jobs /\ phase # "down"
      BY <2>10 DEF Cancel
    <3>2. ASSUME NEW now, CommitJobs([ledger.jobs EXCEPT ![id].status = "cancelled", ![id].ended = now])
          PROVE  SlotsExclusive'
      <4> DEFINE js == [ledger.jobs EXCEPT ![id].status = "cancelled", ![id].ended = now]
      <4>1. \A j \in With(js, Active) :
              j \in With(ledger.jobs, Active) /\ js[j].region = ledger.jobs[j].region
        BY <2>1, <3>1 DEF With, Active, JobsType, Job
      <4>2. DOMAIN js = DOMAIN ledger.jobs
        OBVIOUS
      <4> HIDE DEF js
      <4>3. QED
        BY <2>8, <3>1, <3>2, <4>1, <4>2 DEF js
    <3>3. ASSUME ledger.jobs[id].status \in Active,
                 CommitJobs([ledger.jobs EXCEPT ![id].status = "cancelling"])
          PROVE  SlotsExclusive'
      <4> DEFINE js == [ledger.jobs EXCEPT ![id].status = "cancelling"]
      <4>1. \A j \in With(js, Active) :
              j \in With(ledger.jobs, Active) /\ js[j].region = ledger.jobs[j].region
        BY <2>1, <3>1, <3>3 DEF With, JobsType, Job
      <4>2. DOMAIN js = DOMAIN ledger.jobs
        OBVIOUS
      <4> HIDE DEF js
      <4>3. QED
        BY <2>8, <3>1, <3>3, <4>1, <4>2 DEF js
    <3>4. QED
      BY <2>10, <3>2, <3>3 DEF Cancel
  <2>11. ASSUME NEW id \in JobIds, NEW failed \in BOOLEAN, Progress(id, failed)
         PROVE  SlotsExclusive'
    <3> DEFINE js == [ledger.jobs EXCEPT ![id].failed = failed]
    <3>1. CommitJobs(js) /\ phase # "down" /\ id \in DOMAIN ledger.jobs
      BY <2>11 DEF Progress, With
    <3>2. \A j \in With(js, Active) :
            j \in With(ledger.jobs, Active) /\ js[j].region = ledger.jobs[j].region
      BY <2>1, <3>1 DEF With, JobsType, Job
    <3>3. DOMAIN js = DOMAIN ledger.jobs
      OBVIOUS
    <3> HIDE DEF js
    <3>4. QED
      BY <2>8, <3>1, <3>2, <3>3
  <2>12. ASSUME NEW id \in JobIds, NEW code \in BOOLEAN, NEW outcome \in BOOLEAN,
                Finish(id, code, outcome)
         PROVE  SlotsExclusive'
    <3> DEFINE end == FinalStatus(ledger.jobs[id], code)
               js(now) == [ledger.jobs EXCEPT
                             ![id] = [ledger.jobs[id] EXCEPT !.status = end,
                                        !.outcome = outcome /\ end = "completed",
                                        !.ended = now]]
    <3>1. PICK now \in Clock : CommitJobs(js(now))
      BY <2>12 DEF Finish
    <3>2. id \in DOMAIN ledger.jobs /\ phase # "down"
      BY <2>12 DEF Finish, With
    <3>3. end \notin Active
      BY DEF FinalStatus, Active
    <3>4. \A j \in With(js(now), Active) :
            j \in With(ledger.jobs, Active) /\ js(now)[j].region = ledger.jobs[j].region
      BY <2>1, <3>2, <3>3 DEF With, JobsType, Job
    <3>5. DOMAIN js(now) = DOMAIN ledger.jobs
      OBVIOUS
    <3> HIDE DEF js
    <3>6. QED
      BY <2>8, <3>1, <3>2, <3>4, <3>5
  <2>13. ASSUME NEW id \in JobIds, NEW t \in Targets, Acknowledge(id, t)
         PROVE  SlotsExclusive'
    BY <2>1, <2>2, <2>3, <2>4, <2>13, CommitSlots DEF Acknowledge
  <2>14. ASSUME NEW ts \in SUBSET Targets, Configure(ts)
         PROVE  SlotsExclusive'
    BY <2>5, <2>14 DEF Configure
  <2>15. CASE Crash \/ UNCHANGED vars
    BY <2>5, <2>15 DEF Crash, vars
  <2>16. QED
    BY <2>6, <2>7, <2>9, <2>10, <2>11, <2>12, <2>13, <2>14, <2>15
       DEF Next, Submit, SubmitIdempotent, Retry
<1>3. QED
  BY <1>1, <1>2, TypeCorrect, Durable, PTL DEF Spec

-----------------------------------------------------------------------------
(* The outbox *)

(* After a commit the outbox has room as long as the deliveries it was     *)
(* given, those it adds and the jobs that may still complete fit together. *)
LEMMA RoomAfterCommit ==
    ASSUME NEW n \in Nat, NEW old, NEW js, NEW cs, NEW up,
           DOMAIN js \subseteq 1 .. n, DOMAIN cs \subseteq 1 .. n,
           Commit(old, js, cs, up), phase = up,
           Cardinality(DOMAIN cs) + Cardinality(NewlyCompleted(old, js))
              + Cardinality(Reserved(js, targets)) <= MaxEvents
    PROVE  OutboxReserved'
<1> USE LimitsAssumption
<1> DEFINE new == NewlyCompleted(old, js)
           D == DOMAIN cs
<1>1. IsFiniteSet(1 .. n)
  BY FS_Interval
<1>2. new \subseteq 1 .. n /\ Reserved(js, targets) \subseteq 1 .. n
  BY DEF NewlyCompleted, Reserved
<1>3. IsFiniteSet(new) /\ IsFiniteSet(D) /\ IsFiniteSet(Reserved(js, targets))
  BY <1>1, <1>2, FS_Subset
<1>4. Cardinality(new) \in Nat /\ Cardinality(D) \in Nat
      /\ Cardinality(Reserved(js, targets)) \in Nat
  BY <1>3, FS_CardinalityType
<1>5. IsFiniteSet(D \cup new) /\ Cardinality(D \cup new) <= Cardinality(D) + Cardinality(new)
  <2> HIDE DEF D, new
  <2>1. Cardinality(D \cup new) = Cardinality(D) + Cardinality(new) - Cardinality(D \cap new)
    BY <1>3, FS_Union
  <2>2. IsFiniteSet(D \cap new) /\ Cardinality(D \cap new) \in Nat
    BY <1>3, FS_Intersection, FS_CardinalityType
  <2>3. QED
    BY <1>3, <1>4, <2>1, <2>2, FS_Union
<1>6. DOMAIN disk'.completions = D \cup new
  <2>1. disk'.completions = Announce(cs, new, js)
    BY CommitEffect
  <2>2. DOMAIN Announce(cs, new, js) = D \cup new
    BY DEF Announce
  <2>3. QED
    BY <2>1, <2>2
<1>7. PICK gone : disk'.jobs = Remove(js, gone)
  BY CommitEffect
<1>8. Reserved(disk'.jobs, targets) \subseteq Reserved(js, targets)
  BY <1>7 DEF Reserved, Remove
<1>9. IsFiniteSet(Reserved(disk'.jobs, targets))
      /\ Cardinality(Reserved(disk'.jobs, targets)) <= Cardinality(Reserved(js, targets))
  BY <1>3, <1>8, FS_Subset
<1>10. Cardinality(D \cup new) \in Nat /\ Cardinality(Reserved(disk'.jobs, targets)) \in Nat
  BY <1>5, <1>9, FS_CardinalityType
<1>11. Cardinality(D \cup new) + Cardinality(Reserved(disk'.jobs, targets)) <= MaxEvents
  <2> HIDE DEF D, new
  <2>1. Cardinality(D) + Cardinality(new) + Cardinality(Reserved(js, targets)) <= MaxEvents
    BY DEF D, new
  <2>2. QED
    BY <1>4, <1>5, <1>9, <1>10, <2>1
<1>12. (ledger' = disk' /\ targets' = targets) \/ phase' = "down"
  BY CommitEffect
<1>13. CASE phase' = "down"
  BY <1>13 DEF OutboxReserved
<1>14. CASE ledger' = disk' /\ targets' = targets
  BY <1>6, <1>11, <1>14 DEF OutboxReserved
<1>15. QED
  BY <1>12, <1>13, <1>14

(* Room is kept for every job that may still complete, so that finishing a *)
(* job is never refused because the outbox is full.                        *)
THEOREM OutboxSafety == Spec => []OutboxReserved
<1> USE LimitsAssumption
<1>1. Init => OutboxReserved
  BY DEF Init, OutboxReserved
<1>2. TypeOK /\ OutboxReserved /\ [Next]_vars => OutboxReserved'
  <2> SUFFICES ASSUME TypeOK, OutboxReserved, [Next]_vars
               PROVE  OutboxReserved'
    OBVIOUS
  <2> DEFINE jobs == ledger.jobs
             cs == ledger.completions
             R == Reserved(jobs, targets)
  <2>1. accepted \in Nat /\ JobsType(jobs, accepted) /\ DeliveriesType(cs, accepted)
    BY DEF TypeOK, LedgerType
  <2>2. DOMAIN jobs \subseteq 1 .. accepted /\ DOMAIN cs \subseteq 1 .. accepted
    BY <2>1 DEF JobsType, DeliveriesType
  <2>3. IsFiniteSet(1 .. accepted) /\ R \subseteq 1 .. accepted
    BY <2>1, <2>2, FS_Interval DEF Reserved
  <2>4. IsFiniteSet(R) /\ IsFiniteSet(DOMAIN cs)
    BY <2>2, <2>3, FS_Subset
  <2>5. Cardinality(R) \in Nat /\ Cardinality(DOMAIN cs) \in Nat
    BY <2>4, FS_CardinalityType
  <2>6. phase = "serving" => Cardinality(DOMAIN cs) + Cardinality(R) <= MaxEvents
    BY DEF OutboxReserved
  <2>7. Cardinality({}) = 0
    BY FS_EmptySet
  <2>8. ASSUME NEW js, CommitJobs(js), phase = "serving", DOMAIN js = DOMAIN jobs,
               NewlyCompleted(jobs, js) = {}, Reserved(js, targets) \subseteq R
        PROVE  OutboxReserved'
    <3> HIDE DEF R
    <3>1. Cardinality(Reserved(js, targets)) <= Cardinality(R)
          /\ IsFiniteSet(Reserved(js, targets))
      BY <2>4, <2>8, FS_Subset
    <3>2. Cardinality(Reserved(js, targets)) \in Nat
      BY <3>1, FS_CardinalityType
    <3>3. Cardinality(DOMAIN cs) + Cardinality(NewlyCompleted(jobs, js))
             + Cardinality(Reserved(js, targets)) <= MaxEvents
      BY <2>5, <2>6, <2>7, <2>8, <3>1, <3>2
    <3>4. QED
      BY <2>1, <2>2, <2>8, <3>3, RoomAfterCommit DEF CommitJobs
  <2>9. ASSUME NEW r, NEW p, NEW k, Enqueue(r, p, k)
        PROVE  OutboxReserved'
    <3> DEFINE id == accepted + 1
               js == [j \in DOMAIN ledger.jobs \cup {id} |->
                        IF j = id THEN NewJob(r, p, k) ELSE ledger.jobs[j]]
               wanted == TargetsOf(r, targets) # {}
    <3>1. CommitJobs(js) /\ phase = "serving" /\ Room(r)
      BY <2>9 DEF Enqueue
    <3>2. id \notin DOMAIN jobs
      BY <2>1, <2>2
    <3>3. DOMAIN js \subseteq 1 .. id /\ DOMAIN cs \subseteq 1 .. id /\ id \in Nat
      BY <2>1, <2>2
    <3>4. NewlyCompleted(jobs, js) = {}
      BY <3>2 DEF NewlyCompleted, NewJob
    <3>5. Reserved(js, targets) \subseteq IF wanted THEN R \cup {id} ELSE R
      BY <3>2 DEF Reserved, NewJob
    <3>6. /\ IsFiniteSet(R \cup {id})
          /\ Cardinality(R \cup {id}) = IF id \in R THEN Cardinality(R) ELSE Cardinality(R) + 1
      <4> HIDE DEF R, id
      <4>1. QED
        BY <2>4, FS_AddElement
    <3>7. IsFiniteSet(Reserved(js, targets)) /\
          Cardinality(Reserved(js, targets)) <= IF wanted THEN Cardinality(R) + 1 ELSE Cardinality(R)
      <4> HIDE DEF R, id, js
      <4>1. CASE wanted
        <5>1. IsFiniteSet(Reserved(js, targets))
              /\ Cardinality(Reserved(js, targets)) <= Cardinality(R \cup {id})
          BY <3>5, <3>6, <4>1, FS_Subset
        <5>2. Cardinality(Reserved(js, targets)) \in Nat
          BY <5>1, FS_CardinalityType
        <5>3. QED
          BY <2>5, <3>6, <4>1, <5>1, <5>2
      <4>2. CASE ~wanted
        BY <2>4, <3>5, <4>2, FS_Subset
      <4>3. QED
        BY <4>1, <4>2
    <3>8. Cardinality(Reserved(js, targets)) \in Nat
      BY <3>7, FS_CardinalityType
    <3>9. wanted => Cardinality(DOMAIN cs) + Cardinality(R) < MaxEvents
      BY <3>1 DEF Room
    <3> HIDE DEF js, id
    <3>10. Cardinality(DOMAIN cs) + Cardinality(NewlyCompleted(jobs, js))
              + Cardinality(Reserved(js, targets)) <= MaxEvents
      <4> HIDE DEF R, cs, wanted
      <4>1. QED
        BY <2>5, <2>6, <2>7, <3>1, <3>4, <3>7, <3>8, <3>9
    <3>11. QED
      BY <3>1, <3>3, <3>10, RoomAfterCommit DEF CommitJobs
  <2>10. ASSUME NEW id \in JobIds, Claim(id)
         PROVE  OutboxReserved'
    <3> DEFINE js == [ledger.jobs EXCEPT ![id].status = "running"]
    <3>1. CommitJobs(js) /\ phase = "serving" /\ id \in DOMAIN jobs /\ jobs[id].status = "queued"
      BY <2>10 DEF Claim, Claimable, With
    <3>2. NewlyCompleted(jobs, js) = {}
      BY <2>1, <3>1 DEF NewlyCompleted, JobsType, Job
    <3>3. Reserved(js, targets) \subseteq R
      BY <2>1, <3>1 DEF Reserved, JobsType, Job, Terminal
    <3> HIDE DEF js
    <3>4. QED
      BY <2>8, <3>1, <3>2, <3>3 DEF js
  <2>11. ASSUME NEW id \in JobIds, Cancel(id)
         PROVE  OutboxReserved'
    <3>1. phase = "serving" /\ id \in DOMAIN jobs /\ jobs[id].status \notin Terminal
      BY <2>11 DEF Cancel, Active, Terminal
    <3>2. ASSUME NEW now, CommitJobs([ledger.jobs EXCEPT ![id].status = "cancelled", ![id].ended = now])
          PROVE  OutboxReserved'
      <4> DEFINE js == [ledger.jobs EXCEPT ![id].status = "cancelled", ![id].ended = now]
      <4>1. NewlyCompleted(jobs, js) = {}
        BY <2>1, <3>1 DEF NewlyCompleted, JobsType, Job
      <4>2. Reserved(js, targets) \subseteq R
        BY <2>1, <3>1 DEF Reserved, JobsType, Job, Terminal
      <4>3. DOMAIN js = DOMAIN jobs
        OBVIOUS
      <4> HIDE DEF js
      <4>4. QED
        BY <2>8, <3>1, <3>2, <4>1, <4>2, <4>3 DEF js
    <3>3. ASSUME CommitJobs([ledger.jobs EXCEPT ![id].status = "cancelling"])
          PROVE  OutboxReserved'
      <4> DEFINE js == [ledger.jobs EXCEPT ![id].status = "cancelling"]
      <4>1. NewlyCompleted(jobs, js) = {}
        BY <2>1, <3>1 DEF NewlyCompleted, JobsType, Job
      <4>2. Reserved(js, targets) \subseteq R
        BY <2>1, <3>1 DEF Reserved, JobsType, Job, Terminal
      <4>3. DOMAIN js = DOMAIN jobs
        OBVIOUS
      <4> HIDE DEF js
      <4>4. QED
        BY <2>8, <3>1, <3>3, <4>1, <4>2, <4>3 DEF js
    <3>4. QED
      BY <2>11, <3>2, <3>3 DEF Cancel
  <2>12. ASSUME NEW id \in JobIds, NEW failed \in BOOLEAN, Progress(id, failed)
         PROVE  OutboxReserved'
    <3> DEFINE js == [ledger.jobs EXCEPT ![id].failed = failed]
    <3>1. CommitJobs(js) /\ phase = "serving" /\ id \in DOMAIN jobs
      BY <2>12 DEF Progress, With
    <3>2. NewlyCompleted(jobs, js) = {}
      BY <2>1, <3>1 DEF NewlyCompleted, JobsType, Job
    <3>3. Reserved(js, targets) \subseteq R
      BY <2>1, <3>1 DEF Reserved, JobsType, Job
    <3>4. DOMAIN js = DOMAIN jobs
      OBVIOUS
    <3> HIDE DEF js
    <3>5. QED
      BY <2>8, <3>1, <3>2, <3>3, <3>4
  <2>13. ASSUME NEW id \in JobIds, NEW code \in BOOLEAN, NEW outcome \in BOOLEAN,
                Finish(id, code, outcome)
         PROVE  OutboxReserved'
    <3> DEFINE end == FinalStatus(jobs[id], code)
               js(now) == [ledger.jobs EXCEPT
                             ![id] = [ledger.jobs[id] EXCEPT !.status = end,
                                        !.outcome = outcome /\ end = "completed",
                                        !.ended = now]]
    <3>1. PICK now \in Clock : CommitJobs(js(now))
      BY <2>13 DEF Finish
    <3>2. id \in DOMAIN jobs /\ phase = "serving" /\ jobs[id].status \notin Terminal
      BY <2>13 DEF Finish, With, Active, Terminal
    <3>3. end \in Terminal
      BY DEF FinalStatus, Terminal
    <3>4. /\ NewlyCompleted(jobs, js(now)) \subseteq {id}
          /\ id \in NewlyCompleted(jobs, js(now)) => id \in R
      BY <2>1, <3>2 DEF NewlyCompleted, Reserved, JobsType, Job
    <3>5. Reserved(js(now), targets) \subseteq R \ {id}
      BY <2>1, <3>2, <3>3 DEF Reserved, JobsType, Job
    <3>6. DOMAIN js(now) = DOMAIN jobs
      OBVIOUS
    <3>7. /\ IsFiniteSet(R \ {id})
          /\ Cardinality(R \ {id}) = IF id \in R THEN Cardinality(R) - 1 ELSE Cardinality(R)
      <4> HIDE DEF R
      <4>1. QED
        BY <2>4, FS_RemoveElement
    <3> HIDE DEF js
    <3>8. Cardinality(R \ {id}) \in Nat
      BY <3>7, FS_CardinalityType
    <3>9. IsFiniteSet(Reserved(js(now), targets))
          /\ Cardinality(Reserved(js(now), targets)) <= Cardinality(R \ {id})
      BY <3>5, <3>7, FS_Subset
    <3>10. Cardinality(Reserved(js(now), targets)) \in Nat
      BY <3>9, FS_CardinalityType
    <3>11. Cardinality(NewlyCompleted(jobs, js(now))) = IF id \in NewlyCompleted(jobs, js(now)) THEN 1 ELSE 0
      <4>1. CASE id \in NewlyCompleted(jobs, js(now))
        <5>1. NewlyCompleted(jobs, js(now)) = {id}
          BY <3>4, <4>1
        <5>2. QED
          BY <4>1, <5>1, FS_Singleton
      <4>2. CASE id \notin NewlyCompleted(jobs, js(now))
        <5>1. NewlyCompleted(jobs, js(now)) = {}
          BY <3>4, <4>2
        <5>2. QED
          BY <4>2, <5>1, FS_EmptySet
      <4>3. QED
        BY <4>1, <4>2
    <3>12. Cardinality(DOMAIN cs) + Cardinality(NewlyCompleted(jobs, js(now)))
              + Cardinality(Reserved(js(now), targets)) <= MaxEvents
      <4> HIDE DEF R, cs, jobs
      <4>1. QED
        BY <2>5, <2>6, <3>2, <3>4, <3>7, <3>8, <3>9, <3>10, <3>11
    <3>13. QED
      BY <2>1, <2>2, <3>1, <3>2, <3>6, <3>12, RoomAfterCommit DEF CommitJobs
  <2>14. ASSUME NEW id \in JobIds, NEW t \in Targets, Acknowledge(id, t)
         PROVE  OutboxReserved'
    <3> DEFINE left == Acknowledged(cs, id, t)
    <3>1. Commit(jobs, jobs, left, phase) /\ phase = "serving"
      BY <2>14 DEF Acknowledge
    <3>2. DOMAIN left \subseteq DOMAIN cs
      BY DEF Acknowledged
    <3> HIDE DEF left
    <3>3. IsFiniteSet(DOMAIN left) /\ Cardinality(DOMAIN left) <= Cardinality(DOMAIN cs)
      BY <2>4, <3>2, FS_Subset
    <3>4. Cardinality(DOMAIN left) \in Nat
      BY <3>3, FS_CardinalityType
    <3>5. NewlyCompleted(jobs, jobs) = {}
      BY DEF NewlyCompleted
    <3>6. Cardinality(DOMAIN left) + Cardinality(NewlyCompleted(jobs, jobs)) + Cardinality(R) <= MaxEvents
      <4> HIDE DEF R, cs
      <4>1. QED
        BY <2>5, <2>6, <2>7, <3>1, <3>3, <3>4, <3>5
    <3>7. DOMAIN left \subseteq 1 .. accepted
      BY <2>2, <3>2
    <3>8. QED
      BY <2>1, <2>2, <3>1, <3>6, <3>7, RoomAfterCommit
  <2>15. ASSUME NEW ts \in SUBSET Targets, Configure(ts)
         PROVE  OutboxReserved'
    <3>1. Cardinality(Reserved(jobs, ts)) + Cardinality(DOMAIN cs) <= MaxEvents
          /\ ledger' = ledger /\ targets' = ts
      BY <2>15 DEF Configure
    <3>2. Reserved(jobs, ts) \subseteq 1 .. accepted
      BY <2>2 DEF Reserved
    <3>3. Cardinality(Reserved(jobs, ts)) \in Nat
      BY <2>3, <3>2, FS_Subset, FS_CardinalityType
    <3>4. QED
      BY <2>5, <3>1, <3>3 DEF OutboxReserved
  <2>16. CASE Open
    BY <2>16, CommitEffect DEF Open, OutboxReserved
  <2>17. CASE Crash
    BY <2>17 DEF Crash, Stop, OutboxReserved
  <2>18. CASE UNCHANGED vars
    BY <2>18 DEF vars, OutboxReserved
  <2>19. QED
    BY <2>9, <2>10, <2>11, <2>12, <2>13, <2>14, <2>15, <2>16, <2>17, <2>18
       DEF Next, Submit, SubmitIdempotent, Retry
<1>3. QED
  BY <1>1, <1>2, TypeCorrect, PTL DEF Spec
-----------------------------------------------------------------------------
(* Steps of the ledger on disk                                             *)

(* How an operation may change one job.                                    *)
Changes(id, job) ==
    LET old == disk.jobs[id] IN
    /\ job.region = old.region /\ job.key = old.key
    /\ old.status \notin Terminal
    /\ old.status = "queued" => job.status \in {"running", "cancelled"}
    /\ old.status = "cancelling" => job.status \in {"cancelling", "cancelled"}
    /\ old.status \in Active => job.status # "queued"
    /\ job.status = "running" /\ old.status = "queued" =>
          \A i \in DOMAIN disk.jobs :
              i < id /\ disk.jobs[i].region = old.region => disk.jobs[i].status # "queued"
    /\ owed' = IF job.status = "completed" /\ job.outcome
               THEN owed \cup ({id} \X TargetsOf(job.region, targets)) ELSE owed

OpenStep ==
    \E at \in [With(disk.jobs, Active) -> Clock] :
        LET js == Interrupt(disk.jobs, at) IN Commit(js, js, disk.completions, "opened")

AddStep ==
    \E job \in Job :
        /\ job.status = "queued"
        /\ job.key # NoKey => \A j \in DOMAIN disk.jobs : disk.jobs[j].key # job.key
        /\ Commit(disk.jobs,
                  [j \in DOMAIN disk.jobs \cup {accepted + 1} |->
                      IF j = accepted + 1 THEN job ELSE disk.jobs[j]],
                  disk.completions, phase)

ChangeStep ==
    \E id \in DOMAIN disk.jobs, job \in Job :
        /\ Changes(id, job)
        /\ Commit(disk.jobs, [disk.jobs EXCEPT ![id] = job], disk.completions, phase)

AckStep(id, t) ==
    /\ id \in DOMAIN disk.completions
    /\ t \in disk.completions[id].pending
    /\ Commit(disk.jobs, disk.jobs, Acknowledged(disk.completions, id, t), phase)
    /\ owed' = owed \ {<<id, t>>}

(* What any step does to the disk and to the notices that are owed.        *)
LEMMA DiskSteps ==
    ASSUME Inv, [Next]_vars
    PROVE  \/ UNCHANGED <<disk, owed>>
           \/ OpenStep /\ phase = "down" /\ UNCHANGED owed
           \/ AddStep /\ phase # "down" /\ UNCHANGED owed
           \/ ChangeStep /\ phase # "down"
           \/ (\E id, t : AckStep(id, t)) /\ phase # "down"
<1> DEFINE Goal == \/ UNCHANGED <<disk, owed>>
                   \/ OpenStep /\ phase = "down" /\ UNCHANGED owed
                   \/ AddStep /\ phase # "down" /\ UNCHANGED owed
                   \/ ChangeStep /\ phase # "down"
                   \/ (\E id, t : AckStep(id, t)) /\ phase # "down"
<1> SUFFICES Goal
    OBVIOUS
<1>1. /\ phase # "down" => ledger = disk
      /\ accepted \in Nat /\ JobsType(disk.jobs, accepted)
    BY DEF Inv, MemoryIsDurable, TypeOK, LedgerType
<1>2. \A j \in DOMAIN disk.jobs : disk.jobs[j] \in Job /\ j \in Nat
    BY <1>1 DEF JobsType
<1>3. CASE Open
    BY <1>3 DEF Open, OpenStep
<1>4. CASE Crash \/ (\E ts \in SUBSET Targets : Configure(ts)) \/ UNCHANGED vars
    BY <1>4 DEF Crash, Configure, vars
<1>5. ASSUME NEW r \in Regions, NEW p \in Profiles, NEW k \in Keys \cup {NoKey}, Enqueue(r, p, k),
             k # NoKey => \A j \in DOMAIN disk.jobs : disk.jobs[j].key # k
      PROVE  Goal
    <2>1. phase # "down" /\ UNCHANGED owed BY <1>5 DEF Enqueue
    <2>2. NewJob(r, p, k) \in Job /\ NewJob(r, p, k).status = "queued" /\ NewJob(r, p, k).key = k
        BY DEF NewJob, Job, Status
    <2>3. AddStep
        BY <1>1, <1>5, <2>1, <2>2 DEF Enqueue, CommitJobs, AddStep
    <2> QED BY <2>1, <2>3
<1>6. ASSUME NEW r \in Regions, NEW p \in Profiles, Submit(r, p) PROVE Goal
    BY <1>5, <1>6 DEF Submit
<1>7. ASSUME NEW r \in Regions, NEW p \in Profiles, NEW k \in Keys, SubmitIdempotent(r, p, k)
      PROVE  Goal
    <2>1. phase # "down" BY <1>7 DEF SubmitIdempotent, Enqueue
    <2> QED BY <1>1, <1>5, <1>7, <2>1 DEF SubmitIdempotent
<1>8. ASSUME NEW id \in JobIds, Retry(id) PROVE Goal
    <2>1. phase # "down" BY <1>8 DEF Retry, Enqueue
    <2>2. ledger.jobs[id].region \in Regions /\ ledger.jobs[id].profile \in Profiles
        BY <1>1, <1>2, <1>8, <2>1 DEF Retry, With, Job
    <2> QED BY <1>5, <1>8, <2>2 DEF Retry
<1>9. ASSUME NEW id \in DOMAIN disk.jobs, NEW job \in Job, Changes(id, job), phase # "down",
             CommitJobs([ledger.jobs EXCEPT ![id] = job])
      PROVE  Goal
    BY <1>1, <1>9 DEF ChangeStep, CommitJobs
<1>10. ASSUME NEW id \in JobIds, Claim(id) PROVE Goal
    <2> DEFINE job == [disk.jobs[id] EXCEPT !.status = "running"]
    <2>1. phase # "down" /\ ledger = disk /\ UNCHANGED owed BY <1>1, <1>10 DEF Claim
    <2>2. /\ id \in Claimable /\ id \in DOMAIN disk.jobs /\ disk.jobs[id].status = "queued"
        BY <1>10, <2>1 DEF Claim, Claimable, With
    <2>3. job \in Job /\ job.status = "running" /\ job.region = disk.jobs[id].region
          /\ job.key = disk.jobs[id].key
        BY <1>2, <2>2 DEF Job, Status, Active
    <2>4. ASSUME NEW i \in DOMAIN disk.jobs, i < id, disk.jobs[i].region = disk.jobs[id].region
          PROVE  disk.jobs[i].status # "queued"
        <3>1. SUFFICES ASSUME disk.jobs[i].status = "queued" PROVE FALSE OBVIOUS
        <3>2. i \in Claimable
            BY <2>1, <2>2, <2>4, <3>1 DEF Claimable, With
        <3>3. id <= i BY <1>10, <3>2 DEF Claim
        <3> QED BY <1>2, <2>2, <2>4, <3>3
    <2>5. Changes(id, job)
        BY <2>1, <2>2, <2>3, <2>4 DEF Changes, Terminal, Active
    <2>6. CommitJobs([ledger.jobs EXCEPT ![id] = job])
        BY <1>10, <2>1 DEF Claim
    <2> QED
        <3> HIDE DEF job
        <3> QED BY <1>9, <2>1, <2>2, <2>3, <2>5, <2>6
<1>11. ASSUME NEW id \in JobIds, Cancel(id) PROVE Goal
    <2>1. phase # "down" /\ ledger = disk /\ UNCHANGED owed /\ id \in DOMAIN disk.jobs
        BY <1>1, <1>11 DEF Cancel
    <2>2. CASE disk.jobs[id].status = "queued"
        <3>1. PICK now \in Clock :
                  CommitJobs([ledger.jobs EXCEPT ![id].status = "cancelled", ![id].ended = now])
            BY <1>11, <2>1, <2>2 DEF Cancel, Active
        <3> DEFINE job == [disk.jobs[id] EXCEPT !.status = "cancelled", !.ended = now]
        <3>2. job \in Job /\ job.status = "cancelled" /\ job.region = disk.jobs[id].region
              /\ job.key = disk.jobs[id].key
            BY <1>2, <2>1, ClockAssumption DEF Job, Status, Terminal
        <3>3. Changes(id, job)
            BY <2>1, <2>2, <3>2 DEF Changes, Terminal, Active
        <3>4. [ledger.jobs EXCEPT ![id] = job]
                 = [ledger.jobs EXCEPT ![id].status = "cancelled", ![id].ended = now]
            BY <2>1
        <3> QED
            <4> HIDE DEF job
            <4> QED BY <1>9, <2>1, <3>1, <3>2, <3>3, <3>4
    <2>3. CASE disk.jobs[id].status # "queued"
        <3> DEFINE job == [disk.jobs[id] EXCEPT !.status = "cancelling"]
        <3>1. CommitJobs([ledger.jobs EXCEPT ![id] = job]) /\ disk.jobs[id].status \in Active
            BY <1>11, <2>1, <2>3 DEF Cancel
        <3>2. job \in Job /\ job.status = "cancelling" /\ job.region = disk.jobs[id].region
              /\ job.key = disk.jobs[id].key
            BY <1>2, <2>1 DEF Job, Status, Active
        <3>3. Changes(id, job)
            BY <2>1, <2>3, <3>1, <3>2 DEF Changes, Terminal, Active
        <3> QED
            <4> HIDE DEF job
            <4> QED BY <1>9, <2>1, <3>1, <3>2, <3>3
    <2> QED BY <2>2, <2>3
<1>12. ASSUME NEW id \in JobIds, NEW failed \in BOOLEAN, Progress(id, failed) PROVE Goal
    <2> DEFINE job == [disk.jobs[id] EXCEPT !.failed = failed]
    <2>1. /\ phase # "down" /\ ledger = disk /\ UNCHANGED owed /\ id \in DOMAIN disk.jobs
          /\ disk.jobs[id].status \in Active
        BY <1>1, <1>12 DEF Progress, With
    <2>2. job \in Job /\ job.status = disk.jobs[id].status /\ job.region = disk.jobs[id].region
          /\ job.key = disk.jobs[id].key
        BY <1>2, <2>1 DEF Job
    <2>3. Changes(id, job)
        BY <2>1, <2>2 DEF Changes, Terminal, Active
    <2>4. CommitJobs([ledger.jobs EXCEPT ![id] = job])
        BY <1>12, <2>1 DEF Progress
    <2> QED
        <3> HIDE DEF job
        <3> QED BY <1>9, <2>1, <2>2, <2>3, <2>4
<1>13. ASSUME NEW id \in JobIds, NEW code \in BOOLEAN, NEW outcome \in BOOLEAN,
              Finish(id, code, outcome)
       PROVE  Goal
    <2> DEFINE old == disk.jobs[id]
               end == FinalStatus(old, code)
    <2>1. /\ phase # "down" /\ ledger = disk /\ id \in DOMAIN disk.jobs
          /\ old.status \in Active
        BY <1>1, <1>13 DEF Finish, With
    <2>2. PICK now \in Clock :
              CommitJobs([ledger.jobs EXCEPT
                  ![id] = [old EXCEPT !.status = end, !.outcome = outcome /\ end = "completed",
                                      !.ended = now]])
        BY <1>13, <2>1 DEF Finish
    <2>3. owed' = IF outcome /\ end = "completed"
                  THEN owed \cup ({id} \X TargetsOf(old.region, targets)) ELSE owed
        BY <1>13, <2>1 DEF Finish
    <2>4. end \in Terminal /\ (old.status = "cancelling" => end = "cancelled")
        BY DEF FinalStatus, Terminal
    <2>5. old \in Job BY <1>2, <2>1
    <2> HIDE DEF end, old
    <2> DEFINE job == [old EXCEPT !.status = end, !.outcome = outcome /\ end = "completed",
                                  !.ended = now]
    <2>6. (outcome /\ end = "completed") \in BOOLEAN /\ now \in Nat /\ end \in Status
        BY <2>4, ClockAssumption DEF Status
    <2>7. job \in Job /\ job.status = end /\ job.region = old.region /\ job.key = old.key
          /\ job.outcome = (outcome /\ end = "completed")
        BY <2>5, <2>6 DEF Job
    <2>8. owed' = IF job.status = "completed" /\ job.outcome
                  THEN owed \cup ({id} \X TargetsOf(job.region, targets)) ELSE owed
        BY <2>3, <2>7
    <2> HIDE DEF job
    <2>9. Changes(id, job)
        BY <2>1, <2>4, <2>7, <2>8 DEF Changes, Terminal, Active, old
    <2> QED BY <1>9, <2>1, <2>2, <2>7, <2>9 DEF job
<1>14. ASSUME NEW id \in JobIds, NEW t \in Targets, Acknowledge(id, t) PROVE Goal
    BY <1>1, <1>14 DEF Acknowledge, AckStep
<1> QED BY <1>3, <1>4, <1>6, <1>7, <1>8, <1>10, <1>11, <1>12, <1>13, <1>14 DEF Next


(* What a commit leaves on disk, and what it has checked.                  *)
LEMMA CommitDisk ==
    ASSUME NEW old, NEW js, NEW cs, NEW up, Commit(old, js, cs, up)
    PROVE  /\ Cardinality(DOMAIN cs) + Cardinality(NewlyCompleted(old, js)) <= MaxEvents
           /\ disk'.completions = Announce(cs, NewlyCompleted(old, js), js)
           /\ \E gone \in Prunable(js) : disk'.jobs = Remove(js, gone)
BY DEF Commit, Write

(* The deliveries that only a step that completes a job announces.         *)
LEMMA NothingNew ==
    ASSUME NEW js PROVE NewlyCompleted(js, js) = {}
BY DEF NewlyCompleted

LEMMA AddedNothingNew ==
    ASSUME NEW js, NEW n, n \notin DOMAIN js, NEW job, job.status = "queued",
           NEW ks, ks = [j \in DOMAIN js \cup {n} |-> IF j = n THEN job ELSE js[j]]
    PROVE  NewlyCompleted(js, ks) = {}
BY DEF NewlyCompleted

LEMMA ChangedNew ==
    ASSUME NEW js, NEW id \in DOMAIN js, NEW job, js[id].status \notin Terminal,
           NEW ks, ks = [js EXCEPT ![id] = job]
    PROVE  NewlyCompleted(js, ks) =
              IF job.status = "completed" /\ job.outcome /\ TargetsOf(job.region, targets) # {}
              THEN {id} ELSE {}
BY DEF NewlyCompleted, Terminal

LEMMA FiniteNumbers ==
    ASSUME NEW n \in Nat, NEW S \in SUBSET (1 .. n)
    PROVE  IsFiniteSet(S) /\ Cardinality(S) \in Nat
<1>1. IsFiniteSet(1 .. n)
    BY FS_Interval
<1>2. IsFiniteSet(S)
    BY <1>1, FS_Subset
<1> QED BY <1>2, FS_CardinalityType

-----------------------------------------------------------------------------
(* The order of starts *)

LEMMA OrderStep == Inv /\ StartedInOrder /\ [Next]_vars => StartedInOrder'
<1> SUFFICES ASSUME Inv, StartedInOrder, [Next]_vars PROVE StartedInOrder'
    OBVIOUS
<1> DEFINE Ordered(js) ==
        \A i, j \in DOMAIN js :
            i < j /\ js[i].region = js[j].region /\ js[i].status = "queued"
                => js[j].status \in {"queued", "cancelled"}
<1>1. Ordered(disk.jobs) BY DEF StartedInOrder
<1>2. accepted \in Nat /\ JobsType(disk.jobs, accepted) BY DEF Inv, TypeOK, LedgerType
<1>3. \A j \in DOMAIN disk.jobs : disk.jobs[j] \in Job /\ j \in 1 .. accepted
    BY <1>2 DEF JobsType
<1>4. ASSUME NEW js, Ordered(js), NEW gone \in Prunable(js), disk'.jobs = Remove(js, gone)
      PROVE  StartedInOrder'
    <2>1. /\ DOMAIN disk'.jobs = DOMAIN js \ gone
          /\ \A j \in DOMAIN js \ gone : disk'.jobs[j] = js[j]
        BY <1>4 DEF Remove
    <2>2. Ordered(disk'.jobs)
        BY <1>4, <2>1
    <2> QED BY <2>2 DEF StartedInOrder
<1>5. CASE OpenStep
    <2>1. PICK at \in [With(disk.jobs, Active) -> Clock] :
              Commit(Interrupt(disk.jobs, at), Interrupt(disk.jobs, at), disk.completions, "opened")
        BY <1>5 DEF OpenStep
    <2> DEFINE js == Interrupt(disk.jobs, at)
    <2>2. DOMAIN js = DOMAIN disk.jobs /\ \A j \in DOMAIN js :
              /\ js[j].region = disk.jobs[j].region
              /\ js[j].status = IF disk.jobs[j].status \in Active THEN "failed"
                                ELSE disk.jobs[j].status
        BY <1>3 DEF Interrupt, Job
    <2>3. Ordered(js)
        <3> HIDE DEF js
        <3> QED BY <1>1, <2>2 DEF Active
    <2> QED
        <3> HIDE DEF Ordered
        <3> QED BY <1>4, <2>1, <2>3, CommitDisk
<1>6. CASE AddStep
    <2>1. PICK job \in Job :
              /\ job.status = "queued"
              /\ Commit(disk.jobs, [j \in DOMAIN disk.jobs \cup {accepted + 1} |->
                            IF j = accepted + 1 THEN job ELSE disk.jobs[j]],
                        disk.completions, phase)
        BY <1>6 DEF AddStep
    <2> DEFINE js == [j \in DOMAIN disk.jobs \cup {accepted + 1} |->
                          IF j = accepted + 1 THEN job ELSE disk.jobs[j]]
    <2>2. Ordered(js) BY <1>1, <1>2, <1>3, <2>1
    <2> QED
        <3> HIDE DEF Ordered
        <3> QED BY <1>4, <2>1, <2>2, CommitDisk
<1>7. CASE ChangeStep
    <2>1. PICK id \in DOMAIN disk.jobs, job \in Job :
              /\ Changes(id, job)
              /\ Commit(disk.jobs, [disk.jobs EXCEPT ![id] = job], disk.completions, phase)
        BY <1>7 DEF ChangeStep
    <2> DEFINE js == [disk.jobs EXCEPT ![id] = job]
    <2>2. DOMAIN js = DOMAIN disk.jobs /\ js[id] = job
          /\ \A j \in DOMAIN js : j # id => js[j] = disk.jobs[j]
        OBVIOUS
    <2>3. Ordered(js)
        <3> SUFFICES ASSUME NEW i \in DOMAIN js, NEW j \in DOMAIN js, i < j,
                            js[i].region = js[j].region, js[i].status = "queued"
                     PROVE  js[j].status \in {"queued", "cancelled"}
            OBVIOUS
        <3> HIDE DEF js
        <3>1. job.status = "queued" => disk.jobs[id].status = "queued"
            BY <1>3, <2>1 DEF Changes, Terminal, Active, Job, Status
        <3>2. CASE i = id
            BY <2>1, <2>2, <3>1, <3>2 DEF Changes
        <3>3. CASE j = id /\ i # id
            <4>1. disk.jobs[i].status = "queued" /\ disk.jobs[i].region = disk.jobs[id].region
                BY <2>1, <2>2, <3>3 DEF Changes
            <4>2. disk.jobs[id].status \in {"queued", "cancelled"}
                BY <1>1, <2>2, <3>3, <4>1
            <4>3. disk.jobs[id].status = "queued"
                BY <2>1, <4>2 DEF Changes, Terminal
            <4>4. job.status # "running"
                BY <2>1, <2>2, <3>3, <4>1, <4>3 DEF Changes
            <4> QED BY <2>1, <2>2, <3>3, <4>3, <4>4 DEF Changes
        <3>4. CASE i # id /\ j # id
            BY <1>1, <2>2, <3>4
        <3> QED BY <3>2, <3>3, <3>4
    <2> QED
        <3> HIDE DEF Ordered
        <3> QED BY <1>4, <2>1, <2>3, CommitDisk
<1>8. ASSUME NEW id, NEW t, AckStep(id, t) PROVE StartedInOrder'
    <2> HIDE DEF Ordered
    <2> QED BY <1>1, <1>4, <1>8, CommitDisk DEF AckStep
<1>9. CASE UNCHANGED disk
    BY <1>9 DEF StartedInOrder
<1> QED BY <1>5, <1>6, <1>7, <1>8, <1>9, DiskSteps

(* Jobs of a region start in the order they were accepted, across restarts.*)
THEOREM StartOrder == Spec => []StartedInOrder
<1>1. Init => StartedInOrder
    BY DEF Init, EmptyLedger, StartedInOrder
<1> QED BY <1>1, OrderStep, StoreSound, PTL DEF Spec

-----------------------------------------------------------------------------
(* A ledger that can be opened again *)

LEMMA ReopenStep == Inv /\ Reopenable /\ [Next]_vars => Reopenable'
<1> SUFFICES ASSUME Inv, Reopenable, [Next]_vars PROVE Reopenable'
    OBVIOUS
<1> DEFINE Unique(js) == \A i, j \in DOMAIN js :
                             js[i].key # NoKey /\ js[i].key = js[j].key => i = j
           Awaited(cs) == \A j \in DOMAIN cs : cs[j].pending # {}
<1>1. Unique(disk.jobs) /\ Awaited(disk.completions)
    BY DEF Reopenable, Valid
<1>2. /\ accepted \in Nat /\ JobsType(disk.jobs, accepted)
      /\ DeliveriesType(disk.completions, accepted)
    BY DEF Inv, TypeOK, LedgerType
<1>3. \A j \in DOMAIN disk.jobs : disk.jobs[j] \in Job /\ j \in 1 .. accepted
    BY <1>2 DEF JobsType
<1>4. ASSUME NEW old, NEW js, NEW cs, NEW up, Commit(old, js, cs, up),
             DOMAIN js \subseteq 1 .. accepted + 1, DOMAIN cs \subseteq 1 .. accepted,
             Unique(js), Awaited(cs)
      PROVE  Reopenable'
    <2> DEFINE new == NewlyCompleted(old, js)
               out == Announce(cs, new, js)
    <2>1. new \subseteq DOMAIN js /\ \A j \in new : TargetsOf(js[j].region, targets) # {}
        BY DEF NewlyCompleted
    <2>2. Awaited(out)
        BY <1>4, <2>1 DEF Announce
    <2>3. Cardinality(DOMAIN out) <= MaxEvents
        <3> HIDE DEF new
        <3>1. DOMAIN out = DOMAIN cs \cup new BY DEF Announce
        <3>2. new \in SUBSET (1 .. accepted + 1) /\ DOMAIN cs \in SUBSET (1 .. accepted + 1)
            BY <1>2, <1>4, <2>1
        <3>3. /\ IsFiniteSet(new) /\ Cardinality(new) \in Nat
              /\ IsFiniteSet(DOMAIN cs) /\ Cardinality(DOMAIN cs) \in Nat
              /\ Cardinality(DOMAIN cs \cap new) \in Nat
            <4>1. accepted + 1 \in Nat /\ DOMAIN cs \cap new \in SUBSET (1 .. accepted + 1)
                BY <1>2, <3>2
            <4> QED BY <3>2, <4>1, FiniteNumbers
        <3>4. Cardinality(DOMAIN cs \cup new) =
                  Cardinality(DOMAIN cs) + Cardinality(new) - Cardinality(DOMAIN cs \cap new)
            BY <3>3, FS_Union
        <3>5. Cardinality(DOMAIN cs) + Cardinality(new) <= MaxEvents
            BY <1>4, CommitDisk DEF new
        <3> QED BY <3>1, <3>3, <3>4, <3>5, LimitsAssumption
    <2>4. disk'.completions = out /\ \E gone \in Prunable(js) : disk'.jobs = Remove(js, gone)
        BY <1>4, CommitDisk
    <2>5. Unique(disk'.jobs)
        <3>1. PICK gone \in Prunable(js) : disk'.jobs = Remove(js, gone)
            BY <2>4
        <3>2. /\ DOMAIN disk'.jobs = DOMAIN js \ gone
              /\ \A j \in DOMAIN js \ gone : disk'.jobs[j] = js[j]
            BY <3>1 DEF Remove
        <3> QED BY <1>4, <3>2
    <2> HIDE DEF out
    <2> QED BY <2>2, <2>3, <2>4, <2>5 DEF Reopenable, Valid
<1>5. DOMAIN disk.jobs \subseteq 1 .. accepted + 1 /\ DOMAIN disk.completions \subseteq 1 .. accepted
    BY <1>2, <1>3 DEF DeliveriesType
<1> HIDE DEF Awaited
<1>6. CASE OpenStep
    <2>1. PICK at \in [With(disk.jobs, Active) -> Clock] :
              Commit(Interrupt(disk.jobs, at), Interrupt(disk.jobs, at), disk.completions, "opened")
        BY <1>6 DEF OpenStep
    <2> DEFINE js == Interrupt(disk.jobs, at)
    <2>2. DOMAIN js = DOMAIN disk.jobs /\ \A j \in DOMAIN js : js[j].key = disk.jobs[j].key
        BY <1>3 DEF Interrupt, Job
    <2> HIDE DEF js
    <2>3. Unique(js) BY <1>1, <2>2
    <2> HIDE DEF Unique
    <2> QED BY <1>1, <1>4, <1>5, <2>1, <2>2, <2>3 DEF js
<1>7. CASE AddStep
    <2>1. PICK job \in Job :
              /\ job.key # NoKey => \A j \in DOMAIN disk.jobs : disk.jobs[j].key # job.key
              /\ Commit(disk.jobs, [j \in DOMAIN disk.jobs \cup {accepted + 1} |->
                            IF j = accepted + 1 THEN job ELSE disk.jobs[j]],
                        disk.completions, phase)
        BY <1>7 DEF AddStep
    <2> DEFINE js == [j \in DOMAIN disk.jobs \cup {accepted + 1} |->
                          IF j = accepted + 1 THEN job ELSE disk.jobs[j]]
    <2>2. Unique(js) BY <1>1, <1>2, <1>3, <2>1
    <2>3. DOMAIN js \subseteq 1 .. accepted + 1 BY <1>2, <1>5
    <2> HIDE DEF js, Unique
    <2> QED BY <1>1, <1>4, <1>5, <2>1, <2>2, <2>3 DEF js
<1>8. CASE ChangeStep
    <2>1. PICK id \in DOMAIN disk.jobs, job \in Job :
              /\ Changes(id, job)
              /\ Commit(disk.jobs, [disk.jobs EXCEPT ![id] = job], disk.completions, phase)
        BY <1>8 DEF ChangeStep
    <2> DEFINE js == [disk.jobs EXCEPT ![id] = job]
    <2>2. DOMAIN js = DOMAIN disk.jobs /\ \A j \in DOMAIN js : js[j].key = disk.jobs[j].key
        BY <2>1 DEF Changes
    <2> HIDE DEF js
    <2>3. Unique(js) BY <1>1, <2>2
    <2> HIDE DEF Unique
    <2> QED BY <1>1, <1>4, <1>5, <2>1, <2>2, <2>3 DEF js
<1>9. ASSUME NEW id, NEW t, AckStep(id, t) PROVE Reopenable'
    <2> DEFINE cs == Acknowledged(disk.completions, id, t)
    <2>1. DOMAIN cs \subseteq 1 .. accepted
        BY <1>5 DEF Acknowledged
    <2>2. Awaited(cs)
        BY <1>1, <1>2, <1>9 DEF Awaited, Acknowledged, AckStep, DeliveriesType, Delivery
    <2> HIDE DEF cs, Unique
    <2> QED BY <1>1, <1>4, <1>5, <1>9, <2>1, <2>2 DEF cs, AckStep
<1>10. CASE UNCHANGED disk
    BY <1>10 DEF Reopenable
<1> QED BY <1>6, <1>7, <1>8, <1>9, <1>10, DiskSteps

(* open accepts every ledger that the service writes: keys are unique,     *)
(* every delivery waits for somebody and the outbox fits.                  *)
THEOREM AlwaysReopens == Spec => []Reopenable
<1>1. Init => Reopenable
    <2> SUFFICES ASSUME Init PROVE Reopenable
        OBVIOUS
    <2>1. DOMAIN disk.jobs = {} /\ DOMAIN disk.completions = {} BY DEF Init, EmptyLedger
    <2> QED BY <2>1, FS_EmptySet, LimitsAssumption DEF Reopenable, Valid
<1> QED BY <1>1, ReopenStep, StoreSound, PTL DEF Spec


-----------------------------------------------------------------------------
(* The outbox *)

Notices(cs) == {n \in JobIds \X Targets : n[1] \in DOMAIN cs /\ n[2] \in cs[n[1]].pending}

Placed(cs) ==
    /\ \A i, j \in DOMAIN cs : cs[i].pos = cs[j].pos => i = j
    /\ \A j \in DOMAIN cs : cs[j].pos <= Cardinality(DOMAIN cs)

(* A delivery is that of a completed job, if its job is still there: the   *)
(* one of a job that completes now takes the place of no other.            *)
OutboxInv ==
    /\ owed = Notices(disk.completions)
    /\ Placed(disk.completions)
    /\ disk.completions = [j \in DOMAIN disk.completions |-> disk.completions[j]]
    /\ \A j \in DOMAIN disk.completions \cap DOMAIN disk.jobs : disk.jobs[j].status = "completed"

LEMMA AnnounceNone ==
    ASSUME NEW cs, cs = [j \in DOMAIN cs |-> cs[j]], NEW js, NEW new, new = {}
    PROVE  Announce(cs, new, js) = cs
BY DEF Announce

LEMMA AnnounceOne ==
    ASSUME NEW n \in Nat, NEW cs, DeliveriesType(cs, n), Placed(cs), n <= MaxJobs,
           NEW id \in 1 .. n, id \notin DOMAIN cs, NEW js,
           NEW out, out = Announce(cs, {id}, js)
    PROVE  /\ Notices(out) = Notices(cs) \cup ({id} \X TargetsOf(js[id].region, targets) \cap (JobIds \X Targets))
           /\ Placed(out)
<1> DEFINE T == TargetsOf(js[id].region, targets)
           c == Cardinality(DOMAIN cs)
<1>1. DOMAIN cs \in SUBSET (1 .. n) /\ DOMAIN out = DOMAIN cs \cup {id}
    BY DEF DeliveriesType, Announce
<1>2. IsFiniteSet(DOMAIN cs) /\ c \in Nat
    BY <1>1, FiniteNumbers
<1>3. Cardinality(DOMAIN out) = c + 1
    BY <1>1, <1>2, FS_AddElement
<1>4. out[id].pos = c + 1 /\ out[id].pending = T
    BY DEF Announce
<1>5. \A j \in DOMAIN cs : out[j] = cs[j] /\ j # id /\ cs[j].pos \in Nat /\ cs[j].pos <= c
    BY DEF Announce, DeliveriesType, Delivery, Placed
<1> HIDE DEF T, c
<1>6. Placed(out)
    <2>1. \A i, j \in DOMAIN out : out[i].pos = out[j].pos => i = j
        <3> SUFFICES ASSUME NEW i \in DOMAIN out, NEW j \in DOMAIN out, out[i].pos = out[j].pos
                     PROVE  i = j
            OBVIOUS
        <3>1. CASE i = id
            BY <1>1, <1>2, <1>4, <1>5, <3>1
        <3>2. CASE j = id
            BY <1>1, <1>2, <1>4, <1>5, <3>2
        <3>3. CASE i # id /\ j # id
            BY <1>1, <1>5, <3>3 DEF Placed
        <3> QED BY <3>1, <3>2, <3>3
    <2>2. \A j \in DOMAIN out : out[j].pos <= c + 1
        <3> SUFFICES ASSUME NEW j \in DOMAIN out PROVE out[j].pos <= c + 1
            OBVIOUS
        <3>1. CASE j = id
            BY <1>2, <1>4, <3>1
        <3>2. CASE j \in DOMAIN cs
            <4>1. out[j].pos = cs[j].pos /\ cs[j].pos \in Nat /\ cs[j].pos <= c
                BY <1>5, <3>2
            <4> QED BY <1>2, <4>1
        <3> QED BY <1>1, <3>1, <3>2
    <2> QED BY <1>3, <2>1, <2>2 DEF Placed
<1>7. Notices(out) = Notices(cs) \cup ({id} \X T \cap (JobIds \X Targets))
    <2>1. ASSUME NEW x \in JobIds \X Targets
          PROVE  x \in Notices(out) <=> x \in Notices(cs) \/ (x[1] = id /\ x[2] \in T)
        BY <1>1, <1>4, <1>5 DEF Notices
    <2>2. \A x \in JobIds \X Targets : x \in {id} \X T <=> x[1] = id /\ x[2] \in T
        OBVIOUS
    <2>3. Notices(out) \subseteq JobIds \X Targets /\ Notices(cs) \subseteq JobIds \X Targets
        BY DEF Notices
    <2> HIDE DEF T
    <2> QED BY <2>1, <2>2, <2>3
<1> QED BY <1>6, <1>7 DEF T

LEMMA Acknowledging ==
    ASSUME NEW n \in Nat, NEW cs, DeliveriesType(cs, n), Placed(cs),
           NEW id \in DOMAIN cs, NEW t \in cs[id].pending,
           NEW out, out = Acknowledged(cs, id, t)
    PROVE  Notices(out) = Notices(cs) \ {<<id, t>>} /\ Placed(out)
<1> DEFINE left == cs[id].pending \ {t}
<1>1. DOMAIN cs \in SUBSET (1 .. n) /\ \A j \in DOMAIN cs : cs[j] \in Delivery
    BY DEF DeliveriesType
<1>2. \A j \in DOMAIN cs : cs[j].pos \in Nat
    BY <1>1 DEF Delivery
<1>3. \A x \in JobIds \X Targets : x = <<id, t>> <=> x[1] = id /\ x[2] = t
    OBVIOUS
<1>4. Notices(cs) \subseteq JobIds \X Targets /\ Notices(out) \subseteq JobIds \X Targets
    BY DEF Notices
<1>5. CASE left # {}
    <2>1. out = [cs EXCEPT ![id].pending = left] BY <1>5 DEF Acknowledged
    <2>2. DOMAIN out = DOMAIN cs /\ \A j \in DOMAIN cs :
              /\ out[j].pos = cs[j].pos
              /\ out[j].pending = IF j = id THEN left ELSE cs[j].pending
        BY <1>1, <2>1 DEF Delivery
    <2>3. Placed(out) BY <2>2 DEF Placed
    <2>4. \A x \in JobIds \X Targets : x \in Notices(out) <=> x \in Notices(cs) /\ x # <<id, t>>
        BY <1>3, <2>2 DEF Notices
    <2> QED BY <1>4, <2>3, <2>4
<1>6. CASE left = {}
    <2>1. out = [j \in DOMAIN cs \ {id} |->
                    IF cs[j].pos > cs[id].pos THEN [cs[j] EXCEPT !.pos = @ - 1] ELSE cs[j]]
        BY <1>6 DEF Acknowledged
    <2>2. DOMAIN out = DOMAIN cs \ {id} /\ \A j \in DOMAIN cs \ {id} :
              /\ out[j].pos = IF cs[j].pos > cs[id].pos THEN cs[j].pos - 1 ELSE cs[j].pos
              /\ out[j].pending = cs[j].pending
        BY <1>1, <2>1 DEF Delivery
    <2>3. IsFiniteSet(DOMAIN cs) /\ Cardinality(DOMAIN cs) \in Nat
        BY <1>1, FiniteNumbers
    <2>4. Cardinality(DOMAIN out) = Cardinality(DOMAIN cs) - 1
        BY <2>2, <2>3, FS_RemoveElement
    <2>5. \A i, j \in DOMAIN out : out[i].pos = out[j].pos => i = j
        BY <1>2, <2>2 DEF Placed
    <2>6. \A j \in DOMAIN out : out[j].pos <= Cardinality(DOMAIN out)
        <3> SUFFICES ASSUME NEW j \in DOMAIN out PROVE out[j].pos <= Cardinality(DOMAIN cs) - 1
            BY <2>4
        <3>1. j \in DOMAIN cs /\ j # id BY <2>2
        <3>2. cs[j].pos # cs[id].pos /\ cs[j].pos <= Cardinality(DOMAIN cs)
              /\ cs[id].pos <= Cardinality(DOMAIN cs)
            BY <3>1 DEF Placed
        <3> QED BY <1>2, <2>2, <2>3, <3>1, <3>2
    <2>7. \A x \in JobIds \X Targets : x \in Notices(out) <=> x \in Notices(cs) /\ x # <<id, t>>
        BY <1>3, <1>6, <2>2 DEF Notices
    <2> QED BY <1>4, <2>5, <2>6, <2>7 DEF Placed
<1> QED BY <1>5, <1>6

LEMMA OutboxStep == Inv /\ OutboxInv /\ [Next]_vars => OutboxInv'
<1> SUFFICES ASSUME Inv, OutboxInv, [Next]_vars PROVE OutboxInv'
    OBVIOUS
<1> DEFINE cs == disk.completions
           AllCompleted(ds, js) == \A j \in ds \cap DOMAIN js : js[j].status = "completed"
<1>1. /\ accepted \in Nat /\ accepted <= MaxJobs /\ JobsType(disk.jobs, accepted)
      /\ DeliveriesType(cs, accepted) /\ targets \subseteq Targets
    BY DEF Inv, TypeOK, LedgerType
<1>2. \A j \in DOMAIN disk.jobs : disk.jobs[j] \in Job /\ j \in 1 .. accepted
    BY <1>1 DEF JobsType
<1>3. owed = Notices(cs) /\ Placed(cs) /\ cs = [j \in DOMAIN cs |-> cs[j]]
      /\ AllCompleted(DOMAIN cs, disk.jobs) /\ DOMAIN cs \subseteq 1 .. accepted
    BY <1>1 DEF OutboxInv, DeliveriesType
<1>4. ASSUME NEW js, NEW gone, disk'.jobs = Remove(js, gone), NEW out, disk'.completions = out,
             Placed(out), owed' = Notices(out), out = [j \in DOMAIN out |-> out[j]],
             AllCompleted(DOMAIN out, js)
      PROVE  OutboxInv'
    BY <1>4 DEF OutboxInv, Remove
<1>5. ASSUME NEW js, NEW gone, disk'.jobs = Remove(js, gone), NEW new, new = {},
             disk'.completions = Announce(cs, new, js), UNCHANGED owed, AllCompleted(DOMAIN cs, js)
      PROVE  OutboxInv'
    <2> HIDE DEF AllCompleted
    <2>1. disk'.completions = cs BY <1>3, <1>5, AnnounceNone
    <2> QED BY <1>3, <1>4, <1>5, <2>1
<1> HIDE DEF cs
<1>6. CASE OpenStep /\ UNCHANGED owed
    <2>1. PICK at \in [With(disk.jobs, Active) -> Clock] :
              Commit(Interrupt(disk.jobs, at), Interrupt(disk.jobs, at), cs, "opened")
        BY <1>6 DEF OpenStep, cs
    <2> DEFINE js == Interrupt(disk.jobs, at)
    <2>2. AllCompleted(DOMAIN cs, js)
        BY <1>3 DEF Interrupt, Active
    <2>3. NewlyCompleted(js, js) = {} BY NothingNew
    <2> HIDE DEF js, AllCompleted
    <2>4. /\ disk'.completions = Announce(cs, NewlyCompleted(js, js), js)
          /\ \E gone : disk'.jobs = Remove(js, gone)
        BY <2>1, CommitDisk DEF js
    <2> QED BY <1>5, <1>6, <2>2, <2>3, <2>4
<1>7. CASE AddStep /\ UNCHANGED owed
    <2>1. PICK job \in Job :
              /\ job.status = "queued"
              /\ Commit(disk.jobs, [j \in DOMAIN disk.jobs \cup {accepted + 1} |->
                            IF j = accepted + 1 THEN job ELSE disk.jobs[j]], cs, phase)
        BY <1>7 DEF AddStep, cs
    <2> DEFINE js == [j \in DOMAIN disk.jobs \cup {accepted + 1} |->
                          IF j = accepted + 1 THEN job ELSE disk.jobs[j]]
    <2>2. accepted + 1 \notin DOMAIN disk.jobs /\ accepted + 1 \notin DOMAIN cs
        BY <1>1, <1>2, <1>3
    <2>3. AllCompleted(DOMAIN cs, js)
        BY <1>3, <2>2
    <2>4. NewlyCompleted(disk.jobs, js) = {}
        BY <2>1, <2>2, AddedNothingNew
    <2> HIDE DEF js, AllCompleted
    <2>5. /\ disk'.completions = Announce(cs, NewlyCompleted(disk.jobs, js), js)
          /\ \E gone : disk'.jobs = Remove(js, gone)
        BY <2>1, CommitDisk DEF js
    <2> QED BY <1>5, <1>7, <2>3, <2>4, <2>5
<1>8. CASE ChangeStep
    <2>1. PICK id \in DOMAIN disk.jobs, job \in Job :
              /\ Changes(id, job)
              /\ Commit(disk.jobs, [disk.jobs EXCEPT ![id] = job], cs, phase)
        BY <1>8 DEF ChangeStep, cs
    <2> DEFINE js == [disk.jobs EXCEPT ![id] = job]
               new == NewlyCompleted(disk.jobs, js)
               T == TargetsOf(job.region, targets)
    <2>2. id \notin DOMAIN cs /\ id \in 1 .. accepted /\ disk.jobs[id].status \notin Terminal
        BY <1>2, <1>3, <2>1 DEF Changes, Terminal
    <2>3. AllCompleted(DOMAIN cs, js) /\ js[id] = job
        BY <1>3, <2>2
    <2>4. new = IF job.status = "completed" /\ job.outcome /\ T # {} THEN {id} ELSE {}
        BY <2>2, ChangedNew
    <2>5. owed' = IF job.status = "completed" /\ job.outcome THEN owed \cup ({id} \X T) ELSE owed
        BY <2>1 DEF Changes
    <2>6. T \subseteq Targets BY <1>1 DEF TargetsOf
    <2>7. /\ disk'.completions = Announce(cs, new, js)
          /\ \E gone : disk'.jobs = Remove(js, gone)
        <3> HIDE DEF js
        <3> QED BY <2>1, CommitDisk DEF js
    <2>8. CASE new = {}
        <3>1. UNCHANGED owed
            <4>1. T = {} => {id} \X T = {} OBVIOUS
            <4> HIDE DEF T, new
            <4> QED BY <2>4, <2>5, <2>8, <4>1
        <3> HIDE DEF js, AllCompleted, new
        <3> QED BY <1>5, <2>3, <2>7, <2>8, <3>1
    <2>9. CASE new # {}
        <3> DEFINE out == Announce(cs, {id}, js)
        <3>1. new = {id} /\ job.status = "completed" /\ owed' = owed \cup ({id} \X T)
            BY <2>4, <2>5, <2>9
        <3>2. Notices(out) = Notices(cs) \cup ({id} \X TargetsOf(js[id].region, targets) \cap (JobIds \X Targets))
              /\ Placed(out)
            <4> HIDE DEF js, out
            <4> QED BY <1>1, <1>3, <2>2, AnnounceOne DEF out
        <3>3. {id} \X T \subseteq JobIds \X Targets
            <4>1. id \in JobIds BY <1>1, <2>2, LimitsAssumption DEF JobIds
            <4> HIDE DEF T
            <4> QED BY <2>6, <4>1
        <3>4. owed' = Notices(out)
            <4> HIDE DEF js, out, T
            <4> QED BY <1>3, <2>3, <3>1, <3>2, <3>3 DEF T
        <3>5. out = [j \in DOMAIN out |-> out[j]] /\ DOMAIN out = DOMAIN cs \cup {id}
            BY DEF Announce
        <3>6. AllCompleted(DOMAIN out, js)
            <4> HIDE DEF js, out
            <4> QED BY <2>3, <3>1, <3>5
        <3> HIDE DEF js, out, AllCompleted, new
        <3>7. disk'.completions = out BY <2>7, <3>1 DEF out
        <3> QED BY <1>4, <2>7, <3>2, <3>4, <3>5, <3>6, <3>7
    <2> QED BY <2>8, <2>9
<1>9. ASSUME NEW id, NEW t, AckStep(id, t) PROVE OutboxInv'
    <2> DEFINE out == Acknowledged(cs, id, t)
    <2>1. id \in DOMAIN cs /\ t \in cs[id].pending /\ owed' = owed \ {<<id, t>>}
          /\ Commit(disk.jobs, disk.jobs, out, phase)
        BY <1>9 DEF AckStep, cs
    <2>2. Notices(out) = Notices(cs) \ {<<id, t>>} /\ Placed(out)
        <3> HIDE DEF out
        <3> QED BY <1>1, <1>3, <2>1, Acknowledging DEF out
    <2>3. out = [j \in DOMAIN out |-> out[j]] /\ DOMAIN out \subseteq DOMAIN cs
        <3>1. CASE cs[id].pending \ {t} # {}
            BY <3>1 DEF Acknowledged
        <3>2. CASE cs[id].pending \ {t} = {}
            BY <3>2 DEF Acknowledged
        <3> QED BY <3>1, <3>2
    <2>4. AllCompleted(DOMAIN out, disk.jobs)
        <3> HIDE DEF out
        <3> QED BY <1>3, <2>3
    <2> HIDE DEF out, AllCompleted
    <2>5. /\ disk'.completions = Announce(out, NewlyCompleted(disk.jobs, disk.jobs), disk.jobs)
          /\ \E gone : disk'.jobs = Remove(disk.jobs, gone)
        BY <2>1, CommitDisk
    <2>6. disk'.completions = out BY <2>3, <2>5, NothingNew, AnnounceNone
    <2> QED BY <1>3, <1>4, <2>1, <2>2, <2>3, <2>4, <2>5, <2>6
<1>10. CASE UNCHANGED <<disk, owed>>
    BY <1>10 DEF OutboxInv, Notices, Placed
<1> QED BY <1>6, <1>7, <1>8, <1>9, <1>10, DiskSteps

LEMMA OutboxInvHolds == Spec => []OutboxInv
<1>1. Init => OutboxInv
    <2> SUFFICES ASSUME Init PROVE OutboxInv
        OBVIOUS
    <2>1. disk.completions = <<>> /\ DOMAIN disk.completions = {} /\ owed = {}
        BY DEF Init, EmptyLedger
    <2>2. <<>> = [j \in {} |-> j]
        OBVIOUS
    <2>3. disk.completions = [j \in DOMAIN disk.completions |-> disk.completions[j]]
        BY <2>1, <2>2
    <2> QED BY <2>1, <2>3 DEF OutboxInv, Notices, Placed
<1> QED BY <1>1, OutboxStep, StoreSound, PTL DEF Spec

(* What completed jobs owe and nobody acknowledged is what is on disk, in  *)
(* places that are all different (commit, acknowledge_completion).         *)
THEOREM OutboxIsOwed == Spec => []OutboxExact
<1>1. OutboxInv => OutboxExact
    BY DEF OutboxInv, OutboxExact, Notices, Placed
<1> QED BY <1>1, OutboxInvHolds, PTL


-----------------------------------------------------------------------------
(* Records *)

(* Every write takes the jobs on disk to others, of which retention then   *)
(* drops some: what an opening or an operation makes of each job.          *)
Lineage(js) ==
    /\ DOMAIN disk.jobs \subseteq DOMAIN js
    /\ \A j \in DOMAIN js : js[j].ended \in Nat
    /\ \A j \in DOMAIN disk.jobs :
          LET before == disk.jobs[j]
              after == js[j]
          IN /\ before.status \in Terminal => after = before
             /\ before.status = "cancelling" => after.status \in {"cancelling", "cancelled", "failed"}
             /\ before.status = "queued" => after.status \in {"queued", "running", "cancelled"}
             /\ before.key = after.key /\ before.region = after.region

LEMMA WriteShape ==
    ASSUME Inv, [Next]_vars, disk' # disk
    PROVE  \E js : /\ Lineage(js) /\ IsFiniteSet(DOMAIN js)
                   /\ \E gone \in Prunable(js) : disk'.jobs = Remove(js, gone)
<1> DEFINE Goal == \E js : /\ Lineage(js) /\ IsFiniteSet(DOMAIN js)
                           /\ \E gone \in Prunable(js) : disk'.jobs = Remove(js, gone)
<1> SUFFICES Goal
    OBVIOUS
<1>1. accepted \in Nat /\ JobsType(disk.jobs, accepted)
    BY DEF Inv, TypeOK, LedgerType
<1>2. \A j \in DOMAIN disk.jobs : disk.jobs[j] \in Job /\ j \in 1 .. accepted
    BY <1>1 DEF JobsType
<1>3. ASSUME NEW js, Lineage(js), DOMAIN js \subseteq 1 .. accepted + 1,
             \E gone \in Prunable(js) : disk'.jobs = Remove(js, gone)
      PROVE  Goal
    <2>1. accepted + 1 \in Nat /\ DOMAIN js \in SUBSET (1 .. accepted + 1)
        BY <1>1, <1>3
    <2>2. IsFiniteSet(DOMAIN js)
        BY <2>1, FiniteNumbers
    <2> QED BY <1>3, <2>2
<1> HIDE DEF Goal
<1>4. CASE OpenStep
    <2>1. PICK at \in [With(disk.jobs, Active) -> Clock] :
              Commit(Interrupt(disk.jobs, at), Interrupt(disk.jobs, at), disk.completions, "opened")
        BY <1>4 DEF OpenStep
    <2> DEFINE js == Interrupt(disk.jobs, at)
    <2>2. \A j \in DOMAIN disk.jobs : disk.jobs[j].status \in Active => at[j] \in Nat
        BY <2>1, ClockAssumption DEF With
    <2>3. Lineage(js) /\ DOMAIN js \subseteq 1 .. accepted + 1
        <3>1. DOMAIN js = DOMAIN disk.jobs /\ DOMAIN js \subseteq 1 .. accepted + 1
            BY <1>1, <1>2 DEF Interrupt
        <3>2. ASSUME NEW j \in DOMAIN disk.jobs, disk.jobs[j].status \in Active
              PROVE  /\ js[j].ended \in Nat /\ js[j].status = "failed"
                     /\ js[j].key = disk.jobs[j].key /\ js[j].region = disk.jobs[j].region
            BY <1>2, <2>2, <3>2 DEF Interrupt, Job
        <3>3. ASSUME NEW j \in DOMAIN disk.jobs, disk.jobs[j].status \notin Active
              PROVE  js[j] = disk.jobs[j] /\ js[j].ended \in Nat
            BY <1>2, <3>3 DEF Interrupt, Job
        <3> HIDE DEF js
        <3> QED BY <3>1, <3>2, <3>3 DEF Lineage, Active, Terminal
    <2> HIDE DEF js
    <2> QED BY <1>3, <2>1, <2>3, CommitDisk DEF js
<1>5. CASE AddStep
    <2>1. PICK job \in Job :
              Commit(disk.jobs, [j \in DOMAIN disk.jobs \cup {accepted + 1} |->
                         IF j = accepted + 1 THEN job ELSE disk.jobs[j]],
                     disk.completions, phase)
        BY <1>5 DEF AddStep
    <2> DEFINE js == [j \in DOMAIN disk.jobs \cup {accepted + 1} |->
                          IF j = accepted + 1 THEN job ELSE disk.jobs[j]]
    <2>2. DOMAIN js = DOMAIN disk.jobs \cup {accepted + 1}
          /\ js[accepted + 1] = job /\ \A j \in DOMAIN disk.jobs : js[j] = disk.jobs[j]
        BY <1>1, <1>2
    <2>3. DOMAIN js \subseteq 1 .. accepted + 1
        BY <1>1, <1>2, <2>2
    <2>4. \A j \in DOMAIN js : js[j].ended \in Nat
        <3>1. job.ended \in Nat /\ \A j \in DOMAIN disk.jobs : disk.jobs[j].ended \in Nat
            BY <1>2, <2>1 DEF Job
        <3> HIDE DEF js
        <3> QED BY <2>2, <3>1
    <2> HIDE DEF js
    <2>5. Lineage(js)
        BY <2>2, <2>4 DEF Lineage
    <2> QED BY <1>3, <2>1, <2>3, <2>5, CommitDisk DEF js
<1>6. CASE ChangeStep
    <2>1. PICK id \in DOMAIN disk.jobs, job \in Job :
              /\ Changes(id, job)
              /\ Commit(disk.jobs, [disk.jobs EXCEPT ![id] = job], disk.completions, phase)
        BY <1>6 DEF ChangeStep
    <2> DEFINE js == [disk.jobs EXCEPT ![id] = job]
    <2>2. DOMAIN js = DOMAIN disk.jobs /\ js[id] = job
          /\ \A j \in DOMAIN js : j # id => js[j] = disk.jobs[j]
        OBVIOUS
    <2>3. DOMAIN js \subseteq 1 .. accepted + 1
        BY <1>1, <1>2, <2>2
    <2>4. \A j \in DOMAIN js : js[j].ended \in Nat
        <3>1. job.ended \in Nat /\ \A j \in DOMAIN disk.jobs : disk.jobs[j].ended \in Nat
            BY <1>2, <2>1 DEF Job
        <3> HIDE DEF js
        <3> QED BY <2>2, <3>1
    <2> HIDE DEF js
    <2>5. Lineage(js)
        BY <2>1, <2>2, <2>4 DEF Lineage, Changes
    <2> QED BY <1>3, <2>1, <2>3, <2>5, CommitDisk DEF js
<1>7. ASSUME NEW id, NEW t, AckStep(id, t) PROVE Goal
    <2>1. Lineage(disk.jobs) /\ DOMAIN disk.jobs \subseteq 1 .. accepted + 1
        BY <1>1, <1>2 DEF Lineage, Job
    <2> QED BY <1>3, <1>7, <2>1, CommitDisk DEF AckStep
<1> QED BY <1>4, <1>5, <1>6, <1>7, DiskSteps

LEMMA LivesStep == Inv /\ [Next]_vars => [Lives]_disk
<1> SUFFICES ASSUME Inv, [Next]_vars, disk' # disk PROVE Lives
    OBVIOUS
<1>1. PICK js : Lineage(js) /\ \E gone \in Prunable(js) : disk'.jobs = Remove(js, gone)
    BY WriteShape
<1> QED BY <1>1 DEF Lives, Lineage, Remove

LEMMA SurvivesStep == Inv /\ OutboxInv /\ [Next]_vars => [Survives]_disk
<1> SUFFICES ASSUME Inv, OutboxInv, [Next]_vars, disk' # disk, phase = "down" PROVE Survives
    BY DEF Survives
<1>1. OpenStep
    BY DiskSteps
<1>2. PICK at \in [With(disk.jobs, Active) -> Clock] :
          Commit(Interrupt(disk.jobs, at), Interrupt(disk.jobs, at), disk.completions, "opened")
    BY <1>1 DEF OpenStep
<1> DEFINE js == Interrupt(disk.jobs, at)
<1>3. /\ DOMAIN js = DOMAIN disk.jobs
      /\ \A j \in DOMAIN js : js[j].status \notin Active
      /\ \A j \in DOMAIN js : disk.jobs[j].status = "queued" => js[j] = disk.jobs[j]
    <2>1. \A j \in DOMAIN disk.jobs : disk.jobs[j] \in Job
        BY DEF Inv, TypeOK, LedgerType, JobsType
    <2> QED BY <2>1 DEF Interrupt, Active, Job
<1> HIDE DEF js
<1>4. /\ disk'.completions = Announce(disk.completions, NewlyCompleted(js, js), js)
      /\ \E gone \in Prunable(js) : disk'.jobs = Remove(js, gone)
    BY <1>2, CommitDisk DEF js
<1>5. disk'.completions = disk.completions
    BY <1>4, NothingNew, AnnounceNone DEF OutboxInv
<1>6. PICK gone \in Prunable(js) : disk'.jobs = Remove(js, gone)
    BY <1>4
<1>7. gone \subseteq With(js, Terminal) BY DEF Prunable
<1>8. /\ DOMAIN disk'.jobs = DOMAIN js \ gone
      /\ \A j \in DOMAIN js \ gone : disk'.jobs[j] = js[j]
    BY <1>6 DEF Remove
<1>9. With(disk'.jobs, Active) = {}
    BY <1>3, <1>8 DEF With
<1>10. ASSUME NEW j \in With(disk.jobs, {"queued"})
       PROVE  j \in DOMAIN disk'.jobs /\ disk'.jobs[j] = disk.jobs[j]
    <2>1. j \in DOMAIN js /\ disk.jobs[j].status = "queued" /\ js[j] = disk.jobs[j]
        BY <1>3 DEF With
    <2>2. j \notin gone BY <1>7, <2>1 DEF With, Terminal
    <2> QED BY <1>8, <2>1, <2>2
<1> QED BY <1>5, <1>9, <1>10 DEF Survives

LEMMA KeepsNewestStep == Inv /\ [Next]_vars => [KeepsNewest]_disk
<1> SUFFICES ASSUME Inv, [Next]_vars, disk' # disk, NEW j \in DOMAIN disk.jobs \ DOMAIN disk'.jobs
             PROVE  /\ Retain > 0
                    /\ Cardinality(With(disk'.jobs, Terminal)) = Retain
                    /\ disk.jobs[j].status \in Terminal =>
                          \A k \in With(disk'.jobs, Terminal) : disk.jobs[j].ended <= disk'.jobs[k].ended
    BY DEF KeepsNewest
<1>1. PICK js : /\ Lineage(js) /\ IsFiniteSet(DOMAIN js)
                /\ \E gone \in Prunable(js) : disk'.jobs = Remove(js, gone)
    BY WriteShape
<1>2. PICK gone \in Prunable(js) : disk'.jobs = Remove(js, gone)
    BY <1>1
<1> DEFINE ended == With(js, Terminal)
<1>3. /\ DOMAIN disk'.jobs = DOMAIN js \ gone
      /\ \A i \in DOMAIN js \ gone : disk'.jobs[i] = js[i]
    BY <1>2 DEF Remove
<1>4. j \in gone
    BY <1>1, <1>3 DEF Lineage
<1>5. /\ Retain # 0 /\ gone \subseteq ended
      /\ Cardinality(gone) = IF Cardinality(ended) > Retain THEN Cardinality(ended) - Retain ELSE 0
      /\ \A i \in gone, k \in ended \ gone : js[i].ended <= js[k].ended
    BY <1>4 DEF Prunable
<1>6. With(disk'.jobs, Terminal) = ended \ gone
    BY <1>3 DEF With
<1>7. IsFiniteSet(ended) /\ Cardinality(ended) \in Nat
    <2>1. ended \subseteq DOMAIN js BY DEF With
    <2> QED BY <1>1, <2>1, FS_Subset, FS_CardinalityType
<1>8. IsFiniteSet(gone) /\ Cardinality(gone) \in Nat /\ Cardinality(gone) # 0
    BY <1>4, <1>5, <1>7, FS_Subset, FS_CardinalityType, FS_EmptySet
<1>9. Cardinality(ended \ gone) = Cardinality(ended) - Cardinality(gone)
    <2>1. ended \cap gone = gone BY <1>5
    <2> HIDE DEF ended
    <2> QED BY <1>7, <2>1, FS_Difference
<1>10. Cardinality(With(disk'.jobs, Terminal)) = Retain
    BY <1>5, <1>6, <1>7, <1>8, <1>9, LimitsAssumption
<1>11. ASSUME disk.jobs[j].status \in Terminal, NEW k \in With(disk'.jobs, Terminal)
       PROVE  disk.jobs[j].ended <= disk'.jobs[k].ended
    <2>1. js[j] = disk.jobs[j] BY <1>1, <1>11 DEF Lineage
    <2>2. k \in ended \ gone /\ disk'.jobs[k] = js[k] BY <1>3, <1>6 DEF With
    <2> QED BY <1>4, <1>5, <2>1, <2>2
<1> QED BY <1>5, <1>10, <1>11, LimitsAssumption

(* Ended jobs never change, cancellations stay cancellations, a restart    *)
(* keeps the queue, and only the oldest records leave, when the window is  *)
(* full (cancel, finish_with_outcome, open, commit).                       *)
THEOREM RecordsAreKept == Spec => RecordsKept
<1>1. Inv /\ OutboxInv /\ [Next]_vars => [Lives]_disk /\ [Survives]_disk /\ [KeepsNewest]_disk
    BY LivesStep, SurvivesStep, KeepsNewestStep
<1> QED BY <1>1, StoreSound, OutboxInvHolds, PTL
        DEF Spec, RecordsKept, LifeCycle, QueueSurvivesRestart, RetentionKeepsNewest

-----------------------------------------------------------------------------
(* The service over the ledger *)

(* Every step of the service is a step of the ledger or leaves it alone.   *)
LEMMA LedgerStep == [ServiceNext]_allVars => [Next]_vars
<1> SUFFICES ASSUME [ServiceNext]_allVars PROVE [Next]_vars
    OBVIOUS
<1>1. CASE OpenService \/ Start \/ Die
    BY <1>1 DEF OpenService, Start, Die, Next
<1>2. ASSUME NEW r \in Regions, NEW p \in Profiles, SubmitRequest(r, p) PROVE Next
    BY <1>2 DEF SubmitRequest, Next
<1>3. ASSUME NEW id \in JobIds, RetryRequest(id) \/ CancelRequest(id) \/ ClaimNext(id)
      PROVE  Next
    BY <1>3 DEF RetryRequest, CancelRequest, ClaimNext, Next
<1>4. ASSUME NEW id \in JobIds, Join(id) PROVE Next
    <2>1. Finish(id, ~Succeeded(task[id]), Succeeded(task[id]))
        BY <1>4 DEF Join
    <2>2. Succeeded(task[id]) \in BOOLEAN /\ (~Succeeded(task[id])) \in BOOLEAN
        BY DEF Succeeded
    <2> QED BY <2>1, <2>2 DEF Next
<1>5. ASSUME NEW id \in JobIds, NEW failed \in BOOLEAN, Report(id, failed) PROVE Next
    BY <1>5 DEF Report, Next
<1>6. ASSUME NEW id \in JobIds, FinalProgress(id) PROVE Next
    BY <1>6 DEF FinalProgress, Next
<1>7. ASSUME NEW id \in JobIds,
             JoinFails(id) \/ WorkFails(id) \/ ObserveStop(id) \/ WorkDone(id) \/ Deadline(id)
      PROVE  UNCHANGED vars
    BY <1>7 DEF JoinFails, WorkFails, ObserveStop, WorkDone, Deadline
<1>8. CASE \/ Signal \/ Enter \/ RefuseRequest \/ TopStopping \/ TopSweep \/ ClaimNone
           \/ ClaimFails \/ Tick \/ NoticeShutdown \/ UNCHANGED allVars
    BY <1>8 DEF Signal, Enter, RefuseRequest, TopStopping, TopSweep, ClaimNone, ClaimFails, Tick,
        NoticeShutdown, allVars
<1> QED BY <1>1, <1>2, <1>3, <1>4, <1>5, <1>6, <1>7, <1>8 DEF ServiceNext, Claiming, Joining

(* The service runs a ledger: whatever is proved of the ledger holds in    *)
(* it, with the worker loop, handlers, signals and deaths of service.rs.   *)
THEOREM ServiceKeepsLedger == ServiceSpec => Spec
<1>1. ServiceInit => Init
    BY DEF ServiceInit
<1> QED BY <1>1, LedgerStep, PTL DEF ServiceSpec, Spec

-----------------------------------------------------------------------------
(* What the operations do to the slots while the process lives *)

Occupied == With(ledger.jobs, Active)

LEMMA CommitOccupied ==
    ASSUME NEW js, CommitJobs(js), phase = "serving", Alive
    PROVE  /\ phase' = "serving"
           /\ Occupied' = With(js, Active)
           /\ \A j \in DOMAIN ledger'.jobs : j \in DOMAIN js /\ ledger'.jobs[j] = js[j]
<1>1. ledger' = disk' /\ phase' = "serving"
    BY CommitEffect DEF CommitJobs, Alive
<1>2. PICK gone \in SUBSET With(js, Terminal) : disk'.jobs = Remove(js, gone)
    BY CommitEffect DEF CommitJobs
<1>3. \A j \in With(js, Active) : j \notin gone
    BY DEF With, Active, Terminal
<1> QED BY <1>1, <1>2, <1>3 DEF Occupied, With, Remove

LEMMA EnqueueOccupied ==
    ASSUME Inv, NEW r, NEW p, NEW k, Enqueue(r, p, k), Alive
    PROVE  phase' = "serving" /\ Occupied' = Occupied
<1> DEFINE js == [j \in DOMAIN ledger.jobs \cup {accepted + 1} |->
                     IF j = accepted + 1 THEN NewJob(r, p, k) ELSE ledger.jobs[j]]
<1>1. accepted + 1 \notin DOMAIN ledger.jobs
    BY DEF Inv, TypeOK, LedgerType, JobsType
<1>2. With(js, Active) = Occupied
    BY <1>1 DEF With, Occupied, Active, NewJob
<1>3. phase = "serving" /\ CommitJobs(js)
    BY DEF Enqueue
<1> HIDE DEF js
<1> QED BY <1>2, <1>3, CommitOccupied

(* A job that is changed keeps or gives up its slot.                       *)
LEMMA ChangeOccupied ==
    ASSUME NEW id \in DOMAIN ledger.jobs, NEW job, phase = "serving", Alive,
           CommitJobs([ledger.jobs EXCEPT ![id] = job])
    PROVE  /\ phase' = "serving"
           /\ Occupied' = IF job.status \in Active THEN Occupied \cup {id} ELSE Occupied \ {id}
           /\ \A j \in DOMAIN ledger'.jobs :
                j \in DOMAIN ledger.jobs /\ ledger'.jobs[j] = IF j = id THEN job ELSE ledger.jobs[j]
<1> DEFINE js == [ledger.jobs EXCEPT ![id] = job]
<1>1. DOMAIN js = DOMAIN ledger.jobs /\ \A j \in DOMAIN js : js[j] = IF j = id THEN job ELSE ledger.jobs[j]
    OBVIOUS
<1>2. With(js, Active) = IF job.status \in Active THEN Occupied \cup {id} ELSE Occupied \ {id}
    <2> HIDE DEF js
    <2> QED BY <1>1 DEF With, Occupied
<1> HIDE DEF js
<1> QED BY <1>1, <1>2, CommitOccupied DEF js

LEMMA ClaimOccupied ==
    ASSUME Inv, NEW id, Claim(id), Alive
    PROVE  phase' = "serving" /\ Occupied' = Occupied \cup {id}
<1> DEFINE job == [ledger.jobs[id] EXCEPT !.status = "running"]
<1>1. id \in DOMAIN ledger.jobs /\ phase = "serving"
    BY DEF Claim, Claimable, With
<1>2. CommitJobs([ledger.jobs EXCEPT ![id] = job])
    BY DEF Claim
<1>3. job.status = "running"
    BY <1>1 DEF Inv, TypeOK, LedgerType, JobsType, Job
<1> HIDE DEF job
<1> QED BY <1>1, <1>2, <1>3, ChangeOccupied DEF Active

LEMMA CancelOccupied ==
    ASSUME Inv, NEW id, Cancel(id), Alive
    PROVE  phase' = "serving" /\ Occupied' = Occupied
<1>1. id \in DOMAIN ledger.jobs /\ phase = "serving" /\ ledger.jobs[id] \in Job
    BY DEF Cancel, Inv, TypeOK, LedgerType, JobsType
<1>2. CASE ledger.jobs[id].status = "queued"
    <2>1. PICK now \in Clock :
              CommitJobs([ledger.jobs EXCEPT ![id].status = "cancelled", ![id].ended = now])
        BY <1>2 DEF Cancel, Active
    <2> DEFINE job == [ledger.jobs[id] EXCEPT !.status = "cancelled", !.ended = now]
    <2>2. [ledger.jobs EXCEPT ![id] = job]
             = [ledger.jobs EXCEPT ![id].status = "cancelled", ![id].ended = now]
        BY <1>1
    <2>3. job.status = "cancelled"
        BY <1>1 DEF Job
    <2>4. id \notin Occupied
        BY <1>2 DEF Occupied, With, Active
    <2> HIDE DEF job
    <2> QED BY <1>1, <2>1, <2>2, <2>3, <2>4, ChangeOccupied DEF Active
<1>3. CASE ledger.jobs[id].status # "queued"
    <2> DEFINE job == [ledger.jobs[id] EXCEPT !.status = "cancelling"]
    <2>1. CommitJobs([ledger.jobs EXCEPT ![id] = job]) /\ ledger.jobs[id].status \in Active
        BY <1>3 DEF Cancel
    <2>2. job.status = "cancelling" /\ id \in Occupied
        BY <1>1, <2>1 DEF Job, Occupied, With
    <2> HIDE DEF job
    <2> QED BY <1>1, <2>1, <2>2, ChangeOccupied DEF Active
<1> QED BY <1>2, <1>3

LEMMA ProgressOccupied ==
    ASSUME Inv, NEW id, NEW failed, Progress(id, failed), Alive
    PROVE  phase' = "serving" /\ Occupied' = Occupied
<1> DEFINE job == [ledger.jobs[id] EXCEPT !.failed = failed]
<1>1. id \in DOMAIN ledger.jobs /\ phase = "serving" /\ id \in Occupied
    BY DEF Progress, With, Occupied
<1>2. CommitJobs([ledger.jobs EXCEPT ![id] = job])
    BY DEF Progress
<1>3. job.status = ledger.jobs[id].status /\ job.status \in Active
    BY <1>1 DEF Inv, TypeOK, LedgerType, JobsType, Job, Occupied, With
<1> HIDE DEF job
<1> QED BY <1>1, <1>2, <1>3, ChangeOccupied

(* The job that ends gives its slot up; what it becomes depends on what    *)
(* its worker reports.                                                     *)
LEMMA FinishOccupied ==
    ASSUME Inv, NEW id, NEW code \in BOOLEAN, NEW outcome \in BOOLEAN, Finish(id, code, outcome), Alive
    PROVE  /\ phase' = "serving" /\ Occupied' = Occupied \ {id}
           /\ code => \A j \in DOMAIN ledger'.jobs :
                 j \in DOMAIN ledger.jobs /\ (ledger'.jobs[j].status = "completed" =>
                     ledger.jobs[j].status = "completed")
<1> DEFINE end == FinalStatus(ledger.jobs[id], code)
<1>1. id \in DOMAIN ledger.jobs /\ phase = "serving" /\ ledger.jobs[id] \in Job
    BY DEF Finish, With, Inv, TypeOK, LedgerType, JobsType
<1>2. PICK now \in Clock :
          CommitJobs([ledger.jobs EXCEPT
              ![id] = [ledger.jobs[id] EXCEPT !.status = end, !.outcome = outcome /\ end = "completed",
                                              !.ended = now]])
    BY DEF Finish
<1>3. end \in Terminal /\ (code => end # "completed")
    BY DEF FinalStatus, Terminal
<1> HIDE DEF end
<1> DEFINE job == [ledger.jobs[id] EXCEPT !.status = end, !.outcome = outcome /\ end = "completed",
                                          !.ended = now]
<1>4. job.status = end
    BY <1>1 DEF Job
<1>5. CommitJobs([ledger.jobs EXCEPT ![id] = job])
    BY <1>2
<1> HIDE DEF job
<1>6. job.status \notin Active
    BY <1>3, <1>4 DEF Active, Terminal
<1> QED BY <1>1, <1>3, <1>4, <1>5, <1>6, ChangeOccupied

(* An opening interrupts every job that had a slot.                        *)
LEMMA OpenOccupied ==
    ASSUME Inv, Open, Alive
    PROVE  phase' = "opened" /\ Occupied' = {}
<1>1. PICK at \in [With(disk.jobs, Active) -> Clock] :
          Commit(Interrupt(disk.jobs, at), Interrupt(disk.jobs, at), disk.completions, "opened")
    BY DEF Open
<1> DEFINE js == Interrupt(disk.jobs, at)
<1>2. ASSUME NEW j \in DOMAIN js PROVE js[j].status \notin Active
    <2>1. j \in DOMAIN disk.jobs
        BY DEF Interrupt
    <2>2. disk.jobs[j] \in Job
        BY <2>1 DEF Inv, TypeOK, LedgerType, JobsType
    <2>3. CASE disk.jobs[j].status \in Active
        <3>1. js[j] = [disk.jobs[j] EXCEPT !.status = "failed", !.outcome = FALSE, !.ended = at[j]]
            BY <2>1, <2>3 DEF Interrupt
        <3>2. js[j].status = "failed"
            <4> HIDE DEF js
            <4> QED BY <3>1, <2>2 DEF Job
        <3> HIDE DEF js
        <3> QED BY <3>2 DEF Active
    <2>4. CASE disk.jobs[j].status \notin Active
        BY <2>1, <2>4 DEF Interrupt
    <2> QED BY <2>3, <2>4
<1> HIDE DEF js
<1>3. PICK gone : disk'.jobs = Remove(js, gone)
    BY <1>1, CommitEffect DEF js
<1>4. ledger' = disk' /\ phase' = "opened"
    BY <1>1, CommitEffect DEF Alive
<1> QED BY <1>2, <1>3, <1>4 DEF Occupied, With, Remove

-----------------------------------------------------------------------------
(* The tasks and the slots *)

(* The loop runs exactly while the ledger is served, it starts with no     *)
(* slot taken, and it is done only when every task was joined.             *)
Turns ==
    /\ phase = "serving" <=> loop # "off"
    /\ phase = "opened" => Occupied = {}
    /\ loop \in {"off", "done"} => DOMAIN task = {} /\ ~accepting
    /\ loop = "off" => entered = 0

TaskSlots == DOMAIN task \subseteq Occupied /\ SlotHasWorker

SInv == ServiceTypeOK /\ Turns /\ TaskSlots

LEMMA DeathIsClean ==
    ASSUME Died
    PROVE  SInv' /\ DOMAIN task' = {} /\ loop' = "off"
<1>1. DOMAIN task' = {} /\ DOMAIN control' = {} /\ 0 \in 0 .. MaxEntered
    BY EnteredAssumption DEF Died, Idle
<1>2. ServiceTypeOK'
    BY <1>1 DEF Died, Idle, ServiceTypeOK
<1>3. Turns' /\ TaskSlots'
    BY <1>1 DEF Died, Idle, Turns, TaskSlots, SlotHasWorker
<1> QED BY <1>1, <1>2, <1>3 DEF Died, Idle, SInv

(* A step that leaves the ledger and the set of tasks alone.               *)
LEMMA StillHeld ==
    ASSUME TaskSlots, UNCHANGED vars, DOMAIN task' = DOMAIN task, storageError => storageError'
    PROVE  TaskSlots' /\ Occupied' = Occupied
<1>1. Occupied' = Occupied
    BY DEF vars, Occupied
<1> QED BY <1>1 DEF TaskSlots, SlotHasWorker, vars, Occupied

(* The steps of the loop, and those of signals and handlers, that only     *)
(* change the state of the loop.                                           *)
LEMMA LoopStep ==
    ASSUME SInv,
           \/ Signal \/ Enter \/ RefuseRequest \/ TopStopping \/ TopSweep \/ ClaimNone
           \/ ClaimFails \/ Tick \/ NoticeShutdown \/ UNCHANGED allVars
    PROVE  SInv'
<1>1. UNCHANGED vars /\ task' = task /\ (storageError => storageError')
    BY DEF Signal, Enter, RefuseRequest, TopStopping, TopSweep, ClaimNone, ClaimFails, Tick,
        NoticeShutdown, allVars, service
<1>2. TaskSlots' /\ Occupied' = Occupied
    BY <1>1, StillHeld DEF SInv
<1>3. ServiceTypeOK'
    <2> USE DEF SInv, ServiceTypeOK
    <2>1. CASE Signal
        BY <2>1 DEF Signal
    <2>2. CASE Enter
        BY <2>2, EnteredAssumption DEF Enter
    <2>3. CASE RefuseRequest
        BY <2>3, EnteredAssumption DEF RefuseRequest
    <2>4. CASE TopStopping
        BY <2>4 DEF TopStopping, Ended
    <2>5. CASE TopSweep
        BY <2>5 DEF TopSweep
    <2>6. CASE ClaimNone
        BY <2>6 DEF ClaimNone
    <2>7. CASE ClaimFails
        BY <2>7 DEF ClaimFails, Ended
    <2>8. CASE Tick
        BY <2>8 DEF Tick
    <2>9. CASE NoticeShutdown
        BY <2>9 DEF NoticeShutdown
    <2>10. CASE UNCHANGED allVars
        BY <2>10 DEF allVars, service
    <2> QED BY <2>1, <2>2, <2>3, <2>4, <2>5, <2>6, <2>7, <2>8, <2>9, <2>10
<1>4. Turns'
    <2>0. phase' = phase
        BY <1>1 DEF vars
    <2> USE <1>1, <1>2, <2>0 DEF SInv, Turns
    <2>1. CASE Signal
        BY <2>1 DEF Signal
    <2>2. CASE Enter
        BY <2>2 DEF Enter
    <2>3. CASE RefuseRequest
        BY <2>3 DEF RefuseRequest, Unlocked
    <2>4. CASE TopStopping
        BY <2>4 DEF TopStopping, Ended
    <2>5. CASE TopSweep
        BY <2>5 DEF TopSweep
    <2>6. CASE ClaimNone
        BY <2>6 DEF ClaimNone
    <2>7. CASE ClaimFails
        BY <2>7 DEF ClaimFails, Ended
    <2>8. CASE Tick
        BY <2>8 DEF Tick
    <2>9. CASE NoticeShutdown
        BY <2>9 DEF NoticeShutdown
    <2>10. CASE UNCHANGED allVars
        BY <2>10 DEF allVars, service
    <2> QED BY <2>1, <2>2, <2>3, <2>4, <2>5, <2>6, <2>7, <2>8, <2>9, <2>10
<1> QED BY <1>2, <1>3, <1>4 DEF SInv

(* The steps of a task, which the loop does not see before it joins it.    *)
LEMMA TaskStep ==
    ASSUME SInv, NEW id \in JobIds,
           WorkFails(id) \/ ObserveStop(id) \/ WorkDone(id) \/ Deadline(id)
    PROVE  SInv'
<1>1. id \in DOMAIN task /\ task[id] \in Task
    BY DEF WorkFails, ObserveStop, WorkDone, Deadline, At, SInv, ServiceTypeOK
<1>2. \E t \in Task : task' = [task EXCEPT ![id] = t]
    <2>1. CASE WorkFails(id) \/ ObserveStop(id)
        <3>1. task' = [task EXCEPT ![id] = [task[id] EXCEPT !.at = "returned", !.ok = FALSE]]
            BY <2>1, <1>1 DEF WorkFails, ObserveStop, Returned
        <3>2. [task[id] EXCEPT !.at = "returned", !.ok = FALSE] \in Task
            BY <1>1 DEF Task
        <3> QED BY <3>1, <3>2
    <2>2. CASE WorkDone(id)
        <3>1. task' = [task EXCEPT ![id] = [task[id] EXCEPT !.at = "final"]]
            BY <2>2, <1>1 DEF WorkDone
        <3>2. [task[id] EXCEPT !.at = "final"] \in Task
            BY <1>1 DEF Task
        <3> QED BY <3>1, <3>2
    <2>3. CASE Deadline(id)
        <3>1. task' = [task EXCEPT ![id] = [task[id] EXCEPT !.late = TRUE]]
            BY <2>3, <1>1 DEF Deadline
        <3>2. [task[id] EXCEPT !.late = TRUE] \in Task
            BY <1>1 DEF Task
        <3> QED BY <3>1, <3>2
    <2> QED BY <2>1, <2>2, <2>3
<1>3. /\ UNCHANGED <<vars, loop, stopping, storageError, shutdown, accepting, entered>>
      /\ control' = control \/ control' = [control EXCEPT ![id] = TRUE]
    BY DEF WorkFails, ObserveStop, WorkDone, Deadline, UnchangedButTask
<1>4. DOMAIN task' = DOMAIN task /\ DOMAIN control' = DOMAIN control
    BY <1>2, <1>3
<1>5. TaskSlots' /\ Occupied' = Occupied
    BY <1>3, <1>4, StillHeld DEF SInv
<1>6. \A i \in DOMAIN task' : task'[i] \in Task
    BY <1>1, <1>2 DEF SInv, ServiceTypeOK
<1>7. \A i \in DOMAIN control' : control'[i] \in BOOLEAN
    BY <1>3 DEF SInv, ServiceTypeOK
<1>8. ServiceTypeOK'
    BY <1>3, <1>4, <1>6, <1>7 DEF SInv, ServiceTypeOK
<1>9. Turns'
    BY <1>3, <1>4, <1>5 DEF SInv, Turns, vars
<1> QED BY <1>5, <1>8, <1>9 DEF SInv

(* A task that was joined is forgotten: the slot it had is given up, or    *)
(* stays taken because the ledger could not be written.                    *)
LEMMA Forgotten ==
    ASSUME ServiceTypeOK, NEW id \in DOMAIN task, Forget(id)
    PROVE  /\ DOMAIN task' = DOMAIN task \ {id}
           /\ DOMAIN control' = DOMAIN task'
           /\ \A i \in DOMAIN task' : task'[i] \in Task
           /\ \A i \in DOMAIN control' : control'[i] \in BOOLEAN
BY DEF Forget, Remove, ServiceTypeOK

LEMMA JoinFailsStep ==
    ASSUME SInv, NEW id \in JobIds, JoinFails(id)
    PROVE  SInv'
<1>1. id \in DOMAIN task /\ Forget(id) /\ loop = "select" /\ loop' = "top"
    BY DEF JoinFails, Forget
<1> USE DEF SInv, JoinFails
<1>2. ServiceTypeOK'
    BY <1>1, Forgotten DEF ServiceTypeOK
<1>3. Occupied' = Occupied
    BY DEF vars, Occupied
<1>4. TaskSlots'
    BY <1>1, <1>3, Forgotten DEF TaskSlots, SlotHasWorker
<1>5. Turns'
    BY <1>1, <1>3 DEF Turns, vars
<1> QED BY <1>2, <1>4, <1>5

LEMMA JoinStep ==
    ASSUME SInv, Inv, NEW id \in JobIds, Join(id)
    PROVE  SInv'
<1>1. CASE Died
    BY <1>1, DeathIsClean
<1>2. CASE Alive /\ Forget(id) /\ UNCHANGED <<stopping, storageError, shutdown, accepting, entered>>
    <2>1. id \in DOMAIN task /\ loop = "select" /\ loop' = "top"
        BY <1>2 DEF Join, Forget
    <2>2. Finish(id, ~Succeeded(task[id]), Succeeded(task[id])) /\ Succeeded(task[id]) \in BOOLEAN
        BY DEF Join, Succeeded
    <2>3. phase' = "serving" /\ Occupied' = Occupied \ {id}
        BY <1>2, <2>2, FinishOccupied
    <2> USE DEF SInv
    <2>4. ServiceTypeOK'
        BY <1>2, <2>1, Forgotten DEF ServiceTypeOK
    <2>5. phase = "serving"
        BY <2>1 DEF Turns
    <2>6. TaskSlots'
        BY <1>2, <2>1, <2>3, <2>5, Forgotten DEF TaskSlots, SlotHasWorker, Occupied
    <2>7. Turns'
        BY <2>1, <2>3 DEF Turns
    <2> QED BY <2>4, <2>6, <2>7
<1> QED BY <1>1, <1>2 DEF Join

LEMMA ClaimNextStep ==
    ASSUME SInv, Inv, NEW id \in JobIds, ClaimNext(id)
    PROVE  SInv'
<1>1. CASE Died
    BY <1>1, DeathIsClean
<1>2. CASE ~Died
    <2>1. /\ Alive /\ Claim(id) /\ loop = "claiming"
          /\ control' = With1(control, id, FALSE)
          /\ task' = With1(task, id, NewTask)
          /\ UNCHANGED <<loop, stopping, storageError, shutdown, accepting, entered>>
        BY <1>2 DEF ClaimNext
    <2>2. phase' = "serving" /\ Occupied' = Occupied \cup {id}
        BY <2>1, ClaimOccupied
    <2>3. DOMAIN task' = DOMAIN task \cup {id} /\ DOMAIN control' = DOMAIN control \cup {id}
        BY <2>1 DEF With1
    <2>4. NewTask \in Task
        BY DEF NewTask, Task
    <2> USE DEF SInv
    <2>5. \A i \in DOMAIN task' : task'[i] \in Task
        BY <2>1, <2>3, <2>4 DEF With1, ServiceTypeOK
    <2>6. \A i \in DOMAIN control' : control'[i] \in BOOLEAN
        BY <2>1, <2>3 DEF With1, ServiceTypeOK
    <2>7. ServiceTypeOK'
        BY <2>1, <2>3, <2>5, <2>6 DEF ServiceTypeOK
    <2>8. phase = "serving"
        BY <2>1 DEF Turns
    <2>9. TaskSlots'
        BY <2>1, <2>2, <2>3, <2>8 DEF TaskSlots, SlotHasWorker, Occupied
    <2>10. Turns'
        BY <2>1, <2>2 DEF Turns
    <2> QED BY <2>7, <2>9, <2>10
<1> QED BY <1>1, <1>2

(* A request or a report: the ledger changes, the slots do not.            *)
LEMMA SlotsAlone ==
    ASSUME SInv, loop # "off", phase' = "serving", Occupied' = Occupied,
           DOMAIN task' = DOMAIN task, UNCHANGED <<loop, storageError, accepting>>
    PROVE  TaskSlots' /\ Turns'
<1>1. phase = "serving"
    BY DEF SInv, Turns
<1> QED BY <1>1 DEF SInv, TaskSlots, Turns, SlotHasWorker, Occupied

LEMMA RequestStep ==
    ASSUME SInv, Inv,
           \/ \E r \in Regions, p \in Profiles : SubmitRequest(r, p)
           \/ \E id \in JobIds : RetryRequest(id)
    PROVE  SInv'
<1>1. CASE Died
    BY <1>1, DeathIsClean
<1>2. CASE ~Died
    <2>1. /\ Alive /\ entered' = entered - 1 /\ Unlocked /\ entered > 0
          /\ UNCHANGED <<loop, stopping, storageError, shutdown, accepting, control, task>>
        BY <1>2 DEF SubmitRequest, RetryRequest, Served
    <2>2. \E a, b : Enqueue(a, b, NoKey)
        BY DEF SubmitRequest, RetryRequest, Submit, Retry
    <2>3. phase' = "serving" /\ Occupied' = Occupied
        BY <2>1, <2>2, EnqueueOccupied
    <2>4. ServiceTypeOK'
        BY <2>1, EnteredAssumption DEF SInv, ServiceTypeOK
    <2>5. TaskSlots' /\ Turns'
        BY <2>1, <2>3, SlotsAlone DEF Unlocked
    <2> QED BY <2>4, <2>5 DEF SInv
<1> QED BY <1>1, <1>2

LEMMA ReportStep ==
    ASSUME SInv, Inv, NEW id \in JobIds, NEW failed \in BOOLEAN,
           CancelRequest(id) \/ Report(id, failed)
    PROVE  SInv'
<1>1. CASE Died
    BY <1>1, DeathIsClean
<1>2. CASE ~Died
    <2>1. Alive /\ UNCHANGED service /\ Unlocked /\ (Cancel(id) \/ Progress(id, failed))
        BY <1>2 DEF CancelRequest, Report
    <2>2. phase' = "serving" /\ Occupied' = Occupied
        BY <2>1, CancelOccupied, ProgressOccupied
    <2>3. ServiceTypeOK'
        BY <2>1 DEF SInv, ServiceTypeOK, service
    <2>4. TaskSlots' /\ Turns'
        BY <2>1, <2>2, SlotsAlone DEF Unlocked, service
    <2> QED BY <2>3, <2>4 DEF SInv
<1> QED BY <1>1, <1>2

LEMMA FinalProgressStep ==
    ASSUME SInv, Inv, NEW id \in JobIds, FinalProgress(id)
    PROVE  SInv'
<1>1. CASE Died
    BY <1>1, DeathIsClean
<1>2. CASE ~Died
    <2>1. Alive /\ UnchangedButTask /\ Unlocked /\ Progress(id, FALSE) /\ Returned(id, TRUE)
        BY <1>2 DEF FinalProgress
    <2>2. phase' = "serving" /\ Occupied' = Occupied
        BY <2>1, ProgressOccupied
    <2>3. id \in DOMAIN task /\ task[id] \in Task
        BY DEF FinalProgress, At, SInv, ServiceTypeOK
    <2>4. task' = [task EXCEPT ![id] = [task[id] EXCEPT !.at = "returned", !.ok = TRUE]]
        BY <2>1, <2>3 DEF Returned
    <2>5. [task[id] EXCEPT !.at = "returned", !.ok = TRUE] \in Task
        BY <2>3 DEF Task
    <2>6. DOMAIN task' = DOMAIN task /\ \A i \in DOMAIN task' : task'[i] \in Task
        BY <2>3, <2>4, <2>5 DEF SInv, ServiceTypeOK
    <2>7. ServiceTypeOK'
        BY <2>1, <2>6 DEF SInv, ServiceTypeOK, UnchangedButTask
    <2>8. TaskSlots' /\ Turns'
        BY <2>1, <2>2, <2>6, SlotsAlone DEF Unlocked, UnchangedButTask
    <2> QED BY <2>7, <2>8 DEF SInv
<1> QED BY <1>1, <1>2

LEMMA StartStep ==
    ASSUME SInv, Inv, OpenService \/ Start \/ Die
    PROVE  SInv'
<1>1. CASE OpenService
    <2>1. Open /\ UNCHANGED service /\ phase = "down" /\ loop = "off"
        BY <1>1 DEF OpenService, Open, SInv, Turns
    <2>2. phase' = "down" \/ (phase' = "opened" /\ Occupied' = {})
        BY <2>1, OpenOccupied DEF Alive
    <2>3. ServiceTypeOK'
        BY <2>1 DEF SInv, ServiceTypeOK, service
    <2>4. Turns' /\ TaskSlots'
        BY <2>1, <2>2 DEF SInv, Turns, TaskSlots, SlotHasWorker, service
    <2> QED BY <2>3, <2>4 DEF SInv
<1>2. CASE Start
    <2>1. /\ phase = "opened" /\ phase' = "serving" /\ ledger' = ledger
          /\ loop = "off" /\ loop' = "top" /\ accepting' = TRUE
          /\ UNCHANGED <<stopping, storageError, shutdown, entered, control, task>>
        BY <1>2 DEF Start, Configure
    <2>2. Occupied = {} /\ Occupied' = {}
        BY <2>1 DEF SInv, Turns, Occupied
    <2>3. ServiceTypeOK'
        BY <2>1 DEF SInv, ServiceTypeOK
    <2>4. Turns'
        BY <2>1 DEF SInv, Turns
    <2>5. TaskSlots'
        BY <2>1, <2>2 DEF SInv, TaskSlots, SlotHasWorker, Occupied
    <2> QED BY <2>3, <2>4, <2>5 DEF SInv
<1>3. CASE Die
    <2>1. Died
        BY <1>3 DEF Die, Crash, Stop, Died
    <2> QED BY <2>1, DeathIsClean
<1> QED BY <1>1, <1>2, <1>3

LEMMA ServiceStart == ServiceInit => SInv
<1> SUFFICES ASSUME ServiceInit PROVE SInv
    OBVIOUS
<1>1. DOMAIN task = {} /\ DOMAIN control = {} /\ 0 \in 0 .. MaxEntered
    BY EnteredAssumption DEF ServiceInit
<1>2. ServiceTypeOK
    BY <1>1 DEF ServiceInit, ServiceTypeOK
<1>3. Turns /\ TaskSlots
    BY <1>1 DEF ServiceInit, Init, Turns, TaskSlots, SlotHasWorker
<1> QED BY <1>2, <1>3 DEF SInv

LEMMA ServiceStep == SInv /\ Inv /\ [ServiceNext]_allVars => SInv'
<1> SUFFICES ASSUME SInv, Inv, [ServiceNext]_allVars PROVE SInv'
    OBVIOUS
<1>1. CASE OpenService \/ Start \/ Die
    BY <1>1, StartStep
<1>2. CASE \/ Signal \/ Enter \/ RefuseRequest \/ TopStopping \/ TopSweep \/ ClaimNone
           \/ ClaimFails \/ Tick \/ NoticeShutdown \/ UNCHANGED allVars
    BY <1>2, LoopStep
<1>3. ASSUME NEW r \in Regions, NEW p \in Profiles, SubmitRequest(r, p) PROVE SInv'
    BY <1>3, RequestStep
<1>4. ASSUME NEW id \in JobIds, RetryRequest(id) \/ CancelRequest(id) PROVE SInv'
    <2>1. CASE RetryRequest(id)
        BY <2>1, RequestStep
    <2>2. CASE CancelRequest(id)
        BY <2>2, ReportStep
    <2> QED BY <1>4, <2>1, <2>2
<1>5. ASSUME NEW id \in JobIds, ClaimNext(id) \/ Joining(id) PROVE SInv'
    BY <1>5, ClaimNextStep, JoinStep, JoinFailsStep DEF Joining
<1>6. ASSUME NEW id \in JobIds, NEW failed \in BOOLEAN, Report(id, failed) PROVE SInv'
    BY <1>6, ReportStep
<1>7. ASSUME NEW id \in JobIds,
             WorkFails(id) \/ ObserveStop(id) \/ WorkDone(id) \/ Deadline(id)
      PROVE  SInv'
    BY <1>7, TaskStep
<1>8. ASSUME NEW id \in JobIds, FinalProgress(id) PROVE SInv'
    BY <1>8, FinalProgressStep
<1> QED BY <1>1, <1>2, <1>3, <1>4, <1>5, <1>6, <1>7, <1>8 DEF ServiceNext, Claiming

(* The state of the loop agrees with the ledger it works on: every task    *)
(* has the slot of its job and its region to itself, no slot is left       *)
(* without a task while the ledger can be written, and the loop ends with  *)
(* nothing running (run_job_workers, execute).                             *)
THEOREM ServiceSound == ServiceSpec => []ServiceInv
<1>1. SInv /\ Inv /\ SlotsExclusive => ServiceInv
    <2> SUFFICES ASSUME SInv, Inv, SlotsExclusive PROVE ServiceInv
        OBVIOUS
    <2>1. WorkerHoldsSlot
        <3>1. phase = "down" => DOMAIN task = {}
            BY DEF SInv, Turns
        <3>2. phase # "down" => ledger.jobs = disk.jobs
            BY DEF Inv, MemoryIsDurable
        <3> QED BY <3>1, <3>2 DEF SInv, TaskSlots, Occupied, SlotsExclusive, Exclusive, WorkerHoldsSlot
    <2>2. EndsClean
        BY DEF SInv, Turns, TaskSlots, Occupied, SlotHasWorker, EndsClean
    <2> QED BY <2>1, <2>2 DEF SInv, TaskSlots, ServiceInv
<1>2. ServiceSpec => [](Inv /\ SlotsExclusive)
    BY ServiceKeepsLedger, StoreSound, SlotSafety, PTL
<1> QED BY <1>1, <1>2, ServiceStart, ServiceStep, PTL DEF ServiceSpec

-----------------------------------------------------------------------------
(* The deadline *)

LEMMA DeathForgets ==
    ASSUME NEW js, CommitJobs(js), phase = "serving", ~Alive
    PROVE  ledger' = EmptyLedger
BY DEF CommitJobs, Commit, Write, Stop, Alive

(* A slot that is kept is not completed.                                   *)
LEMMA KeptIsOpen ==
    ASSUME NEW j, j \in Occupied', j \in DOMAIN ledger'.jobs
    PROVE  ledger'.jobs[j].status # "completed"
BY DEF Occupied, With, Active

LEMMA RequestKeeps ==
    ASSUME SInv, Inv, NEW j \in Occupied, j \in DOMAIN ledger'.jobs,
           \/ \E r, p, k : Enqueue(r, p, k)
           \/ \E id : Claim(id) \/ Cancel(id)
           \/ \E id, failed : Progress(id, failed)
    PROVE  ledger'.jobs[j].status # "completed"
<1>1. phase = "serving" /\ \E js : CommitJobs(js)
    BY DEF Enqueue, Claim, Cancel, Progress
<1>2. Alive
    BY <1>1, DeathForgets DEF EmptyLedger
<1>3. Occupied \subseteq Occupied'
    BY <1>2, EnqueueOccupied, ClaimOccupied, CancelOccupied, ProgressOccupied
<1> QED BY <1>3, KeptIsOpen

(* A task keeps the slot of its job until it is joined, and only a task    *)
(* that succeeded in time gives it up with a completion.                   *)
LEMMA OnlyInTime ==
    ASSUME SInv, Inv, [ServiceNext]_allVars,
           NEW j \in DOMAIN task, task[j].late, j \in DOMAIN ledger'.jobs
    PROVE  ledger'.jobs[j].status # "completed"
<1>1. j \in Occupied /\ ledger.jobs[j].status # "completed"
    BY DEF SInv, TaskSlots, Occupied, With, Active
<1>2. phase = "serving" /\ loop # "off"
    BY DEF SInv, Turns
<1>3. CASE OpenService \/ Start
    BY <1>2, <1>3 DEF OpenService, Open, Start
<1>4. CASE Die
    BY <1>4 DEF Die, Crash, Stop, EmptyLedger
<1>5. CASE ledger' = ledger
    BY <1>1, <1>5
<1>6. CASE \/ Signal \/ Enter \/ RefuseRequest \/ TopStopping \/ TopSweep \/ ClaimNone
           \/ ClaimFails \/ Tick \/ NoticeShutdown \/ UNCHANGED allVars
    <2>1. ledger' = ledger
        BY <1>6 DEF Signal, Enter, RefuseRequest, TopStopping, TopSweep, ClaimNone, ClaimFails, Tick,
            NoticeShutdown, allVars, vars
    <2> QED BY <1>5, <2>1
<1>7. ASSUME NEW id \in JobIds,
             \/ WorkFails(id) \/ ObserveStop(id) \/ WorkDone(id) \/ Deadline(id)
             \/ JoinFails(id)
      PROVE  ledger' = ledger
    BY <1>7 DEF WorkFails, ObserveStop, WorkDone, Deadline, JoinFails, vars
<1>8. ASSUME \/ \E r \in Regions, p \in Profiles : SubmitRequest(r, p)
             \/ \E id \in JobIds : \/ RetryRequest(id) \/ CancelRequest(id) \/ ClaimNext(id)
                                    \/ FinalProgress(id)
             \/ \E id \in JobIds, failed \in BOOLEAN : Report(id, failed)
      PROVE  ledger'.jobs[j].status # "completed"
    <2>1. \/ \E r, p, k : Enqueue(r, p, k)
          \/ \E id : Claim(id) \/ Cancel(id)
          \/ \E id, failed : Progress(id, failed)
        BY <1>8 DEF SubmitRequest, Submit, RetryRequest, Retry, CancelRequest, ClaimNext, FinalProgress,
            Report
    <2> QED BY <1>1, <2>1, RequestKeeps
<1>9. ASSUME NEW id \in JobIds, Join(id) PROVE ledger'.jobs[j].status # "completed"
    <2>1. Finish(id, ~Succeeded(task[id]), Succeeded(task[id])) /\ Succeeded(task[id]) \in BOOLEAN
        BY <1>9 DEF Join, Succeeded
    <2>2. \E js : CommitJobs(js)
        BY <2>1 DEF Finish
    <2>3. Alive
        BY <1>2, <2>2, DeathForgets DEF EmptyLedger
    <2>4. /\ Occupied' = Occupied \ {id}
          /\ ~Succeeded(task[id]) => \A i \in DOMAIN ledger'.jobs :
                i \in DOMAIN ledger.jobs /\ (ledger'.jobs[i].status = "completed" =>
                    ledger.jobs[i].status = "completed")
        BY <2>1, <2>3, FinishOccupied
    <2>5. CASE id = j
        BY <1>1, <2>4, <2>5 DEF Succeeded
    <2>6. CASE id # j
        BY <1>1, <2>4, <2>6, KeptIsOpen
    <2> QED BY <2>5, <2>6
<1> QED
    BY <1>3, <1>4, <1>5, <1>6, <1>7, <1>8, <1>9 DEF ServiceNext, Claiming, Joining

(* Once its deadline has passed a job is never completed, even when its    *)
(* pipeline went through (execute).                                        *)
THEOREM DeadlineKept == ServiceSpec => DeadlineIsFinal
<1>1. SInv /\ Inv /\ [ServiceNext]_allVars =>
        [\A id \in DOMAIN task :
            task[id].late /\ id \in DOMAIN ledger'.jobs =>
                ledger'.jobs[id].status # "completed"]_allVars
    BY OnlyInTime
<1>2. ServiceSpec => []Inv
    BY ServiceKeepsLedger, StoreSound, PTL
<1> QED BY <1>1, <1>2, ServiceStart, ServiceStep, PTL DEF ServiceSpec, DeadlineIsFinal
=============================================================================
