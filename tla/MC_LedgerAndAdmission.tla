----------------------- MODULE MC_LedgerAndAdmission -----------------------
(***************************************************************************)
(* Two workers of one job and one of another share bytes, a decoder and    *)
(* CPU slots; or the two of one job enter every section there is, as deep  *)
(* as they nest.  Every limit is one, but for the budgets; a resource may  *)
(* be larger than a budget.  Or nobody works, and the ledger of the jobs   *)
(* moves instead.                                                          *)
(***************************************************************************)
EXTENDS MC_JobLedger, Admission

CONSTANTS first, second, third

VARIABLE scene   \* "jobs", "sections" or "ledger": which of the three

MCWorkers == {first, second, third}
MCJobs == {"job", "other"}
MCJobOf(w) == IF w = third THEN "other" ELSE "job"
MCSameJob == Permutations({first, second})

MCLimit(k) == CASE k = "bundle" -> 2 [] k = "allBundle" -> 3 [] OTHER -> 1
MCBytes == {0, 5}

MCInit ==
    /\ Init
    /\ AdmissionInit
    /\ scene \in {"jobs", "sections", "ledger"}

(* With two jobs a resource enters two sections of audio, one in the other *)
(* job.                                                                    *)
OfAudio(w) ==
    /\ worker'[w].sections <= IF w = third THEN 1 ELSE 2
    /\ \A n \in DOMAIN worker'[w].scope :
          worker'[w].scope[n] \in {"resource", "acb", "hca", "cpu"}

MCAdmission ==
    /\ AdmissionNext
    /\ \/ scene = "jobs" /\ \A w \in Workers : OfAudio(w)
       \/ scene = "sections" /\ worker'[third] = worker[third] /\ "other" \notin cancelled'
    /\ UNCHANGED <<scene, vars>>

MCNext ==
    \/ scene # "ledger" /\ MCAdmission
    \/ scene = "ledger" /\ Next /\ UNCHANGED <<scene, admissionVars>>

MCSpec == MCInit /\ [][MCNext]_<<vars, admissionVars, scene>>
=============================================================================
