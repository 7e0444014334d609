----------------------------- MODULE ExportRun -----------------------------
(***************************************************************************)
(* One export (run_controlled, execute and process_resource of             *)
(* src/export.rs) and the verification of what it leaves                   *)
(* (src/export_verify.rs).                                                 *)
(*                                                                         *)
(* A pool of workers takes the resources in order, decodes each into a     *)
(* staging directory, renames it to its place and stores it in the cache;  *)
(* a collector appends their reports to the journal and rewrites the       *)
(* summary after each.  The run may be cancelled or killed, and any call   *)
(* may fail.  A resource that succeeds has at least one output here.       *)
(***************************************************************************)
EXTENDS Integers, Sequences, FiniteSets

CONSTANTS
    Workers,
    N,                  \* resources
    Cached,             \* whether the export has a cache
    MaxFailedResources  \* failed resources that the publication accepts

ASSUME RunAssumption ==
    /\ IsFiniteSet(Workers) /\ Workers # {}
    /\ N \in Nat \ {0}
    /\ Cached \in BOOLEAN
    /\ MaxFailedResources \in Nat

Resources == 1 .. N

VARIABLES
    stage,      \* "exporting", and how the run ended
    cancel,     \* the flag that everybody looks at
    next,       \* the next resource to hand out
    worker,     \* what each worker does
    channel,    \* reports sent
    listening,  \* the collector still receives
    counts,     \* the summary in memory
    dirty,      \* a report is in the journal and not in the summary
    dirs,       \* directories of resources in the output
    staging,    \* staging directories in the output
    journal,    \* resources.jsonl
    summary,    \* summary.json
    outcome     \* history: how each resource ended

exportVars == <<stage, cancel, next, worker, channel, listening, counts, dirty, dirs,
                staging, journal, summary, outcome>>

Idle == [step |-> "idle"]
Stopped == [step |-> "stopped"]
Doing(step, i) == [step |-> step, i |-> i]
Report(i, ok) == [i |-> i, ok |-> ok]
NoSummary == [succeeded |-> 0, failed |-> 0, complete |-> FALSE]
Ok(w, i, ok) == [worker EXCEPT ![w] = [step |-> "reporting", i |-> i, ok |-> ok]]
Ended == {"finished", "failed", "cancelled", "killed"}

-----------------------------------------------------------------------------
(* The workers *)

(* Mutation of Take: two workers may read the same number. *)
TakeUncounted(w) ==
    /\ stage = "exporting"
    /\ worker[w] = Idle
    /\ ~cancel
    /\ next <= N
    /\ next' \in {next, next + 1}
    /\ worker' = [worker EXCEPT ![w] = Doing("decoding", next)]
    /\ UNCHANGED <<stage, cancel, channel, listening, counts, dirty, dirs,
                   staging, journal, summary, outcome>>

Take(w) ==
    /\ stage = "exporting"
    /\ worker[w] = Idle
    /\ ~cancel
    /\ next <= N
    /\ next' = next + 1
    /\ worker' = [worker EXCEPT ![w] = Doing("decoding", next)]
    /\ UNCHANGED <<stage, cancel, channel, listening, counts, dirty, dirs,
                   staging, journal, summary, outcome>>

Stop(w) ==
    /\ stage = "exporting"
    /\ worker[w] = Idle
    /\ cancel \/ next > N
    /\ worker' = [worker EXCEPT ![w] = Stopped]
    /\ UNCHANGED <<stage, cancel, next, channel, listening, counts, dirty, dirs,
                   staging, journal, summary, outcome>>

(* Admission and decoding into a staging directory.  A hit of the cache is *)
(* copied into one too and takes the same way.                             *)
Decode(w) ==
    /\ worker[w].step = "decoding"
    /\ worker' = [worker EXCEPT ![w].step = "decoded"]
    /\ staging' = staging \cup {worker[w].i}
    /\ UNCHANGED <<stage, cancel, next, channel, listening, counts, dirty, dirs,
                   journal, summary, outcome>>

(* An error, a panic, a cancellation seen: the staging directory goes and  *)
(* the report is that of a failure.                                        *)
DecodeFails(w) ==
    LET i == worker[w].i IN
    /\ worker[w].step \in {"decoding", "decoded"}
    /\ worker' = Ok(w, i, FALSE)
    /\ staging' = staging \ {i}
    /\ outcome' = [outcome EXCEPT ![i] = "failed"]
    /\ UNCHANGED <<stage, cancel, next, channel, listening, counts, dirty, dirs,
                   journal, summary>>

(* Mutation of Promote: the staging directory stays beside its copy. *)
PromoteCopies(w) ==
    LET i == worker[w].i IN
    /\ worker[w].step = "decoded"
    /\ dirs' = dirs \cup {i}
    /\ IF Cached
       THEN /\ worker' = [worker EXCEPT ![w].step = "storing"]
            /\ UNCHANGED outcome
       ELSE /\ worker' = Ok(w, i, TRUE)
            /\ outcome' = [outcome EXCEPT ![i] = "ok"]
    /\ UNCHANGED <<stage, cancel, next, channel, listening, counts, dirty,
                   staging, journal, summary>>

Promote(w) ==
    LET i == worker[w].i IN
    /\ worker[w].step = "decoded"
    /\ dirs' = dirs \cup {i}
    /\ staging' = staging \ {i}
    /\ IF Cached
       THEN /\ worker' = [worker EXCEPT ![w].step = "storing"]
            /\ UNCHANGED outcome
       ELSE /\ worker' = Ok(w, i, TRUE)
            /\ outcome' = [outcome EXCEPT ![i] = "ok"]
    /\ UNCHANGED <<stage, cancel, next, channel, listening, counts, dirty,
                   journal, summary>>

(* The cache took the resource, or recorded its use, or failed to: then    *)
(* the resource fails although its directory is in place.                  *)
Store(w, ok) ==
    LET i == worker[w].i IN
    /\ worker[w].step = "storing"
    /\ worker' = Ok(w, i, ok)
    /\ outcome' = [outcome EXCEPT ![i] = IF ok THEN "ok" ELSE "failed"]
    /\ UNCHANGED <<stage, cancel, next, channel, listening, counts, dirty, dirs,
                   staging, journal, summary>>

(* Mutation of Send: the channel is not bounded. *)
SendUnbounded(w) ==
    /\ worker[w].step = "reporting"
    /\ channel' = Append(channel, Report(worker[w].i, worker[w].ok))
    /\ worker' = [worker EXCEPT ![w] = Idle]
    /\ UNCHANGED <<stage, cancel, next, listening, counts, dirty, dirs, staging,
                   journal, summary, outcome>>

(* The channel holds a report per worker.                                  *)
Send(w) ==
    /\ worker[w].step = "reporting"
    /\ listening
    /\ Len(channel) < Cardinality(Workers)
    /\ channel' = Append(channel, Report(worker[w].i, worker[w].ok))
    /\ worker' = [worker EXCEPT ![w] = Idle]
    /\ UNCHANGED <<stage, cancel, next, listening, counts, dirty, dirs, staging,
                   journal, summary, outcome>>

(* Mutation of SendFails: a worker waits for a collector that is gone. *)
SendFailsNever(w) ==
    /\ worker[w].step = "reporting"
    /\ ~listening
    /\ Len(channel) < Cardinality(Workers)
    /\ worker' = [worker EXCEPT ![w] = Stopped]
    /\ UNCHANGED <<stage, cancel, next, channel, listening, counts, dirty, dirs,
                   staging, journal, summary, outcome>>

SendFails(w) ==
    /\ worker[w].step = "reporting"
    /\ ~listening
    /\ worker' = [worker EXCEPT ![w] = Stopped]
    /\ UNCHANGED <<stage, cancel, next, channel, listening, counts, dirty, dirs,
                   staging, journal, summary, outcome>>

-----------------------------------------------------------------------------
(* The collector *)

Receive ==
    LET r == Head(channel) IN
    /\ stage = "exporting"
    /\ listening /\ ~dirty
    /\ channel # <<>>
    /\ channel' = Tail(channel)
    /\ counts' = IF r.ok THEN [counts EXCEPT !.succeeded = @ + 1]
                         ELSE [counts EXCEPT !.failed = @ + 1]
    /\ journal' = Append(journal, r)
    /\ dirty' = TRUE
    /\ UNCHANGED <<stage, cancel, next, worker, listening, dirs, staging,
                   summary, outcome>>

Summarise ==
    /\ dirty
    /\ summary' = counts
    /\ dirty' = FALSE
    /\ UNCHANGED <<stage, cancel, next, worker, channel, listening, counts, dirs,
                   staging, journal, outcome>>

(* The journal or the summary cannot be written: the workers are told by   *)
(* their next report.                                                      *)
CollectorFails ==
    /\ stage = "exporting"
    /\ listening
    /\ dirty \/ channel # <<>>
    /\ listening' = FALSE
    /\ dirty' = FALSE
    /\ UNCHANGED <<stage, cancel, next, worker, channel, counts, dirs, staging,
                   journal, summary, outcome>>

Joined ==
    /\ stage = "exporting"
    /\ \A w \in Workers : worker[w] = Stopped

(* Mutation of Finish: a run without failures is complete. *)
FinishAnyway ==
    /\ Joined /\ listening /\ ~dirty
    /\ channel = <<>>
    /\ summary' = [counts EXCEPT !.complete = counts.failed = 0]
    /\ stage' = IF cancel THEN "cancelled" ELSE "finished"
    /\ UNCHANGED <<cancel, next, worker, channel, listening, counts, dirty, dirs,
                   staging, journal, outcome>>

Finish ==
    /\ Joined /\ listening /\ ~dirty
    /\ channel = <<>>
    /\ summary' = [counts EXCEPT !.complete =
                       counts.failed = 0 /\ counts.succeeded = N]
    /\ stage' = IF cancel THEN "cancelled" ELSE "finished"
    /\ UNCHANGED <<cancel, next, worker, channel, listening, counts, dirty, dirs,
                   staging, journal, outcome>>

Fail ==
    /\ Joined /\ ~listening
    /\ stage' = IF cancel THEN "cancelled" ELSE "failed"
    /\ UNCHANGED <<cancel, next, worker, channel, listening, counts, dirty, dirs,
                   staging, journal, summary, outcome>>

Cancel ==
    /\ stage = "exporting"
    /\ ~cancel
    /\ cancel' = TRUE
    /\ UNCHANGED <<stage, next, worker, channel, listening, counts, dirty, dirs,
                   staging, journal, summary, outcome>>

(* Killed: the files stay as they are.                                     *)
Kill ==
    /\ stage = "exporting"
    /\ stage' = "killed"
    /\ worker' = [w \in Workers |-> Stopped]
    /\ dirty' = FALSE
    /\ UNCHANGED <<cancel, next, channel, listening, counts, dirs, staging,
                   journal, summary, outcome>>

ExportInit ==
    /\ stage = "exporting"
    /\ cancel = FALSE
    /\ next = 1
    /\ worker = [w \in Workers |-> Idle]
    /\ channel = <<>>
    /\ listening = TRUE
    /\ counts = NoSummary
    /\ dirty = FALSE
    /\ dirs = {}
    /\ staging = {}
    /\ journal = <<>>
    /\ summary = NoSummary
    /\ outcome = [i \in Resources |-> "none"]

Work(w) ==
    \/ Take(w) \/ Stop(w) \/ Decode(w) \/ DecodeFails(w) \/ Promote(w)
    \/ Send(w) \/ SendFails(w)
    \/ \E ok \in BOOLEAN : Store(w, ok)

Collect == Receive \/ Summarise \/ CollectorFails \/ Finish \/ Fail

ExportNext == Collect \/ Cancel \/ Kill \/ \E w \in Workers : Work(w)

ExportSpec == ExportInit /\ [][ExportNext]_exportVars

(* Threads that can run do: every admission has an end of its own (module  *)
(* Admission), so every resource ends.                                     *)
Fair == WF_exportVars(Collect) /\ \A w \in Workers : WF_exportVars(Work(w))
FairSpec == ExportSpec /\ Fair

-----------------------------------------------------------------------------
(* The verification before a publication, of whatever is on disk *)

JournalOk == {i \in Resources : \E n \in DOMAIN journal : journal[n] = Report(i, TRUE)}
JournalFailed == {i \in Resources : \E n \in DOMAIN journal : journal[n] = Report(i, FALSE)}

SummaryFits ==
    /\ summary.succeeded + summary.failed = N
    /\ summary.failed <= MaxFailedResources
    /\ summary.complete = (summary.failed = 0)
    /\ summary.succeeded > 0

JournalAgrees ==
    /\ \A m, n \in DOMAIN journal : journal[m].i = journal[n].i => m = n
    /\ Cardinality(JournalOk) = summary.succeeded
    /\ Cardinality(JournalFailed) = summary.failed

(* A directory that was renamed into place holds what its report lists.    *)
DirectoriesStand == JournalOk \subseteq dirs

NothingElse == dirs \subseteq JournalOk /\ staging = {}

(* Mutation of Accepted: directories without a report pass. *)
AcceptedLoosely == SummaryFits /\ JournalAgrees /\ DirectoriesStand

Accepted == SummaryFits /\ JournalAgrees /\ DirectoriesStand /\ NothingElse

-----------------------------------------------------------------------------
(* Properties *)

Summaries == [succeeded: 0 .. N, failed: 0 .. N, complete: BOOLEAN]
Reports == [i: Resources, ok: BOOLEAN]

(* Every variable is what the code can hold.                               *)
ExportTypes ==
    /\ stage \in {"exporting"} \cup Ended
    /\ cancel \in BOOLEAN /\ listening \in BOOLEAN /\ dirty \in BOOLEAN
    /\ next \in 1 .. N + 1
    /\ worker \in [Workers ->
           {Idle, Stopped}
           \cup [step: {"decoding", "decoded", "storing"}, i: Resources]
           \cup [step: {"reporting"}, i: Resources, ok: BOOLEAN]]
    /\ channel \in Seq(Reports) /\ Len(channel) <= Cardinality(Workers)
    /\ journal \in Seq(Reports)
    /\ counts \in Summaries /\ summary \in Summaries
    /\ dirs \subseteq Resources /\ staging \subseteq Resources
    /\ outcome \in [Resources -> {"none", "ok", "failed"}]

(* A summary that says complete describes a tree with the output of every  *)
(* resource and a journal with all their reports, however the run ended.   *)
CompleteMeansAll ==
    summary.complete =>
        /\ dirs = Resources
        /\ \A i \in Resources : outcome[i] = "ok"
        /\ JournalOk = Resources
        /\ staging = {}

(* What the verification accepts, also of a run that failed, was cancelled *)
(* or was killed, is a tree in which every resource has ended and exactly  *)
(* the successful ones have a directory.                                   *)
AcceptedIsWhole ==
    Accepted =>
        /\ \A i \in Resources : outcome[i] # "none"
        /\ dirs = {i \in Resources : outcome[i] = "ok"}
        /\ Cardinality({i \in Resources : outcome[i] = "failed"}) <= MaxFailedResources

(* No resource is dispatched twice or lost: a run that finishes has one    *)
(* report of each, and its counts are those of the journal.                *)
FinishedReportsEach ==
    stage = "finished" =>
        /\ Len(journal) = N
        /\ JournalOk \cup JournalFailed = Resources
        /\ summary.succeeded = Cardinality(JournalOk)
        /\ summary.failed = Cardinality(JournalFailed)

(* docs/EXPORT.md:28 "failures remove partial products" and                *)
(* docs/STORAGE.md:115: an export that finished with at least one success  *)
(* and at most N failures can be published.                                *)
PartialAccepted ==
    stage = "finished" /\ summary.failed <= MaxFailedResources /\ summary.succeeded > 0
        => Accepted

(* Leftovers of a store that failed are the only thing that keeps such an  *)
(* export from being published.                                            *)
CleanAccepted ==
    stage = "finished" /\ summary.failed <= MaxFailedResources /\ summary.succeeded > 0
        /\ (\A i \in dirs : outcome[i] # "failed")
        => Accepted

(* The run ends, although a collector that failed leaves workers with      *)
(* reports for a full channel.                                             *)
Ends == <>(stage \in Ended)
(* What the summary says is what happened, at every moment.                *)
ExportInv == ExportTypes /\ CompleteMeansAll /\ FinishedReportsEach

(* The verification accepts whole exports, and all that left nothing.      *)
AcceptedExactly == AcceptedIsWhole /\ CleanAccepted
=============================================================================
