------------------------- MODULE StablePublication -------------------------
(***************************************************************************)
(* Publishing with the stable layout (publish_stable of src/storage.rs):   *)
(* readable keys are overwritten in place and three objects describe them, *)
(* written last and in this order: the manifest _sirius/files.jsonl, the   *)
(* summary and version.json.  One provider and one prefix; publications    *)
(* follow each other and any of them may be interrupted at any call, by an *)
(* error, a cancellation, the job's deadline or the death of the process.  *)
(*                                                                         *)
(* What a publication puts under which key is the plan of module           *)
(* StableKeys.                                                             *)
(***************************************************************************)
EXTENDS StableKeys

CONSTANTS
    Garbage,            \* what a store made of a file
    Prune,              \* Options.prune
    MaxFailed,          \* Options.max_failed_resources
    Foreign,            \* keys where others may keep objects from the start
    Offers(_),          \* bounds of the model: what a resource may export,
    MaxPublications     \* and the number of publications

ASSUME PublicationAssumption ==
    /\ Garbage \notin Contents
    /\ Prune \in BOOLEAN
    /\ MaxFailed \in Nat
    /\ Foreign \subseteq Key
    /\ \A s \in Sources : Offers(s) \subseteq Seq(Output)
    /\ MaxPublications \in Nat

VARIABLES
    tree,       \* the objects below the prefix, but for those of _sirius
    manifest,   \* _sirius/files.jsonl
    written,    \* the publication that last wrote each object of _sirius
    started,    \* publications started
    run,        \* the publication under way
    torn        \* history: keys changed by an interrupted publication and not
                \* uploaded again since

vars == <<tree, manifest, written, started, run, torn>>

(* Exports the publication accepts: not too many resources failed, and not *)
(* all of them.                                                            *)
Exports ==
    {[failed |-> f, outputs |-> o] :
        f \in {g \in SUBSET Sources : Cardinality(g) <= MaxFailed /\ g # Sources},
        o \in {p \in [Sources -> UNION {Offers(s) : s \in Sources}] :
                  \A s \in Sources : p[s] \in Offers(s)}}
Ids == 0 .. MaxPublications
NoRun == [stage |-> "idle"]
Stages == {"reading", "uploading", "pruning", "manifest", "summary", "version"}

Todo == IF run = NoRun THEN {} ELSE run.todo

Put(f, k, v) == [x \in DOMAIN f \cup {k} |-> IF x = k THEN v ELSE f[x]]
Drop(f, k) == [x \in DOMAIN f \ {k} |-> f[x]]

-----------------------------------------------------------------------------
(* What the publication under way derives from the previous manifest *)

(* Mutation of Pending: only new keys are uploaded. *)
PendingNew(plan, previous) == DOMAIN plan \ DOMAIN previous

Pending(plan, previous) ==
    {k \in DOMAIN plan :
        ~(k \in DOMAIN previous /\ previous[k].content = plan[k].content)}

(* Mutation of Carried: a failed resource leaves its keys behind. *)
CarriedNone(plan, failed, previous) == {}

(* The case of a key does not matter to who claims it.                     *)
Carried(plan, failed, previous) ==
    {k \in DOMAIN previous : previous[k].source \in failed /\ Free(plan, k)}

Listed(r) == DOMAIN r.plan \cup Carried(r.plan, r.failed, r.previous)

NewManifest(r) ==
    [k \in Listed(r) |-> IF k \in DOMAIN r.plan THEN r.plan[k] ELSE r.previous[k]]

(* Mutation of Prunable: everything that is not listed goes. *)
PrunableAll(r) == DOMAIN tree \ Listed(r)

Prunable(r) == IF Prune THEN DOMAIN r.previous \ Listed(r) ELSE {}

-----------------------------------------------------------------------------
(* The steps of one publication *)

(* The verified export and its plan: some resources may have failed.       *)
Begin(export) ==
    LET plan == Planned(export) IN
    /\ run = NoRun
    /\ started < MaxPublications
    /\ plan # <<>>
    /\ started' = started + 1
    /\ run' = [stage |-> "reading", export |-> export, plan |-> plan,
               failed |-> export.failed, previous |-> <<>>, todo |-> {}, changed |-> {}]
    /\ UNCHANGED <<tree, manifest, written, torn>>

ReadManifest ==
    /\ run.stage = "reading"
    /\ run' = [run EXCEPT !.stage = "uploading", !.previous = manifest,
                          !.todo = Pending(run.plan, manifest)]
    /\ UNCHANGED <<tree, manifest, written, started, torn>>

(* Uploads run concurrently and end in any order.                          *)
Upload(k) ==
    /\ run.stage = "uploading"
    /\ k \in run.todo
    /\ tree' = Put(tree, k, run.plan[k].content)
    /\ run' = [run EXCEPT !.todo = @ \ {k}, !.changed = @ \cup {k}]
    /\ UNCHANGED <<manifest, written, started, torn>>

(* The store took the object but holds something else: reading it back     *)
(* ends the publication.                                                   *)
UploadMangled(k) ==
    /\ run.stage = "uploading"
    /\ k \in run.todo
    /\ tree' = Put(tree, k, Garbage)
    /\ run' = NoRun
    /\ torn' = torn \cup run.changed \cup {k}
    /\ UNCHANGED <<manifest, written, started>>

Uploaded ==
    /\ run.stage = "uploading"
    /\ run.todo = {}
    /\ run' = [run EXCEPT !.stage = "pruning", !.todo = Prunable(run)]
    /\ UNCHANGED <<tree, manifest, written, started, torn>>

(* Deleting a key that is not there succeeds.                              *)
PruneKey(k) ==
    /\ run.stage = "pruning"
    /\ k \in run.todo
    /\ tree' = Drop(tree, k)
    /\ run' = [run EXCEPT !.todo = @ \ {k}, !.changed = @ \cup {k}]
    /\ UNCHANGED <<manifest, written, started, torn>>

Pruned ==
    /\ run.stage = "pruning"
    /\ run.todo = {}
    /\ run' = [run EXCEPT !.stage = "manifest"]
    /\ UNCHANGED <<tree, manifest, written, started, torn>>

(* From here on the manifest speaks for what this publication uploaded.    *)
WriteManifest ==
    /\ run.stage = "manifest"
    /\ manifest' = NewManifest(run)
    /\ written' = [written EXCEPT !.manifest = started]
    /\ torn' = torn \ run.changed
    /\ run' = [run EXCEPT !.stage = "summary", !.changed = {}]
    /\ UNCHANGED <<tree, started>>

(* Mutation of WriteSummary: version.json is written first. *)
WriteSummaryLast ==
    /\ run.stage = "summary"
    /\ written' = [written EXCEPT !.version = started]
    /\ run' = [run EXCEPT !.stage = "version"]
    /\ UNCHANGED <<tree, manifest, started, torn>>

WriteSummary ==
    /\ run.stage = "summary"
    /\ written' = [written EXCEPT !.summary = started]
    /\ run' = [run EXCEPT !.stage = "version"]
    /\ UNCHANGED <<tree, manifest, started, torn>>

WriteVersion ==
    /\ run.stage = "version"
    /\ written' = [written EXCEPT !.version = started]
    /\ run' = NoRun
    /\ UNCHANGED <<tree, manifest, started, torn>>

Interrupt ==
    /\ run # NoRun
    /\ torn' = torn \cup run.changed
    /\ run' = NoRun
    /\ UNCHANGED <<tree, manifest, written, started>>

-----------------------------------------------------------------------------
(* Objects that others keep below the prefix may be there from the start.  *)
Init ==
    /\ tree \in UNION {[K -> {Garbage}] : K \in SUBSET Foreign}
    /\ manifest = <<>>
    /\ written = [manifest |-> 0, summary |-> 0, version |-> 0]
    /\ started = 0
    /\ run = NoRun
    /\ torn = {}

Next ==
    \/ \E export \in Exports : Begin(export)
    \/ ReadManifest
    \/ \E k \in Todo : Upload(k) \/ UploadMangled(k) \/ PruneKey(k)
    \/ Uploaded \/ Pruned
    \/ WriteManifest \/ WriteSummary \/ WriteVersion
    \/ Interrupt

Spec == Init /\ [][Next]_vars

-----------------------------------------------------------------------------
(* Properties *)

Planlike(p) == \A k \in DOMAIN p : k \in Key /\ p[k] \in Entry

\* Every variable has its type, and a publication has to do only with keys of
\* its plan and of the manifest it read.
TypeOK ==
    /\ \A k \in DOMAIN tree : k \in Key /\ tree[k] \in Contents \cup {Garbage}
    /\ Planlike(manifest)
    /\ written \in [manifest: Ids, summary: Ids, version: Ids]
    /\ started \in Ids
    /\ run = NoRun \/
           /\ run.stage \in Stages
           /\ Planlike(run.plan) /\ Planlike(run.previous)
           /\ run.todo \cup run.changed \subseteq DOMAIN run.plan \cup DOMAIN run.previous
    /\ torn \subseteq Key

\* The plan of a publication has no two keys that differ in case only, and
\* every file of the export under a key it asked for or a variant of it.
PlanSound ==
    run.stage = "reading" => CaseApart(run.plan) /\ AllPlanned(run.plan, run.export)

Stored(k) == k \in DOMAIN tree /\ tree[k] = manifest[k].content

\* Between publications the manifest describes the tree, but for the keys an
\* interrupted publication left changed: a completed or interrupted run never
\* spoils another key, and uploading a key repairs it (publish_stable).
OnlyTornDiffer ==
    run = NoRun => \A k \in DOMAIN manifest \ torn : Stored(k)

\* A reader that finds a version finds the manifest and the summary of that
\* publication or of a later one, never of an earlier one.
VersionLast ==
    written.version <= written.summary /\ written.summary <= written.manifest

\* A failed resource keeps what it published before, in the manifest and in
\* the tree, unless another resource now claims the key in some case.
FailedKeepTheirKeys ==
    [][\A k \in DOMAIN manifest :
        run # NoRun /\ manifest[k].source \in run.failed /\ Free(run.plan, k) =>
            /\ manifest' # manifest => k \in DOMAIN manifest' /\ manifest'[k] = manifest[k]
            /\ k \in DOMAIN tree => k \in DOMAIN tree']_vars

\* Pruning takes only keys that the layout published before and that this
\* publication no longer lists: never an object somebody else keeps.
OnlyOwnKeysGo ==
    [][\A k \in DOMAIN tree \ DOMAIN tree' :
        k \in DOMAIN manifest /\ k \notin DOMAIN run.plan]_vars

\* storage.rs says of version.json: it names the manifest that describes the
\* tree.  A publication that completes skips keys by the previous manifest,
\* even when an interrupted publication changed them since.
VersionDescribesTree ==
    [][written'.version # written.version => \A k \in DOMAIN manifest : Stored(k)]_vars

\* Types, plans, and the order of the objects that describe the tree.
Inv == TypeOK /\ PlanSound /\ VersionLast

\* What a publication may not take from the tree: keys of resources that
\* failed, and keys that are not its own.
KeysKept == FailedKeepTheirKeys /\ OnlyOwnKeysGo
=============================================================================
