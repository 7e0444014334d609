# Verification of the Sirius asset updater

This directory holds TLA+ models of the program in `src/`: what it keeps, what
its operations do in every order they can happen in, and what must stay true.
TLC checks the models on small instances; TLAPS proves some of the properties
for every value of the constants.  `PROJECT.json` maps each definition to the
lines it stands for and lists the runs, the hazards and the theorems.

## 1. The system

`sirius-asset-updater` mirrors the assets of a game: it reads a signed catalog
from a CDN, downloads and verifies what it lists, exports the content of the
bundles with CPU and media workers, verifies the export, and publishes it to
object storage.  It runs as single commands or as an HTTP service that queues
jobs.  Everything runs in one process; what several processes or crashes share
is on disk, in the object store or at the receivers of notices.

| Component | State it keeps | Operations | Hard behaviour | What makes it correct |
| --- | --- | --- | --- | --- |
| Job ledger (`jobs.rs`) | `jobs.json`, its copy in memory, recipients | open, configure, submit, idempotent submit, retry, claim, cancel, progress, finish, acknowledge | crash inside a write, failed writes, bounded outbox, retention by wall clock, restart | the copies never differ; one job of a region in a slot; FIFO; no key used twice; no notice lost or invented |
| Worker loop (`service.rs`) | tasks, control channels, stopping flags, `accepting` | claim and spawn, sweep cancellations, join, shut down | cancellation and deadline racing a result, failed ledger writes, handlers that saw an old `accepting` | a task holds its slot until joined, no slot leaks, cancellations and shutdown end |
| Notices (`service.rs`, `completion_notify.rs`) | per recipient: attempts, next due time | pick oldest pending, deliver, acknowledge, retry later | crash or lost answer after acceptance, shutdown in the middle, removed recipients | at least once, in order per recipient, no acknowledgement without acceptance |
| Storage (`storage.rs`, `stable_layout.rs`) | objects and markers at each provider | verify, plan keys, upload with retries, prune, write markers, remove local output | interruption at any call, several providers, partial exports, objects changed in place | markers describe what is stored; the local copy goes last |
| Credentials (`storage_credentials.rs`, `storage_sts.rs`) | the keys of a file, the temporary keys of a role, a lock | read the file, assume the role, hand out a credential | the file is replaced under way, several uploads need a credential at once, an attempt is cancelled while it gets one | no request is signed with keys that expired or were replaced long ago; waiters end |
| Admission (`media_gate.rs`, `resource_budget.rs`, `stage_limits.rs`, `cpu_policy.rs`, `cpu_throttle.rs`) | permits, bytes in flight, a sample of CPU usage | acquire, release, sample | nested permits, cancellation while waiting, oversized resources, processes that come and go during a sample | limits hold, permits return, a sample counts our own time and no other, nobody waits for ever |
| Export (`export.rs`, `export_options.rs`, `export_verify.rs`, `raw_bundles.rs`) | staging trees, report of a resource, journal, workers | dispatch resources, decode, record, run media commands, promote | worker failures, cancellation, hanging or failing commands, retries over partial files, a second pass over a video, limits of bytes | a complete summary only after every resource; promotion is atomic; a kept resource has what was promised and reported, no more |
| Media backend (`media_ffi.rs`, `media_ffi/`, `media_backend.rs`) | decoder, clock, FIFO, encoder per stream | read, decode, encode, flush, interrupt | frames held back by three stages, drift, gaps, incomplete last frames | every sample once, in order and in its place, or an error |
| Export cache (`export_cache.rs`) | entries on disk, byte count | lookup, restore, store, evict | damaged entries, eviction at the limit, crash while storing | within its limit; a restored entry is what was stored |
| Download and verification (`lib.rs`, `assets.rs`, `update.rs`, `catalog.rs`, `verify.rs`, `cache.rs`, `readiness.rs`, `network.rs`) | staging tree, cache reservations, byte budget | fetch catalog, download, revalidate the version, promote | version changes in the middle, retries, budget, two runs on one cache | only a snapshot that was still current is promoted; the cache never forgets a reservation |
| Configuration and process (`config_*.rs`, `main.rs`, `server.rs`, `proxy.rs`, logs, `region.rs`, `read_policy.rs`) | none that changes | parse, validate, listen, log | none | - |

The components meet in the service: the loop claims a job from the ledger and
spawns a task; the task downloads, verifies, exports and publishes, reports
progress to the ledger and looks at its control channel; all tasks share the
gates and the byte budget; the loop records the end of the task in the ledger,
whose commit puts the notice in the outbox that the notice workers empty.

## 2. Plan

The modules, in the order in which they matter to what the program promises.
All of the first list is done; the second is what the models do not reach yet.

1. `JobLedger`: the durable ledger alone.
2. `JobService` (extends `JobLedger`): the worker loop, its tasks, the handlers.
   `JobLedger_proofs` is about both.
3. `CompletionDelivery`, which implements the abstract `NoticeQueue`, with
   `DeliveryAndMedia_proofs`.
4. `StableKeys` (a pure algorithm) and `StablePublication` (extends it), with
   `StablePublication_proofs`.
5. `Publication`: one publication to several providers, with `Publication_proofs`.
6. `ExportRun`: worker pool, journal, verification, proved about in
   `StablePublication_proofs`.
7. `ExportCache`: the bounded cache with kills, with `ExportCache_proofs`.
8. `Admission`: permits and bytes under cancellation and deadlines, with
   `Admission_proofs`.
9. `DownloadRun`: pinning, batches, cache and revalidation, with
   `DownloadRun_proofs`.

10. `ResourceExport`: one resource, its calls, files, errors and commands.
11. `MediaTranscode`: a conversion by the linked FFmpeg, and `ResourceMedia`,
    which puts it where `ResourceExport` says `"ffi"`.  Both are proved about in
    `DeliveryAndMedia_proofs`.
12. `CpuThrottle`: the shared sample of CPU usage and the threads that wait,
    proved about in `Admission_proofs`.
13. `StorageSigner`: the credentials that sign the requests to a provider, proved
    about in `Publication_proofs`.
14. `Sums`: sums over finite sets and joined sequences, for the proofs about
    counters, budgets, key plans and samples.

Left:

- the backoff of `network.rs` and the weights and limits of `cpu_policy.rs` as
  pure algorithms against reference definitions;
- dry runs (`service.rs`), which share the ledger lock and a deadline;
- offline verification (`verify.rs`).

## 3. The modules and the code

Each `MC_*` module only gives values to the constants for TLC.  An operator
whose comment begins with "Mutation of" is a wrong variant of the definition it
names; no specification uses it, and the run of `PROJECT.json` that names it
shows that its property would notice such a bug.

### JobLedger (`src/jobs.rs`)

`JobStore` keeps a ledger in memory and on disk.  Every operation clones the
ledger, changes the clone, and calls `commit`, which prunes, writes a temporary
file, renames it to `jobs.json` and only then replaces the ledger in memory.
`Write` is that rename: it succeeds, or the process dies right after it
(`phase` becomes `"down"`), so what was written may be unknown to the caller.  A
write that fails changes nothing and is a stuttering step.

| Variable | Code |
| --- | --- |
| `ledger`, `disk` | `JobStore.ledger`, `jobs.json`: jobs and the outbox of completions |
| `targets` | `JobStore.completion_targets` |
| `phase` | no store, `open` has returned, `configure_completions` has returned |
| `accepted`, `owed` | history: how many jobs were ever pushed, what completed jobs owe |

`Open`, `Configure`, `Submit`, `SubmitIdempotent`, `Retry`, `Claim`, `Cancel`,
`Progress`, `Finish` and `Acknowledge` are the methods; `Interrupt`,
`Prunable`, `Room`, `FinalStatus` and `Claimable` the conditions they share.
Jobs are numbered in the order of the `Vec`; dates matter only to retention and
are any reading of a clock that may step back.

### JobService (`src/service.rs`)

Extends the ledger with the worker loop.  `TopStopping`, `TopSweep`,
`Claiming`, `Joining`, `Tick` and `NoticeShutdown` are the parts of
`run_job_workers` between its awaits; the ledger lock is held from the sweep to
the last claim (`loop = "claiming"`), so requests and reports of tasks wait
(`Unlocked`).  A task is `working` until the last stop check of the pipeline,
`final` while it records its last progress, `returned` until joined; `late`
says that its deadline has passed.  `Enter` and `SubmitRequest`/`RetryRequest`
are the two steps of a handler: it reads `accepting`, then waits for the lock.

### CompletionDelivery and NoticeQueue (`src/service.rs`, `src/completion_notify.rs`)

One worker per configured recipient: `First` picks the oldest delivery that
waits, `Post` sends it without the ledger; `Receive`, `Answer`, `LoseAnswer` and
`GiveUp` are what may become of the request;
`Acknowledge` takes the ledger again.  `stray` holds requests that nobody waits
for any more and that may still arrive (`ArriveLate`).  `Boot` may change the
recipients, `Die` and `Shutdown` end the workers anywhere.  `NoticeQueue` is the
promise: every recipient hears of every job it is owed once, in order, if it
drops the duplicates (the event identity in the body lets it).

### StableKeys and StablePublication (`src/stable_layout.rs`, `src/storage.rs`)

`StableKeys` translates the key plan: `Asked` gives the keys that the outputs of
an export ask for (flat when one object lives at its container's own path,
nested under class, name and number otherwise, one per cue of an ACB), and
`Claim` is one call of `claim`: the first variant (`__dupN`) that is free, or
held in the same case with the same content.  `Planned` folds the claims in
catalog order.  The choice of the number is written with `CHOOSE` of the least
one and the fold with one of the community modules, so that both can be
proved about.

`StablePublication` puts publications after each other over one prefix:
`Begin`, `ReadManifest`, `Upload`, `UploadMangled`, `Uploaded`, `PruneKey`,
`Pruned`, `WriteManifest`, `WriteSummary`, `WriteVersion` are the phases of
`publish_stable`, `Interrupt` ends it at any call.  `Pending`, `Carried` and
`Prunable` are the three decisions taken from the previous manifest.

### Publication (`src/storage.rs`)

`publish_with_progress` over several providers: concurrent uploads (`up`) of
the provider in turn, each with attempts, a permit of the shared gate, a
deadline and a read-back; markers; the second verification before the removal
of the local tree.  `others` are the permits that other jobs hold, `ChangeLocal`
is an export that is changed behind the program's back.

A versioned prefix is new and begins empty.  A stable prefix is published in
place: its turn begins with the manifest of the previous publication
(`ReadManifest`, `ManifestFails`), and a file that it lists as it is now
(`listed`) is `"skipped"`, neither uploaded nor looked at.  `Init` lets such a
provider hold anything under any manifest: `StablePublication` shows how an
interrupted publication leaves a manifest that is wrong about its tree.  So a
marker stands for what `Verified` says: every file was read back but those that
the provider's manifest listed before.  Those are taken on the manifest's word,
which finding 2 shows may be wrong.

### StorageSigner (`src/storage_credentials.rs`, `src/storage_sts.rs`)

Tasks ask the signer of a provider for a credential (`Ask`).  It is kept while
it is fresh; otherwise one task at a time (`TakeLock`, `lock`) reads the file
(`Read`, `FromFile`) or, with a role, asks STS with the keys of the file or of
the environment (`Assumed`, `AssumeFails`).  `GiveUp` is the end of the attempt
that asked, which drops the lock wherever it is.  `contents` is the history of
the file: `Replace` puts other content in its place at any time, good, bad or
with an expiration of its own.

### ExportCache (`src/export_cache.rs`)

`entries` and `bytes` are the in-memory budget, `disk` the entries it should
count, `holder` who has its mutex.  `Open`, `Opened` are `open` and
`scan_and_prune`; `Evict`/`EvictFails` the loop of `make_room`; `Miss`, `Hit`,
`Decode`, `StartStore`, `Stage`, `RemoveOld`, `Commit` and their failures the
steps of `process`, `restore` and `store`.  `Crash` ends the owner anywhere; the
next one may have other limits.

### ExportRun (`src/export.rs`, `src/export_verify.rs`)

`worker` are the threads of the scope in `execute`, `channel` the bounded
channel of reports, `Receive`/`Summarise` the collector that appends to
`resources.jsonl` and rewrites `summary.json`, `Finish`/`Fail` what follows the
join.  `dirs` and `staging` are the directories under the output.  `Accepted` is
the verification of `export_verify.rs`, a predicate of whatever is on disk
(`SummaryFits`, `JournalAgrees`, `DirectoriesStand`, `NothingElse`).

### ResourceExport (`src/export.rs`)

`process_resource` and what it calls.  `todo` is what is left to do: calls in
the order of the code, one action for each kind (`DoLook` at the cancel flag,
`DoTry` for what may fail and changes nothing here, `DoFits` and `DoRecord` for
the limit of bytes, `DoMake`, `DoDrop`, `DoHold`, `DoRun`, `DoEncode`).
`Unity`, `Cri`, `Acb`, `UsmDecode`, `RecordAudio`, `VideoFormats`, `Images` give
the calls of each kind of object and container for the configuration at hand
(`case`).  A file is named by its directory, its stem and its extension, the
first two by what they are for and a number (`File`, `Nth`, `OfStem`), so that
two files of the code are two names here; images have the formats of
`export_options.rs`, none of them twice (`CasesAssumption`).  `DoObject` and
`DoUsm` unfold into others.  `Fails` skips to the innermost handler: the end of
an object, which reports the error and goes on (`objectEnd`), or the end of a
video that could not be decoded as masked and is decoded once more (`usmEnd`,
`SecondPass`); without one the resource fails.

`media` is the command or encoding at hand: the wait for its stage, the linked
FFmpeg (`"ffi"`), the wait for permits and throttle (`"gate"`), the child, the
backoff.  `TryAgain` is the retry of `ffmpeg_deadline`, `Killed` its poll,
`Expire` the deadline.  A child that finds its output in place fails, since it
is started without `-y`; one that fails may leave a partial file.

### MediaTranscode and ResourceMedia (`src/media_ffi.rs`, `src/media_ffi/`)

Each stream has a lane: how many packets were fed and frames decoded, the origin
of its clock, the FIFO, the encoder's queue.  `Read`, `Receive`, `Chunk`,
`ChunksDone`, `Decoded`, `EndOfInput`, `Flush`, `Finish`, `Trailer` are the
loops of `transcode_video_file_to_mp4`, `transcode_open_input_to_file`,
`drain_decoder_to_encoder`, `encode_available` and `drain_encoder`; `Timely` is
the comparison with the clock (`check_video` and its twin for audio).  Decoder
and encoder may hold back up to `Delay` frames, any call may fail (`Broken`).
`ResourceMedia` starts it where an encoding is `"ffi"` and interrupts it with
the cancel flag and the deadline of that encoding (`controlled`).  The origin of
a clock is an `Option`, a set with at most one element: a first frame without a
time puts it before the first frame that has one, which may be below zero.
`MediaSource` is what FFmpeg may find in an input; `MediaAssumption` says that
the constant `Sources` gives nothing else, and TLC evaluates it for the run
(`SourcesAssumption`).

### CpuThrottle (`src/cpu_throttle.rs`)

Threads call `wait`: `TryLock` takes the sampler or uses its recent value,
`ReadRow` reads `/proc` one process after the other, `Refreshed` computes the
usage from the rows (`TreeTicks`, `DeltaTicks`) and stores it, `Judged` admits
or pauses.  Processes burn ticks, start, end and reuse numbers in between.
`burnt` is the history that a sample is compared with: what the tree used since
the last two scans began, what each process used between them, and whether a
process ever outlived its parent.

### MC_Export, MC_ExportCache, MC_Publication and MC_LedgerAndAdmission

These runs put machines that do not interact behind each other: `turn` says
whose steps are taken, and once a machine is at rest its variables are set back
to fixed values before the next begins.  What one does has no effect on the
next, so each is checked as if alone, in one run.  In
`MC_LedgerAndAdmission` the first state chooses what moves (`scene`): the
ledger, the gates under two jobs, or the gates under all sections; the rest
never moves.

### Admission (`media_gate.rs`, `resource_budget.rs`, `stage_limits.rs`)

A worker is in a stack of sections (`scope`): a resource, a decoder stage, a
media process, a computation.  `Chain` gives the permits of a section in the
order in which `export.rs` takes them, `Inner` the sections that are entered
inside another: also a media process inside a container of audio (the round
trip of a FLAC or MP3 after the encoding has ended) or inside an image (the
command that validates what was written).  `Acquire` increments a counter that
has room; a wait may time out or be cancelled (`GivesUp`), and everything held
is given back on the way out, by `Leave`.  The error of a section may be
`Tolerated` by the one around it, which then goes on with its own permits.

### DownloadRun (`lib.rs`, `update.rs`, `readiness.rs`, `cache.rs`)

`origin` is the CDN and what the game API says of it.  A run goes through the
phases `pin`, `hash`, `catalog`, `plan`, `batch`, `recheck`, `rehash`,
`publish`; `item` is where each request stands (`look` in the cache, `ask` for a
permit, `get`, `back` off, `copy`, `clear` and `move` the cache entry, `done`).
`Fail` drops a batch while file operations go on in other threads; `Dropped`
and `LateRemoval` are what they leave (finding 4).  `Begin` takes the lock of the cache
directory and reaps what killed runs left.

## 4. What the runs check

`CHECK_DEADLOCK FALSE` is said where the system really comes to rest: a bounded
number of publications, openings, resources or runs.  The others must always
have a step.

| Run | Bounds | What it shows |
| --- | --- | --- |
| `ledger_admission` | the ledger: two regions, both recipients in one of them, two slots, two places in the queue, outbox of 2, one retained record, 3 jobs, clock {1, 2}; or the gates: three workers of two jobs in sections acb, hca, cpu, or two workers of one job in every section and every nesting, three sections in a resource; budgets of 2 and 3 bytes, resources of 0 and 5 bytes, every other limit 1 | memory and disk agree; slots are exclusive; a written ledger can be opened; the outbox keeps room for every job that may complete and holds exactly what is owed; FIFO per region; the life cycle, the restart and retention of records.  Limits hold, counters are exact, an oversized resource is alone, no circle of waits, whatever is held when a wait begins |
| `ledger_interrupted` | the same, each region with a recipient | finding 1 |
| `service` | two regions, 2 jobs, two slots, one handler between its steps, no recipients or keys (the ledger has them in its run) | a task holds its slot until joined, no slot leaks, the loop ends clean; a late job never completes; cancellations and shutdown end; queued jobs start |
| `delivery` | one region, two recipients, 3 completions | at least once; the event a worker cloned is still first when it acknowledges; the abstract queue is implemented; one recipient is served although the other never accepts |
| `stable` | two resources whose keys differ in case only, two contents, 3 publications, pruning, one failed resource allowed, other people's objects at two keys | plans are sound, the version goes last, the manifest describes the tree but for torn keys, failed resources keep their keys and nothing foreign is pruned (about 1.9 million states) |
| `stable_torn` | the same without pruning and failures | finding 2 |
| `publication` | a stable and a versioned provider, 3 files, 2 uploads in flight, 2 attempts, 2 permits; below the stable prefix old objects without a manifest, a manifest that is wrong about one of the files it lists, or objects that were deleted | markers tell the truth (of what the manifest did not list), the local tree goes last, nothing is in flight after the return, every publication ends; before it, two tasks, a file replaced twice, a role, lifetimes 1 and 3 within 4 seconds: keys that sign are usable, one task at a time gets them, waiters end |
| `export_cache` | 3 identities of sizes 1, 1 and 2, two workers, three limits, 3 uses, 3 openings; before it two threads, three process numbers, two births, one tick of use, deadlines 2 and 3 | limits hold at every step, the budget never counts too little, leftovers go, eviction follows the last use; before it, a sample misses nothing that its processes used and without orphans counts nothing else; waits end |
| `export_run` | sixteen resources of up to three objects under as many configurations, limits of 3 and 40 bytes, two attempts; conversions of up to three frames and two streams with gaps, drift and late sound, frames of 2 samples, delay 1; then two workers, 3 resources, cache, one failed resource accepted | a kept resource has the files that its configuration asks for, whole, each reported once; no attempt meets the output of another, passes do not mix, no sample is lost or moved; complete means complete; the verification accepts whole exports and nothing else, also after a kill; resources, waits and runs end |
| `export_run_partial` | two workers, 2 resources | finding 3 |
| `download` | two runs, 3 files of 2, 1 and 1 bytes, limits 2 and 4, width 3, two attempts, one permit, cache and `.hash`, one change of the origin | the byte budget, versions, the catalog, permits, cache entries and temporary directories; every run ends |
| `download_late` | three runs, one file, one attempt, no change of the origin | finding 4 |

Why these bounds are enough. Two regions, slots, workers and recipients are what
it takes for two of them to collide and for a third to wait; the third job of
the ledger makes both the queue and the outbox overflow, and with one retained
record it makes retention drop one while another waits. Three publications are
the shortest history of the torn case: one that completes, one that is
interrupted, one that trusts the first. Key plans were also compared for every
export of two resources over a few names (262 000 exports) when `StableKeys` was
written; the run keeps the offers that collide. Three files make a full batch
and a rest that meets the byte limit with nothing to spare; two attempts are a
retry and its end. The three situations below the stable prefix are those in
which a skip and the tree can differ: nothing listed, a listed file that is torn
between good ones, a listed file that is gone; the proof starts from any.
Permits of one job are what its workers contend for beside those of the service,
so two workers of one job that enter every section wait for each other in every
way that workers of two jobs can and in more. An oversized resource (5 bytes)
and one that weighs nothing are the edges of the budget's clamp. The resources
of `MC_Export` hold every kind of object and container, every backend and every
choice of audio and video at least once, with a limit that is met in the middle
for two of them; three frames are a first, a drift of one tick that is within
the tolerance and a sum of drifts that is not. Three process numbers and two
births are a child and its child, an orphan and a number that is used again. The
mutants show that the cases occur: each property is violated when a guard, an
order or a reset it depends on is wrong.

### Properties that join several

Some runs check a conjunction under one name: `RecordsKept` is `LifeCycle`,
`QueueSurvivesRestart` and `RetentionKeepsNewest`; `ServiceInv` is the type,
`WorkerHoldsSlot`, `SlotHasWorker` and `EndsClean`; `StopsEnd` is
`CancellationEnds` and `ShutdownDrains`; `KeysKept` is `FailedKeepTheirKeys` and
`OnlyOwnKeysGo`; `AcceptedExactly` is `AcceptedIsWhole` and `CleanAccepted`;
`Published` is `PublishedWasCurrent` and `OneCatalog`; `ResourceInv` is the
types of `ResourceExport`, `ReportHolds`, `FreshAttempt`, `OnePass` and
`KeptIsReport`; `TranscodeInv` is `NothingLost`, `Seamless` and `Complete`;
`ThrottleInv` is its types and `SampleSound`; `ExportInv` is the types of
`ExportRun`, `CompleteMeansAll` and `FinishedReportsEach`; `Inv` of a module joins its type
with the invariants named in its definition: `MemoryIsDurable` (ledger),
`NothingForgotten` and `HeldIsFirst` (delivery), `LimitsHold` (`AdmissionInv`),
`BudgetHolds` and `PermitsExact` (download), `RoomUnlessBroken` (cache).

### Fairness

- `JobService`: the loop is one task of a runtime that never stops and `select!`
  chooses among ready branches at random, so its branches are weakly fair
  (strongly, where another branch may take their readiness away); the ledger
  lock is a fair queue.  Nothing says that the work of a job ends: only
  `QueuedRuns` assumes, as a premise (`TimersFire`), that the deadline fires.
- `CompletionDelivery`: the run states fairness for the worker, the receiver and
  the ledger of one recipient, which accepts a request that is repeated for
  ever; the other one may hang for ever.
- `Publication`: an upload in flight ends or meets its deadline; permits of
  other jobs may never come back.
- `ExportRun`: threads that can run do; admission ends (module `Admission`).
- `ResourceMedia`: calls into FFmpeg and the file system return and time passes,
  so that deadlines expire; nothing is assumed of children, which may hang.
- `CpuThrottle`: threads that can run do, and time passes.
- `StorageSigner`: who gets a credential ends, at the latest when its attempt is
  cancelled or runs out of time; the lock is a queue (`tokio::sync::Mutex`), so
  a task that waits is served (strong fairness of `TakeLock`).
- `DownloadRun`: every attempt has a timeout and attempts are counted.
- `ExportCache`, `StablePublication` and `Admission` state safety only.  The
  gates have no queue, so the code does not promise that a large resource ever
  passes a stream of small ones: `NoCircle` is freedom from circular waiting.

## 5. What is proved

All proofs are checked by TLAPS to the last leaf, from the named assumptions on
the constants alone (limits are natural numbers, `TargetRegion` is a function,
lower case is idempotent, sets of workers and files are finite, and so on).  A
theorem with a `property` in `PROJECT.json` states, for every value of the
constants, what a run checks on one instance.  Each invariant below was an
invariant of a run before it was proved, but for the path of `Going`, which TLC
cannot enumerate: of `ResourceIInv` the run checks what it is there for.

- **Ledger** (`JobLedger_proofs`).  `TypeCorrect`, `Durable`, both together as
  `StoreSound` (`Inv`), `SlotSafety`, `OutboxSafety`, `StartOrder`,
  `AlwaysReopens`, `OutboxIsOwed`, `RecordsAreKept`.  `CommitType` says that
  whatever an operation computes, what `commit` writes is well typed;
  `CommitEffect` what a commit does to the two copies.  `SlotSafety` is
  inductive together with durability: `Claim` checks the copy in memory, the
  theorem is about the disk; `FewerActive` counts the jobs in slots.
  `OutboxSafety` is inductive because completing a job moves its place from the
  reserved to the used ones (`RoomAfterCommit`).  The other theorems rest on
  what a commit writes, without the operation that called it: the ledger is an
  opening's (`OpenStep`), has one more job (`AddStep`), or one job or delivery
  changed (`ChangeStep`).  `OutboxIsOwed` needs that places in the outbox are
  distinct and that a delivery belongs to a completed job (`OutboxInv`), so that
  the event of a job that completes now takes no other's place.
- **Service** (`JobLedger_proofs`, second part).  `ServiceKeepsLedger`: every step of
  the loop, the tasks and the handlers is a step of the ledger or leaves it
  alone, so the theorems above hold in the service.  `ServiceSound` is
  `ServiceInv`: a task holds its slot until it is joined, no slot is taken
  without a task, the loop ends clean.  The inductive `SInv` says in addition
  when the loop runs (`Turns`: exactly while the ledger is served, and it starts
  with no slot taken, because an opening interrupts every active job:
  `OpenOccupied`).  `DeadlineKept`: a job whose task ran late never completes.
- **Delivery** (`DeliveryAndMedia_proofs`).  `AtLeastOnce`,
  `NoStaleAcknowledgement`, both with the types as `DeliverySafe` (`Inv`), and
  `Refinement`.  The invariant adds to the checked
  ones that only accepted requests are answered, that what waits is owed, and
  that a late request is for something whose predecessors were all received
  (`StrayInTurn`).  The last is what makes the order survive late requests:
  a worker posts the next notice only after the answer to the one before.
- **Stable publication** (`StablePublication_proofs`).  `ClaimSound`: a claim
  keeps the plan it is given, puts the output under a variant of its key and
  never makes two keys that differ in case only; a free number exists by the
  pigeonhole principle, for a finite plan cannot hold all variants.
  `PlansAreSound` extends it to the whole export: the fold of the claims is
  unfolded into the sequence of plans it goes through (`PlannedSteps`), and
  `CountUp` carries the claim's facts along it.  `PlansArePublished` (`Inv`):
  what is uploaded, listed and stored is typed by these plans.
  `TreeDescribed`, `KeysSafe`, `OrderKept` hold for every plan: `IInv` says in
  addition what a run may still change (`TodoOwn`), that every key of the plan
  is skipped, waits or was uploaded (`PlanStands`), that carried keys are not
  touched (`CarriedStand`), and that keys changed by the run under way are the
  only ones beside the torn ones that may differ from the manifest
  (`TreeStands`).
- **Publication** (`Publication_proofs`).  `MarkersAreTrue` and `NothingIsLeft`
  (`Inv`), for any earlier manifests and objects.  The invariant follows the
  turns of the providers: who had its turn has every file that its manifest did
  not list (`TurnsSound`), an upload that ended well in this turn left its file
  there and only a listed file was skipped (`UploadsSound`), no marker is there
  before its turn is over (`MarkersSound`), and the local tree goes after all of
  them (`LocalSound`).  That a listed file is there is not true and not claimed
  (finding 2).
- **Credentials** (`Publication_proofs`, second part).  `OneSigner` and
  `NeverSignsStale`, for any number of tasks and every history of the file.
  `SignerIInv` joins who holds the lock and that it is needed (`LockHeld`,
  `LockNeeded`), that only a role asks STS, and what makes old keys harmless
  (`KeysNamed`): they last no longer than the file said, and their freshness
  ends `refresh_seconds` after the file first said something else.
- **Export cache** (`ExportCache_proofs`).  `CacheSound` (`Inv`) and `OldestGoes`
  (`EvictsOldest`).  The invariant says who has the mutex (`Mutex`), that the
  books count every entry on disk at its size or more and add up to `bytes`
  (`Accounts`), that an open cache is within its limits (`Limited`) and that the
  room a store made is still there when it commits (`RoomMade`).  Nothing
  counted is missing but the entry that is being replaced, unless a failed
  replacement left it so (`Present`): that is why eviction never runs out of
  victims.  `Uses` keeps the last use on disk and in memory the same, over
  restarts.
- **Admission** (`Admission_proofs`).  `CountersAreWhatIsHeld`, `LimitsAreKept`,
  `WaitsEnd`.  Counters are sums over the workers; a step changes what one of
  them holds and one counter by the same amount.  Sections nest in the order of
  the rank of their permits (`Nested`), so what a worker waits for comes after
  all that it holds (`WantsLater`).  `WaitsEnd`: along a wait the rank grows,
  so no circle closes, whatever permits are configured.
- **Throttle** (`Admission_proofs`, second part).  `SamplesAreSound`
  (`ThrottleInv`), for any number of threads and processes.  A scan reads one
  row after the other while processes run, so what will be counted of each of
  them is followed through the scan: from the row that was read if it ended,
  from `/proc` otherwise (`Used`), next to what the same process has used since
  the scan began (`Since`).  `Bounded` compares their sums with the history;
  `NothingMissed` is the other side, per process.  A start that is later than
  the scan tells a number that is used again from the process whose row was read
  (`StartsKnown`, `RowsRead`).  The upper bound holds only while no process
  outlives its parent (`Family`): the children of an orphan leave the tree with
  it, but a scan that has read the row of the orphan before still takes them as
  ours, with what they use outside.  A `SampleSound` without that exception
  passes with two process numbers and fails with four.
- **Export run** (`StablePublication_proofs`, second part).  `SummaryIsTrue`
  (`ExportInv`) and `VerifiedExactly` (`AcceptedExactly`).  A resource that was
  handed out is with one worker, in the channel or in the journal and nowhere
  twice (`Apart`); none is lost while the collector listens (`Accounted`);
  reports say what happened (`Truthful`); a directory belongs to a success, to a
  store that failed or to a worker at it, unless the run was killed
  (`Directories`); the counts are those of the journal (`Counted`); after the
  end nothing happens any more (`Rested`, `Concluded`).  The sizes of the sets
  of resources then give what the verification compares.
- **Conversions** (`DeliveryAndMedia_proofs`, second part).  `ConversionsComplete`
  (`TranscodeInv`): for any size of a frame, any delay of decoder and encoder,
  any number of streams and any times that pass the check of the clock.
  `ConversionIInv` follows one lane at a time: packets written and held by the
  encoder follow each other without a gap (`PacketsFollow`), what they carry and
  what the FIFO holds is what was decoded (`Kept`), every frame that has a time
  was within one tick of its place after the origin (`InPlace`), and only the
  last frame of an MP3 ends in silence, after everything was decoded.
  `StageSound` adds what the order of the stages gives: no lane is flushed
  before all packets are read, and those before the one at hand are empty.
  `Complete` then follows at the trailer: a lane with nothing in decoder, FIFO
  and encoder has written all it was fed.  `MediaIInv` carries it through the
  resource around it, which never touches a conversion under way.
- **Resources** (`DeliveryAndMedia_proofs`, third part).  `KeptAsPromised`
  (`ResourceInv`): for any number and kinds of objects, waves and formats, any
  sizes and limit, any number of attempts, and whatever fails, hangs, runs late
  or is cancelled.  It needs that sizes are natural numbers (`SizesAssumption`)
  and what `CasesAssumption` says of the configurations.  `KeptIsReport` is about
  the last state, so `ResourceIInv` says of every state before it how it comes
  there.  `There`: what the report lists is in the directory, whole, of the pass
  that listed it; `Once`: nothing is listed twice; `Driven`: what a command or
  encoding at hand may leave, and that no attempt finds its output in place.
  `Going` is the heart: the calls to come are a path of stands.  A stand says
  which files were made and are still to be listed or removed (`have`), which
  may be in the directory at all (`used`), which are in the report (`told`) and
  which objects are kept for a playable (`kept`).  The path begins at what is
  there now (`Here`) and, unless an error was reported, ends with what was
  promised and nothing left over (`Aim`).
  A call that succeeds takes the first stretch of the path away, one that
  unfolds puts a path of its own in its place, and a failure goes on at a later
  stand, which bounds what is there but is no longer reached exactly, since the
  error was reported.  `Passes` and
  `Sealed` say the same of the two passes over a USM: what is listed under its
  directory was listed by the pass at hand.  The lemmas `Closed...` are one for
  each kind of object and container: its calls lead from any stand at which its
  names are unused to one at which exactly its files were added and told
  (`ClosedJoin` puts two together, `ClosedFlatten` a sequence of them).  A file
  that only served to make another (the WAV of a FLAC, the MKV of an MP4) is used
  and not told.
- **Downloads** (`DownloadRun_proofs`).  `SnapshotsAreConsistent` (`Published`),
  `RunsShareSafely` (`Inv`), `EntriesAreKept`.  `RunsInv` is about one run at a
  time: where its requests may stand in each phase (`Placed`) and that a batch
  at its worst fits in what remains (`Affordable`), whence the byte budget.
  `Dated` orders the moments that a run has read of the origin, which only
  grows (`Grows`): the pin, the catalog, the last file.  `Published` follows because
  the pin and the last look are the same.  `CacheInv` says that whoever works in
  the cache owns it and that no whole entry is in the way of what a run asks for
  (`NothingInTheWay`), so a run that works there removes nothing whole; the
  removals that outlive their run are the exception (finding 4).
- **Sums** (`Sums`): lemmas about `SumFunctionOnSet` of the community modules,
  which adds in an order that is not known: `SumAdd`, `SumRemove`, `SumSame`,
  `SumMonotone`, `SumBound`, `SumGrows`, and about `FlattenSeq`, which joins a
  sequence of sequences.  The function is recursive on the set, and the
  library's induction theorems take an operator, which the provers here cannot
  instantiate; `LeastSet` and `CountUp` are induction over the finite subsets
  and over the numbers as statements about a SET of counterexamples, which
  they can.

Only model-checked:

- everything under fairness (liveness is beyond the prover);
- the four runs that expect a violation.

## 6. Where the code and its documents disagree

1. `ledger_interrupted`: `docs/JOB_SERVICE.md` says that jobs interrupted by a
   restart become failed and can be retried.  `open` prunes ended jobs in the
   same commit, so with more interrupted jobs than `retain_terminal_jobs` some
   are gone before anyone can retry them.
2. `stable_torn`: the comment above `publish_stable`'s last writes says that
   `version.json` names the manifest that describes the tree.  A publication
   that was interrupted has changed keys under the old manifest; the next one
   that wants what the old manifest lists skips them.  `OnlyTornDiffer` shows
   that nothing else goes wrong: the keys are those that an interrupted
   publication changed, and an upload repairs them.  Until then the loss may be
   final: with `remove_local_after_upload` the publication that skipped them
   removes the local tree, where a comment says that all destinations have
   verified objects (`Publication` shows which ones are).
3. `export_run_partial`: `docs/EXPORT.md` says that failures remove partial
   products and `docs/STORAGE.md` that an export with few enough failures is
   published.  A store in the cache that fails after the resource's directory is
   in place makes the resource a failure and leaves the directory, which the
   verification rejects.  `CleanAccepted` shows that it is the only such case.
4. `download_late`: `docs/NETWORK.md` says that verified cache entries survive a
   cancelled operation.  A removal of a damaged entry goes on in its thread when
   its run is dropped and the lock of the cache is free again; it may take away
   the whole entry that the next run has stored meanwhile.  `EntriesSurvive`
   shows that nothing else does.

## 7. What is not modelled

- Data: catalogs, bundles, media, key cleaning, digests, JSON and HTTP formats.
  A comparison of digests appears as "whole" or "good".  Of the stable layout
  the kinds of output with a key rule of their own are left out.
- The ledger's directory is not synced after a rename, so a loss of power may
  bring the old `jobs.json` back; the model crashes processes, not disks.
- Notices for recipients that left the configuration keep their places in the
  outbox, as in the code: `Room` counts them.
- A kill never tears a single write of the journal or the summary; a torn line
  is rejected by the verification like a missing one.
- The private directory of a download that was killed (`.catalog-*`) is never
  reaped by the program; it holds nothing that is read again.
- The origin replaces a catalog together with its `.hash` and never goes back
  to an earlier one.  File names are content addressed or under the version.
  Catalog locales are left out, the retries of the version request are one step.
- A damaged cache entry appears between two runs.
- What the decoders of Unity and CRI compute, and which fields of an object
  choose its kind: an object of the model has its kind from the start.  A file
  that is validated is a call that may fail.
- Of the linked FFmpeg: encoders that take frames of any size (no FIFO),
  resampling and scaling, input from memory, single M2V streams with a given
  rate (unused by the export), the release of FFmpeg's objects.
- The permits that a resource, a stage and a command take are in `Admission`; in
  `ResourceExport` such a wait ends with a permit or fails (`Refused`).
- A process that is the init of its container and adopts orphans (in the model
  they leave the tree); the throttle on systems without `/proc`, which asks `ps`.
- Automatic sizing of limits, configuration, logging, the HTTP listener.
