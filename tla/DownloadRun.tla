---------------------------- MODULE DownloadRun ----------------------------
(***************************************************************************)
(* Runs of a download profile: src/lib.rs (fetch, download), src/update.rs *)
(* (download_assets), src/readiness.rs (revalidate) and src/cache.rs, with *)
(* the service's limit on concurrent downloads.                            *)
(*                                                                         *)
(* A run pins the version the game API reports, reads the catalog and its  *)
(* files into a private directory, in batches and through a cache that     *)
(* has one owner at a time, checks the version again and renames the       *)
(* directory.  A file's content is what the catalog of its run says: file  *)
(* names are content addressed, or the directory carries the version       *)
(* (docs/REGIONS.md).  The requests of a batch are polled by one task, but *)
(* their file operations run on other threads and outlive a dropped one.   *)
(***************************************************************************)
EXTENDS Integers, FiniteSets, Functions

CONSTANTS
    Runs,
    N,              \* a catalog lists the files 1 .. N
    Size(_),        \* bytes of a file
    MaxFile, MaxTotal, Concurrency, Attempts,   \* configuration
    MaxDownloads,   \* permits of the service
    Cached,         \* whether the profile has a cache directory
    HasHash,        \* whether the layout has a .hash (Global)
    Changes         \* bound of the model: how often the origin changes

Files == 1 .. N
Hash == 0         \* the requests for the .hash and the catalog
Catalog == -1
Items == Files \cup {Hash, Catalog}
Nobody == "nobody"

ASSUME DownloadAssumption ==
    /\ IsFiniteSet(Runs) /\ Nobody \notin Runs
    /\ N \in Nat /\ Changes \in Nat
    /\ {MaxFile, MaxTotal, Concurrency, Attempts, MaxDownloads} \subseteq Nat \ {0}
    /\ \A f \in Files : Size(f) \in Nat \ {0}
    /\ Cached \in BOOLEAN /\ HasHash \in BOOLEAN

VARIABLES
    origin,     \* the version on the CDN, by version the token of its catalog,
                \* and what the game API reports of them
    run,        \* what a run has pinned, read and reached
    item,       \* where each request of a run stands
    permits,    \* downloads of the service that are admitted
    owner,      \* the run that holds the lock of the cache directory
    entry,      \* the cache: by catalog and file
    pending,    \* temporary directories in the cache, by the run that made them
    stray       \* entries whose removal outlived the run that asked for it

vars == <<origin, run, item, permits, owner, entry, pending, stray>>
cacheVars == <<owner, entry, pending, stray>>

Tokens == 0 .. Changes
Rest == [at |-> "rest", tries |-> 0]
Idle == [phase |-> "idle", pin |-> <<0, 0>>, hash |-> 0, catalog |-> 0,
         arrived |-> <<0, 0>>, next |-> 1, end |-> 0, limit |-> 0, total |-> 0]

Running == {"pin", "hash", "catalog", "plan", "batch", "recheck", "rehash", "publish"}
Id(r, f) == <<run[r].catalog, f>>
Batch(r) == run[r].next .. run[r].end
To(r, phase) == run' = [run EXCEPT ![r].phase = phase]
Put(r, x, at) == item' = [item EXCEPT ![r][x].at = at]
At(r, x, at) == run[r].phase \in {"hash", "catalog", "batch", "rehash"} /\ item[r][x].at = at
Getting(r) == {x \in Items : item[r][x].at = "get"}

-----------------------------------------------------------------------------
(* A new version, or a catalog that is replaced under its version together *)
(* with its .hash.  Nothing is taken back, so no state returns.            *)
Release ==
    LET change == origin.changes + 1
        version == origin.version
    IN
    /\ change <= Changes
    /\ \/ origin' = [origin EXCEPT !.version = version + 1, !.changes = change,
                                   !.token[version + 1] = change]
       \/ HasHash /\ origin' = [origin EXCEPT !.token[version] = change,
                                              !.changes = change]
    /\ UNCHANGED <<run, item, permits, cacheVars>>

(* The game API observes the CDN on its own, some time later.              *)
Report ==
    /\ origin.api # <<origin.version, origin.token[origin.version]>>
    /\ origin' = [origin EXCEPT !.api = <<origin.version, origin.token[origin.version]>>]
    /\ UNCHANGED <<run, item, permits, cacheVars>>

(* Something damages an entry: what the comment in Pending::commit calls a *)
(* corrupt managed entry.                                                  *)
Damage(id) ==
    /\ owner = Nobody       \* bound of the model: between two runs
    /\ entry[id] = "whole"
    /\ entry' = [entry EXCEPT ![id] = "bad"]
    /\ UNCHANGED <<origin, run, item, permits, owner, pending, stray>>

-----------------------------------------------------------------------------
(* The run as a whole.                                                     *)

(* Mutation of Begin: the lock is taken, nothing is reaped.                *)
BeginDirty(r) ==
    /\ run[r].phase = "idle"
    /\ To(r, IF Cached /\ owner # Nobody THEN "failed" ELSE "pin")
    /\ owner' = IF Cached /\ owner = Nobody THEN r ELSE owner
    /\ UNCHANGED <<origin, item, permits, entry, pending, stray>>

(* Mutation of Begin: reaping comes before the lock.                       *)
BeginReaping(r) ==
    /\ run[r].phase = "idle"
    /\ To(r, IF Cached /\ owner # Nobody THEN "failed" ELSE "pin")
    /\ owner' = IF Cached /\ owner = Nobody THEN r ELSE owner
    /\ pending' = IF Cached THEN [q \in Runs |-> {}] ELSE pending
    /\ UNCHANGED <<origin, item, permits, entry, stray>>

(* fetch: who finds the cache locked is Busy; who locks it removes what    *)
(* killed runs left.                                                       *)
Begin(r) ==
    LET locked == Cached /\ owner # Nobody
        locks == Cached /\ ~locked
    IN
    /\ run[r].phase = "idle"
    /\ To(r, IF locked THEN "failed" ELSE "pin")
    /\ owner' = IF locks THEN r ELSE owner
    /\ pending' = IF locks THEN [q \in Runs |-> {}] ELSE pending
    /\ UNCHANGED <<origin, item, permits, entry, stray>>

(* A layout with a .hash reads it before the catalog.                      *)
FirstRequest == IF HasHash THEN Hash ELSE Catalog

(* observed_snapshot, with its retries in one step.                        *)
Pin(r) ==
    /\ run[r].phase = "pin"
    /\ run' = [run EXCEPT ![r].phase = IF FirstRequest = Hash THEN "hash" ELSE "catalog",
                          ![r].pin = origin.api]
    /\ item' = [item EXCEPT ![r][FirstRequest].at = "ask"]
    /\ UNCHANGED <<origin, permits, cacheVars>>

(* The next batch: every request in it may need the largest file, and one  *)
(* request may have all that remains.                                      *)
Limit(remaining) == IF remaining < MaxFile THEN remaining ELSE MaxFile

(* Mutation of Width: the batch is as wide as configured.                  *)
WidthConfigured(remaining) == Concurrency

Width(remaining) ==
    LET fit == remaining \div MaxFile
        least == IF fit < 1 THEN 1 ELSE fit
    IN IF least < Concurrency THEN least ELSE Concurrency

Plan(r) ==
    LET remaining == MaxTotal - run[r].total
        last == run[r].next + Width(remaining) - 1
        end == IF last < N THEN last ELSE N
    IN
    /\ run[r].phase = "plan"
    /\ run[r].next <= N
    /\ remaining > 0
    /\ run' = [run EXCEPT ![r].phase = "batch", ![r].end = end,
                          ![r].limit = Limit(remaining)]
    /\ item' = [item EXCEPT ![r] = [x \in Items |->
           IF x \in run[r].next .. end
           THEN [at |-> IF Cached THEN "look" ELSE "ask", tries |-> 0] ELSE Rest]]
    /\ UNCHANGED <<origin, permits, cacheVars>>

Sizes == [f \in Files |-> Size(f)]

(* A version that has changed is noticed between batches once the interval *)
(* is over (Fail), and in any case before the end (Recheck).               *)
Joined(r) ==
    /\ run[r].phase = "batch"
    /\ \A f \in Batch(r) : item[r][f].at = "done"
    /\ run' = [run EXCEPT ![r].phase = IF run[r].end = N THEN "recheck" ELSE "plan",
                          ![r].next = run[r].end + 1,
                          ![r].total = @ + SumFunctionOnSet(Sizes, Batch(r))]
    /\ item' = [item EXCEPT ![r] = [x \in Items |-> Rest]]
    /\ UNCHANGED <<origin, permits, cacheVars>>

(* Mutation of Recheck: the interval was checked a moment ago. *)
RecheckRecent(r) ==
    /\ run[r].phase = "recheck"
    /\ run' = [run EXCEPT ![r].phase = IF HasHash THEN "rehash" ELSE "publish"]
    /\ item' = IF HasHash THEN [item EXCEPT ![r][Hash].at = "ask"] ELSE item
    /\ UNCHANGED <<origin, permits, cacheVars>>

(* Mutation of Recheck: the .hash is not read again.                       *)
RecheckOnly(r) ==
    /\ run[r].phase = "recheck"
    /\ origin.api = run[r].pin
    /\ To(r, "publish")
    /\ UNCHANGED <<origin, item, permits, cacheVars>>

(* revalidate: what the API reports now is what the run has pinned.        *)
Recheck(r) ==
    /\ run[r].phase = "recheck"
    /\ origin.api = run[r].pin
    /\ run' = [run EXCEPT ![r].phase = IF HasHash THEN "rehash" ELSE "publish"]
    /\ item' = IF HasHash THEN [item EXCEPT ![r][Hash].at = "ask"] ELSE item
    /\ UNCHANGED <<origin, permits, cacheVars>>

(* The rename, after which the lock goes.                                  *)
Publish(r) ==
    /\ run[r].phase = "publish"
    /\ To(r, "published")
    /\ owner' = IF owner = r THEN Nobody ELSE owner
    /\ UNCHANGED <<origin, item, permits, entry, pending, stray>>

(* Any error that is not retried, a version that changed, a cancellation.  *)
(* The other requests of the batch are dropped where they stand, and their *)
(* permits with them.                                                      *)
Fail(r) ==
    /\ run[r].phase \in Running
    /\ To(r, "dropping")
    /\ permits' = permits - Cardinality(Getting(r))
    /\ UNCHANGED <<origin, item, cacheVars>>

(* The temporary directories go while their copies, removals and renames   *)
(* may still be under way on other threads: a directory may stay, an entry *)
(* may appear whole or in part, a removal may come later.  Then staging    *)
(* goes, and the lock.                                                     *)
Dropped(r) ==
    LET at(p) == {Id(r, f) : f \in {g \in Files : item[r][g].at = p}} IN
    /\ run[r].phase = "dropping"
    /\ \E kept \in SUBSET at("copy"), late \in SUBSET at("clear") :
          /\ pending' = [pending EXCEPT ![r] = kept]
          /\ stray' = stray \cup late
    /\ \E moved \in [at("move") -> {"none", "whole", "bad"}] :
          entry' = [id \in DOMAIN entry |->
                       IF id \in at("move") THEN moved[id] ELSE entry[id]]
    /\ To(r, "failed")
    /\ item' = [item EXCEPT ![r] = [x \in Items |-> Rest]]
    /\ owner' = IF owner = r THEN Nobody ELSE owner
    /\ UNCHANGED <<origin, permits>>

(* The process ends with all its runs.                                     *)
Kill ==
    /\ \E r \in Runs : run[r].phase \in Running \cup {"dropping"}
    /\ run' = [r \in Runs |-> IF run[r].phase \in Running \cup {"dropping"}
                              THEN [run[r] EXCEPT !.phase = "killed"] ELSE run[r]]
    /\ item' = [r \in Runs |-> [x \in Items |-> Rest]]
    /\ permits' = 0
    /\ owner' = Nobody
    /\ stray' = {}
    /\ UNCHANGED <<origin, entry, pending>>

-----------------------------------------------------------------------------
(* One request: cdn_attempt and its retries.                               *)

Admitted(r, x) ==
    /\ At(r, x, "ask")
    /\ permits < MaxDownloads
    /\ permits' = permits + 1
    /\ Put(r, x, "get")
    /\ UNCHANGED <<origin, run, cacheVars>>

(* Mutation of TryAgain: the attempts of a busy server are not counted.    *)
TryAgainUncounted(r, x) ==
    /\ At(r, x, "ask") \/ At(r, x, "get")
    /\ item' = [item EXCEPT ![r][x].at = "back"]
    /\ permits' = IF item[r][x].at = "get" THEN permits - 1 ELSE permits
    /\ UNCHANGED <<origin, run, cacheVars>>

(* Mutation of TryAgain: the permit is kept while the request waits.       *)
TryAgainAdmitted(r, x) ==
    /\ At(r, x, "ask") \/ At(r, x, "get")
    /\ item[r][x].tries + 1 < Attempts
    /\ item' = [item EXCEPT ![r][x] = [at |-> "back", tries |-> @.tries + 1]]
    /\ UNCHANGED <<origin, run, permits, cacheVars>>

(* Mutation of TryAgain: one attempt too many.                             *)
TryAgainOnceMore(r, x) ==
    /\ At(r, x, "ask") \/ At(r, x, "get")
    /\ item[r][x].tries < Attempts
    /\ item' = [item EXCEPT ![r][x] = [at |-> "back", tries |-> @.tries + 1]]
    /\ permits' = IF item[r][x].at = "get" THEN permits - 1 ELSE permits
    /\ UNCHANGED <<origin, run, cacheVars>>

(* The time of an attempt is over, for a permit or for the body, or the    *)
(* server is busy.  The last attempt ends in Fail.                         *)
TryAgain(r, x) ==
    /\ At(r, x, "ask") \/ At(r, x, "get")
    /\ item[r][x].tries + 1 < Attempts
    /\ item' = [item EXCEPT ![r][x] = [at |-> "back", tries |-> @.tries + 1]]
    /\ permits' = IF item[r][x].at = "get" THEN permits - 1 ELSE permits
    /\ UNCHANGED <<origin, run, cacheVars>>

BackedOff(r, x) ==
    /\ At(r, x, "back")
    /\ Put(r, x, "ask")
    /\ UNCHANGED <<origin, run, permits, cacheVars>>

(* The .hash, before the catalog and after the files.                      *)
GotHash(r) ==
    LET token == origin.token[run[r].pin[1]]
        first == run[r].phase = "hash"
    IN
    /\ At(r, Hash, "get")
    /\ token = IF first THEN run[r].pin[2] ELSE run[r].hash
    /\ permits' = permits - 1
    /\ run' = [run EXCEPT ![r].phase = IF first THEN "catalog" ELSE "publish",
                          ![r].hash = token]
    /\ item' = [item EXCEPT ![r][Hash] = Rest,
                            ![r][Catalog].at = IF first THEN "ask" ELSE "rest"]
    /\ UNCHANGED <<origin, cacheVars>>

GotCatalog(r) ==
    /\ At(r, Catalog, "get")
    /\ permits' = permits - 1
    /\ run' = [run EXCEPT ![r].phase = "plan",
                          ![r].catalog = origin.token[run[r].pin[1]],
                          ![r].arrived = origin.api]
    /\ item' = [item EXCEPT ![r][Catalog] = Rest]
    /\ UNCHANGED <<origin, cacheVars>>

(* A file within the limit of its batch; Pending::prepare makes a          *)
(* temporary directory for it in the cache.                                *)
GotFile(r, f) ==
    /\ At(r, f, "get")
    /\ Size(f) <= run[r].limit
    /\ permits' = permits - 1
    /\ run' = [run EXCEPT ![r].arrived = origin.api]
    /\ item' = [item EXCEPT ![r][f].at = IF Cached THEN "copy" ELSE "done"]
    /\ pending' = IF Cached THEN [pending EXCEPT ![r] = @ \cup {Id(r, f)}] ELSE pending
    /\ UNCHANGED <<origin, owner, entry, stray>>

-----------------------------------------------------------------------------
(* One file and the cache.                                                 *)

(* Mutation of Restore: an entry is only good for a run without damage.    *)
RestoreNever(r, f) ==
    /\ At(r, f, "look")
    /\ Put(r, f, "ask")
    /\ UNCHANGED <<origin, run, permits, cacheVars>>

(* restore: an entry that fits and is whole is a hit.                      *)
Restore(r, f) ==
    LET hit == entry[Id(r, f)] = "whole" /\ Size(f) <= run[r].limit IN
    /\ At(r, f, "look")
    /\ Put(r, f, IF hit THEN "done" ELSE "ask")
    /\ UNCHANGED <<origin, run, permits, cacheVars>>

(* The copy and its metadata are on disk, the file was decrypted.          *)
Prepared(r, f) ==
    /\ At(r, f, "copy")
    /\ Put(r, f, IF entry[Id(r, f)] = "none" THEN "move" ELSE "clear")
    /\ UNCHANGED <<origin, run, permits, cacheVars>>

Clear(r, f) ==
    /\ At(r, f, "clear")
    /\ entry[Id(r, f)] # "none"
    /\ entry' = [entry EXCEPT ![Id(r, f)] = "none"]
    /\ Put(r, f, "move")
    /\ UNCHANGED <<origin, run, permits, owner, pending, stray>>

Move(r, f) ==
    /\ At(r, f, "move")
    /\ entry[Id(r, f)] = "none"
    /\ entry' = [entry EXCEPT ![Id(r, f)] = "whole"]
    /\ pending' = [pending EXCEPT ![r] = @ \ {Id(r, f)}]
    /\ Put(r, f, "done")
    /\ UNCHANGED <<origin, run, permits, owner, stray>>

(* A removal that outlived its run.                                        *)
LateRemoval(id) ==
    /\ id \in stray
    /\ stray' = stray \ {id}
    /\ entry' = [entry EXCEPT ![id] = "none"]
    /\ UNCHANGED <<origin, run, item, permits, owner, pending>>

-----------------------------------------------------------------------------
Init ==
    /\ origin = [version |-> 0, api |-> <<0, 0>>, changes |-> 0,
               token |-> [v \in Tokens |-> 0]]
    /\ run = [r \in Runs |-> Idle]
    /\ item = [r \in Runs |-> [x \in Items |-> Rest]]
    /\ permits = 0
    /\ owner = Nobody
    /\ entry = [id \in Tokens \X Files |-> "none"]
    /\ pending = [r \in Runs |-> {}]
    /\ stray = {}

Request(r) ==
    \/ \E x \in Items : Admitted(r, x) \/ TryAgain(r, x) \/ BackedOff(r, x)
    \/ GotHash(r) \/ GotCatalog(r)
    \/ \E f \in Files : \/ GotFile(r, f) \/ Restore(r, f) \/ Prepared(r, f)
                        \/ Clear(r, f) \/ Move(r, f)

Step(r) ==
    \/ Begin(r) \/ Pin(r) \/ Plan(r) \/ Joined(r) \/ Recheck(r) \/ Publish(r)
    \/ Fail(r) \/ Dropped(r) \/ Request(r)

Outside == Release \/ Report \/ Kill \/ \E id \in DOMAIN entry : Damage(id) \/ LateRemoval(id)

Next == Outside \/ \E r \in Runs : Step(r)

Spec == Init /\ [][Next]_vars

(* A run is a task of the runtime; every await in it has a timeout.        *)
FairSpec == Spec /\ \A r \in Runs : WF_vars(Step(r))

-----------------------------------------------------------------------------
(* Properties *)

OriginType == [version: Tokens, api: Tokens \X Tokens, changes: Tokens, token: [Tokens -> Tokens]]

RunType ==
    [phase: Running \cup {"idle", "dropping", "published", "failed", "killed"},
     pin: Tokens \X Tokens, hash: Tokens, catalog: Tokens, arrived: Tokens \X Tokens,
     next: 1 .. N + 1, end: 0 .. N, limit: 0 .. MaxFile, total: 0 .. MaxTotal]

ItemType ==
    [at: {"rest", "look", "ask", "get", "back", "copy", "clear", "move", "done"},
     tries: 0 .. Attempts - 1]

(* Every variable is what the code can hold.                               *)
TypeOK ==
    /\ origin \in OriginType
    /\ run \in [Runs -> RunType]
    /\ item \in [Runs -> [Items -> ItemType]]
    /\ permits \in Nat
    /\ owner \in Runs \cup {Nobody}
    /\ entry \in [Tokens \X Files -> {"none", "whole", "bad"}]
    /\ pending \in [Runs -> SUBSET (Tokens \X Files)]
    /\ stray \subseteq Tokens \X Files

(* What a request may have put into the private directory: an attempt that *)
(* failed leaves what it wrote until the next one truncates it.            *)
Written(r, f) ==
    CASE item[r][f].at = "rest" -> 0
      [] item[r][f].at \in {"copy", "clear", "move", "done"} -> Size(f)
      [] OTHER -> run[r].limit

(* max_total_bytes bounds what a run stores at every moment, the requests  *)
(* under way at their worst included (update.rs: "Reserve each worker's    *)
(* worst-case file size before dispatch").                                 *)
BudgetHolds ==
    \A r \in Runs :
        run[r].total + SumFunctionOnSet([f \in Files |-> Written(r, f)], Files) <= MaxTotal

(* A published run has every file, and the API still reported its version  *)
(* when the last of them arrived: no file is from after its end.           *)
PublishedWasCurrent ==
    \A r \in Runs : run[r].phase = "published" =>
        /\ run[r].next = N + 1
        /\ run[r].arrived = run[r].pin

(* The token in the receipt is that of the catalog beside it, although the *)
(* catalog may be replaced between any two requests.                       *)
OneCatalog ==
    \A r \in Runs : run[r].phase = "published" =>
        /\ run[r].catalog = run[r].pin[2]
        /\ HasHash => run[r].hash = run[r].catalog

(* A permit is held by a request that is on the wire and by nothing else,  *)
(* whatever was retried, timed out, dropped with its batch or killed.      *)
PermitsExact ==
    /\ permits <= MaxDownloads
    /\ permits = Cardinality({p \in Runs \X Items :
                    run[p[1]].phase \in Running /\ item[p[1]][p[2]].at = "get"})

Committing(r) == {Id(r, f) : f \in {g \in Files :
                    run[r].phase = "batch" /\ item[r][g].at \in {"copy", "clear", "move"}}}

(* No run loses the temporary directory it is about to rename: only those  *)
(* of runs that are gone are reaped.                                       *)
OwnPendingStays == \A r \in Runs : Committing(r) \subseteq pending[r]

(* And they are reaped: while a run works in the cache nothing of earlier  *)
(* runs is left in it.                                                     *)
OthersReaped ==
    \A r \in Runs : owner = r /\ run[r].phase \in Running
        => \A q \in Runs \ {r} : pending[q] = {}

(* A run that works in the cache never removes a whole entry: only damage  *)
(* takes one away, or a removal that outlived the run that asked for it.   *)
EntriesSurvive ==
    [][\A id \in DOMAIN entry :
          entry[id] = "whole" /\ entry'[id] # "whole"
              => Damage(id) \/ LateRemoval(id)]_vars

(* docs/NETWORK.md of a cancelled operation: "verified cache entries       *)
(* survive".  Nothing but damage takes a whole entry away.                 *)
VerifiedSurvive ==
    [][\A id \in DOMAIN entry :
          entry[id] = "whole" /\ entry'[id] # "whole" => Damage(id)]_vars

(* Every run ends: attempts are counted and each has a timeout.            *)
Ends == \A r \in Runs : <>(run[r].phase \in {"published", "failed", "killed"})

(* What is true at every moment of runs that share the permits, the cache  *)
(* and the disk.                                                           *)
Inv == TypeOK /\ BudgetHolds /\ PermitsExact /\ OwnPendingStays /\ OthersReaped

(* What is true of a snapshot that was published.                          *)
Published == PublishedWasCurrent /\ OneCatalog
=============================================================================
