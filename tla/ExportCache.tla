---------------------------- MODULE ExportCache ----------------------------
(***************************************************************************)
(* The cache of decoded resources (src/export_cache.rs): entries on disk   *)
(* under content identities, and in memory a budget that counts them.      *)
(*                                                                         *)
(* One process at a time owns the cache (a file lock); an owner opens it,  *)
(* scans and prunes, and its workers restore and store entries under the   *)
(* budget's mutex while decoding happens outside it.  An owner may be      *)
(* killed anywhere; the next one may have other limits.                    *)
(***************************************************************************)
EXTENDS Integers, FiniteSets, Functions

CONSTANTS
    Ids, Workers,
    Opener,         \* the thread that opens the cache
    Size(_),        \* bytes of the entry of an identity, metadata included
    Limits,         \* what owners set for cache_max_bytes, cache_max_entries
    MaxTime,        \* bounds of the model: uses of entries
    MaxOpens        \* and openings

NoOne == "nobody"

ASSUME CacheAssumption ==
    /\ IsFiniteSet(Ids)
    /\ Opener \notin Workers \cup {NoOne} /\ NoOne \notin Workers
    /\ MaxTime \in Nat
    /\ \A i \in Ids : Size(i) \in Nat \ {0}
    /\ \A l \in Limits : l.bytes \in Nat \ {0} /\ l.entries \in Nat \ {0}

VARIABLES
    disk,       \* the committed entries
    pending,    \* .pending-export-* directories
    stage,      \* of the owner: "closed", "pruning" or "open"
    limit,      \* the owner's limits
    entries,    \* Budget.entries
    bytes,      \* Budget.bytes
    holder,     \* who holds the budget's mutex
    worker,     \* what each worker does
    now,        \* the clock
    opens,
    lastUse,    \* history: when each identity was last stored or restored
    broken      \* history: a replacement failed in this opening

vars == <<disk, pending, stage, limit, entries, bytes, holder, worker, now,
          opens, lastUse, broken>>

Idle == [step |-> "idle"]
Busy(step, id) == [step |-> step, id |-> id]
Put(f, k, v) == [x \in DOMAIN f \cup {k} |-> IF x = k THEN v ELSE f[x]]
Drop(f, k) == [x \in DOMAIN f \ {k} |-> f[x]]
SizeOf(f, S) == SumFunctionOnSet([i \in DOMAIN f |-> f[i].size], S)
Total(f) == SizeOf(f, DOMAIN f)

Steps == {"decoding", "decoded", "room", "copying", "replacing"}

-----------------------------------------------------------------------------
(* make_room *)

(* What the holder of the mutex makes room for: a new entry, that may      *)
(* replace an old one, or nothing when the cache is being opened.          *)
Replaced == IF holder \in Workers THEN {worker[holder].id} ELSE {}
Wanted == IF holder \in Workers THEN Size(worker[holder].id) ELSE 0

(* Mutation of Fits: the new entry is not counted. *)
FitsWithoutNew ==
    /\ bytes <= limit.bytes
    /\ Cardinality(DOMAIN entries) <= limit.entries

Fits ==
    LET old == Replaced \cap DOMAIN entries
    IN /\ bytes - SizeOf(entries, old) + Wanted <= limit.bytes
       /\ Cardinality(DOMAIN entries \ old) + Cardinality(Replaced)
              <= limit.entries

(* The least recently used of the others.                                  *)
Victims ==
    {v \in DOMAIN entries \ Replaced :
        \A o \in DOMAIN entries \ Replaced : entries[v].used <= entries[o].used}

MakingRoom ==
    \/ holder = Opener /\ stage = "pruning"
    \/ holder \in Workers /\ worker[holder].step = "room"

(* The resource of a worker fails, or the cache is not opened.             *)
Unwind ==
    /\ holder' = NoOne
    /\ IF holder = Opener
       THEN /\ stage' = "closed"
            /\ UNCHANGED worker
       ELSE /\ worker' = [worker EXCEPT ![holder] = Idle]
            /\ UNCHANGED stage

(* Mutation of Evict: the entry stays in the budget. *)
EvictCounted(v) ==
    /\ MakingRoom
    /\ ~Fits
    /\ v \in Victims
    /\ v \in DOMAIN disk
    /\ disk' = Drop(disk, v)
    /\ bytes' = bytes - entries[v].size
    /\ UNCHANGED <<pending, stage, limit, entries, holder, worker, now, opens,
                   lastUse, broken>>

Evict(v) ==
    /\ MakingRoom
    /\ ~Fits
    /\ v \in Victims
    /\ v \in DOMAIN disk
    /\ disk' = Drop(disk, v)
    /\ entries' = Drop(entries, v)
    /\ bytes' = bytes - entries[v].size
    /\ UNCHANGED <<pending, stage, limit, holder, worker, now, opens, lastUse,
                   broken>>

(* The victim is not there, or the deletion of its files fails: at once or *)
(* on the way.                                                             *)
EvictFails(v) ==
    /\ MakingRoom
    /\ ~Fits
    /\ v \in Victims
    /\ \/ UNCHANGED disk
       \/ /\ v \in DOMAIN disk
          /\ disk' = [disk EXCEPT ![v] = [size |-> 0, whole |-> FALSE, used |-> 0]]
    /\ Unwind
    /\ UNCHANGED <<pending, limit, entries, bytes, now, opens, lastUse, broken>>

-----------------------------------------------------------------------------
(* open and scan_and_prune *)

(* Mutation of Open: leftovers of a killed owner are kept. *)
OpenKeeps(l) ==
    /\ stage = "closed"
    /\ opens < MaxOpens
    /\ opens' = opens + 1
    /\ stage' = "pruning"
    /\ limit' = l
    /\ holder' = Opener
    /\ entries' = [i \in DOMAIN disk |-> [size |-> disk[i].size, used |-> disk[i].used]]
    /\ bytes' = Total(disk)
    /\ broken' = FALSE
    /\ UNCHANGED <<disk, pending, worker, now, lastUse>>

Open(l) ==
    /\ stage = "closed"
    /\ opens < MaxOpens
    /\ opens' = opens + 1
    /\ stage' = "pruning"
    /\ limit' = l
    /\ holder' = Opener
    /\ pending' = 0
    /\ entries' = [i \in DOMAIN disk |-> [size |-> disk[i].size, used |-> disk[i].used]]
    /\ bytes' = Total(disk)
    /\ broken' = FALSE
    /\ UNCHANGED <<disk, worker, now, lastUse>>

Opened ==
    /\ holder = Opener
    /\ stage = "pruning"
    /\ Fits
    /\ stage' = "open"
    /\ holder' = NoOne
    /\ UNCHANGED <<disk, pending, limit, entries, bytes, worker, now, opens,
                   lastUse, broken>>

(* The export is over: the workers have been joined.                       *)
Close ==
    /\ stage = "open"
    /\ \A w \in Workers : worker[w] = Idle
    /\ stage' = "closed"
    /\ UNCHANGED <<disk, pending, limit, entries, bytes, holder, worker, now,
                   opens, lastUse, broken>>

(* Killed: what was in memory is gone, a staging directory stays.          *)
Crash ==
    /\ stage # "closed"
    /\ stage' = "closed"
    /\ holder' = NoOne
    /\ worker' = [w \in Workers |-> Idle]
    /\ UNCHANGED <<disk, pending, limit, entries, bytes, now, opens, lastUse,
                   broken>>

-----------------------------------------------------------------------------
(* process: restore, or decode and store *)

Free(w, id) ==
    /\ stage = "open"
    /\ worker[w] = Idle
    /\ holder = NoOne
    /\ \A o \in Workers : worker[o] # Idle => worker[o].id # id

Miss(w, id) ==
    /\ Free(w, id)
    /\ id \in DOMAIN disk => ~disk[id].whole
    /\ worker' = [worker EXCEPT ![w] = Busy("decoding", id)]
    /\ UNCHANGED <<disk, pending, stage, limit, entries, bytes, holder, now,
                   opens, lastUse, broken>>

(* Mutation of Hit: the use is remembered in memory only. *)
HitForgotten(w, id) ==
    /\ Free(w, id)
    /\ id \in DOMAIN disk
    /\ disk[id].whole
    /\ now < MaxTime
    /\ now' = now + 1
    /\ entries' = [entries EXCEPT ![id].used = now']
    /\ lastUse' = [lastUse EXCEPT ![id] = now']
    /\ UNCHANGED <<disk, pending, stage, limit, bytes, holder, worker, opens,
                   broken>>

(* The copy is verified against the report and renamed into the output;    *)
(* then the use is recorded, on disk first.                                *)
Hit(w, id) ==
    /\ Free(w, id)
    /\ id \in DOMAIN disk
    /\ disk[id].whole
    /\ now < MaxTime
    /\ now' = now + 1
    /\ disk' = [disk EXCEPT ![id].used = now']
    /\ entries' = [entries EXCEPT ![id].used = now']
    /\ lastUse' = [lastUse EXCEPT ![id] = now']
    /\ UNCHANGED <<pending, stage, limit, bytes, holder, worker, opens, broken>>

Decode(w) ==
    /\ worker[w].step = "decoding"
    /\ worker' = [worker EXCEPT ![w].step = "decoded"]
    /\ UNCHANGED <<disk, pending, stage, limit, entries, bytes, holder, now,
                   opens, lastUse, broken>>

(* The decoder failed, or the run is cancelled: nothing is stored.         *)
DecodeFails(w) ==
    /\ worker[w].step \in {"decoding", "decoded"}
    /\ worker' = [worker EXCEPT ![w] = Idle]
    /\ UNCHANGED <<disk, pending, stage, limit, entries, bytes, holder, now,
                   opens, lastUse, broken>>

TooLarge(w) ==
    /\ worker[w].step = "decoded"
    /\ Size(worker[w].id) > limit.bytes
    /\ worker' = [worker EXCEPT ![w] = Idle]
    /\ UNCHANGED <<disk, pending, stage, limit, entries, bytes, holder, now,
                   opens, lastUse, broken>>

StartStore(w) ==
    /\ worker[w].step = "decoded"
    /\ Size(worker[w].id) <= limit.bytes
    /\ holder = NoOne
    /\ holder' = w
    /\ worker' = [worker EXCEPT ![w].step = "room"]
    /\ UNCHANGED <<disk, pending, stage, limit, entries, bytes, now, opens,
                   lastUse, broken>>

Stage(w) ==
    /\ worker[w].step = "room"
    /\ Fits
    /\ pending' = pending + 1
    /\ worker' = [worker EXCEPT ![w].step = "copying"]
    /\ UNCHANGED <<disk, stage, limit, entries, bytes, holder, now, opens,
                   lastUse, broken>>

(* Mutation of GiveUp: a directory that was not made is taken away. *)
GiveUpTwice(w) ==
    /\ worker[w].step \in {"room", "copying"}
    /\ pending' = pending - 1
    /\ Unwind
    /\ UNCHANGED <<disk, limit, entries, bytes, now, opens, lastUse, broken>>

(* A copy that fails, or a cancellation: the staging directory goes.       *)
GiveUp(w) ==
    /\ worker[w].step \in {"room", "copying"}
    /\ pending' = IF worker[w].step = "copying" THEN pending - 1 ELSE pending
    /\ Unwind
    /\ UNCHANGED <<disk, limit, entries, bytes, now, opens, lastUse, broken>>

(* The copy is synced; a damaged entry that is in the way goes first.      *)
RemoveOld(w) ==
    /\ worker[w].step = "copying"
    /\ disk' = Drop(disk, worker[w].id)
    /\ worker' = [worker EXCEPT ![w].step = "replacing"]
    /\ UNCHANGED <<pending, stage, limit, entries, bytes, holder, now, opens,
                   lastUse, broken>>

(* Mutation of Commit: the bytes of the entry that was replaced stay. *)
CommitAdds(w) ==
    LET id == worker[w].id IN
    /\ worker[w].step = "replacing"
    /\ now < MaxTime
    /\ now' = now + 1
    /\ disk' = Put(disk, id, [size |-> Size(id), whole |-> TRUE, used |-> now'])
    /\ pending' = pending - 1
    /\ entries' = Put(entries, id, [size |-> Size(id), used |-> now'])
    /\ bytes' = bytes + Size(id)
    /\ lastUse' = [lastUse EXCEPT ![id] = now']
    /\ Unwind
    /\ UNCHANGED <<limit, opens, broken>>

Commit(w) ==
    LET id == worker[w].id
        old == {id} \cap DOMAIN entries
    IN
    /\ worker[w].step = "replacing"
    /\ now < MaxTime
    /\ now' = now + 1
    /\ disk' = Put(disk, id, [size |-> Size(id), whole |-> TRUE, used |-> now'])
    /\ pending' = pending - 1
    /\ entries' = Put(entries, id, [size |-> Size(id), used |-> now'])
    /\ bytes' = bytes - SizeOf(entries, old) + Size(id)
    /\ lastUse' = [lastUse EXCEPT ![id] = now']
    /\ Unwind
    /\ UNCHANGED <<limit, opens, broken>>

(* The rename fails: the budget still counts what has been removed.        *)
CommitFails(w) ==
    /\ worker[w].step = "replacing"
    /\ pending' = pending - 1
    /\ broken' = TRUE
    /\ Unwind
    /\ UNCHANGED <<disk, limit, entries, bytes, now, opens, lastUse>>

(* The disk loses bits of an entry that nobody is writing.                 *)
Damage(id) ==
    /\ id \in DOMAIN disk
    /\ disk[id].whole
    /\ disk' = [disk EXCEPT ![id].whole = FALSE]
    /\ UNCHANGED <<pending, stage, limit, entries, bytes, holder, worker, now,
                   opens, lastUse, broken>>

Init ==
    /\ disk = <<>>
    /\ pending = 0
    /\ stage = "closed"
    /\ limit \in Limits
    /\ entries = <<>>
    /\ bytes = 0
    /\ holder = NoOne
    /\ worker = [w \in Workers |-> Idle]
    /\ now = 0
    /\ opens = 0
    /\ lastUse = [i \in Ids |-> 0]
    /\ broken = FALSE

Next ==
    \/ \E l \in Limits : Open(l)
    \/ Opened \/ Close \/ Crash
    \/ \E i \in Ids : Evict(i) \/ EvictFails(i) \/ Damage(i)
    \/ \E w \in Workers, i \in Ids : Miss(w, i) \/ Hit(w, i)
    \/ \E w \in Workers :
        \/ Decode(w) \/ DecodeFails(w) \/ TooLarge(w) \/ StartStore(w)
        \/ Stage(w) \/ GiveUp(w) \/ RemoveOld(w) \/ Commit(w) \/ CommitFails(w)

Spec == Init /\ [][Next]_vars

-----------------------------------------------------------------------------
(* Properties *)

Times == 0 .. MaxTime

(* Every variable is what the code can hold.                               *)
TypeOK ==
    /\ DOMAIN disk \subseteq Ids
    /\ \A i \in DOMAIN disk : disk[i] \in [size: Nat, whole: BOOLEAN, used: Times]
    /\ pending \in Nat
    /\ stage \in {"closed", "pruning", "open"}
    /\ limit \in Limits
    /\ DOMAIN entries \subseteq Ids
    /\ \A i \in DOMAIN entries : entries[i] \in [size: Nat, used: Times]
    /\ bytes \in Nat
    /\ holder \in Workers \cup {NoOne, Opener}
    /\ worker \in [Workers -> {Idle} \cup [step: Steps, id: Ids]]

(* docs/EXPORT_CACHE.md: the limits bound the committed entries.  While    *)
(* the cache is open, at every step of every insertion, what is on disk is *)
(* within them, whatever failed before.                                    *)
WithinLimits ==
    stage = "open" =>
        /\ Total(disk) <= limit.bytes
        /\ Cardinality(DOMAIN disk) <= limit.entries

(* The budget may count what is gone, never less than there is: every      *)
(* entry on disk is counted with at least its size, and the sum is exact.  *)
NeverUndercounts ==
    stage = "open" =>
        /\ \A i \in DOMAIN disk : i \in DOMAIN entries /\ disk[i].size <= entries[i].size
        /\ bytes = Total(entries)

(* Room can always be made by evicting, unless a failed replacement left   *)
(* an identity in the budget that is not on disk: then the eviction of     *)
(* that one fails every store that needs it, until the cache is reopened.  *)
RoomUnlessBroken ==
    MakingRoom /\ ~Fits => Victims # {} /\ (Victims \subseteq DOMAIN disk \/ broken)

(* An open cache holds the staging directory of the store under way and no *)
(* other: what killed owners left has been removed.                        *)
NoLeftovers ==
    stage = "open" =>
        pending = IF holder \in Workers /\ worker[holder].step \in {"copying", "replacing"}
                  THEN 1 ELSE 0

(* Evictions follow the last use, across restarts: an entry is never       *)
(* evicted while an intact one that was used before it stays.              *)
EvictsOldest ==
    [][\A v \in DOMAIN entries \ DOMAIN entries' :
          stage' # "closed" /\ stage # "closed" =>
            \A o \in DOMAIN disk' \ Replaced :
                disk[v].whole /\ disk[o].whole => lastUse[v] <= lastUse[o]]_vars
(* The state of an open cache: limits, accounts and staging directories.   *)
Inv == TypeOK /\ WithinLimits /\ NeverUndercounts /\ RoomUnlessBroken /\ NoLeftovers
=============================================================================
