------------------------- MODULE ExportCache_proofs -------------------------
(***************************************************************************)
(* The cache of decoded resources, proved for every set of identities,     *)
(* every size, any number of workers and any limits of the owners.         *)
(***************************************************************************)
EXTENDS ExportCache, Sums

Storing == {"room", "copying", "replacing"}

Types ==
    /\ TypeOK
    /\ now \in Times
    /\ lastUse \in [Ids -> Times]

(* The mutex of the budget: the opener has it while it prunes, a worker    *)
(* from the start of a store to its end.                                   *)
Mutex ==
    /\ holder = Opener <=> stage = "pruning"
    /\ \A w \in Workers : holder = w <=> worker[w].step \in Storing
    /\ stage # "open" => \A w \in Workers : worker[w] = Idle

(* The budget counts what is there, and in an open cache it is kept.       *)
Accounts ==
    stage # "closed" =>
        /\ \A i \in DOMAIN disk : i \in DOMAIN entries /\ disk[i].size <= entries[i].size
        /\ bytes = Total(entries)

Limited ==
    stage = "open" => bytes <= limit.bytes /\ Cardinality(DOMAIN entries) <= limit.entries

(* What a store has made room for fits until it is committed.              *)
RoomMade ==
    \A w \in Workers :
        /\ worker[w].step \in Storing => Size(worker[w].id) <= limit.bytes
        /\ worker[w].step \in {"copying", "replacing"} => Fits

(* Nothing counted is missing, but the entry that is being replaced.       *)
Present ==
    stage # "closed" /\ ~broken =>
        \A i \in DOMAIN entries :
            i \in DOMAIN disk \/ \E w \in Workers : worker[w] = Busy("replacing", i)

Staged ==
    stage # "closed" =>
        pending = IF holder \in Workers /\ worker[holder].step \in {"copying", "replacing"}
                  THEN 1 ELSE 0

(* An intact entry remembers its last use, on disk and in the budget.      *)
Uses ==
    \A i \in DOMAIN disk : disk[i].whole =>
        /\ disk[i].used = lastUse[i]
        /\ stage # "closed" => i \in DOMAIN entries /\ entries[i].used = lastUse[i]

IInv == Types /\ Mutex /\ Accounts /\ Limited /\ RoomMade /\ Present /\ Staged /\ Uses

-----------------------------------------------------------------------------
(* Sums of sizes *)

Sized(f) == DOMAIN f \subseteq Ids /\ \A i \in DOMAIN f : f[i].size \in Nat

LEMMA FiniteEntries ==
    ASSUME NEW f, Sized(f), NEW S \in SUBSET DOMAIN f
    PROVE  IsFiniteSet(S)
BY CacheAssumption, FS_Subset DEF Sized

LEMMA SizeType ==
    ASSUME NEW f, Sized(f), NEW S \in SUBSET DOMAIN f
    PROVE  SizeOf(f, S) \in Nat
<1> DEFINE W == [i \in DOMAIN f |-> f[i].size]
<1>1. \A i \in S : W[i] \in Nat
    BY DEF Sized
<1>2. IsFiniteSet(S)
    BY FiniteEntries
<1> HIDE DEF W
<1>3. SumFunctionOnSet(W, S) \in Nat
    BY <1>1, <1>2, SumNat
<1> QED BY <1>3 DEF W, SizeOf

LEMMA SizeNone == ASSUME NEW f PROVE SizeOf(f, {}) = 0
BY SumEmpty DEF SizeOf

LEMMA SizeApart ==
    ASSUME NEW f, Sized(f), NEW S \in SUBSET DOMAIN f, NEW x \in S
    PROVE  SizeOf(f, S) = f[x].size + SizeOf(f, S \ {x})
<1> DEFINE W == [i \in DOMAIN f |-> f[i].size]
<1>1. \A i \in S : W[i] \in Int
    BY DEF Sized
<1>2. IsFiniteSet(S)
    BY FiniteEntries
<1>3. W[x] = f[x].size
    OBVIOUS
<1> HIDE DEF W
<1>4. SumFunctionOnSet(W, S) = W[x] + SumFunctionOnSet(W, S \ {x})
    BY <1>1, <1>2, SumRemove
<1> QED BY <1>3, <1>4 DEF W, SizeOf

LEMMA SizeSame ==
    ASSUME NEW f, NEW g, Sized(f), NEW S, S \subseteq DOMAIN f, S \subseteq DOMAIN g,
           \A i \in S : f[i].size = g[i].size
    PROVE  SizeOf(f, S) = SizeOf(g, S)
<1> DEFINE W == [i \in DOMAIN f |-> f[i].size]
           V == [i \in DOMAIN g |-> g[i].size]
<1>1. \A i \in S : W[i] = V[i]
    OBVIOUS
<1>2. IsFiniteSet(S)
    BY FiniteEntries
<1> HIDE DEF W, V
<1>3. SumFunctionOnSet(W, S) = SumFunctionOnSet(V, S)
    BY <1>1, <1>2, SumSame
<1> QED BY <1>3 DEF W, V, SizeOf

LEMMA SizeBelow ==
    ASSUME NEW f, NEW g, Sized(f), Sized(g), DOMAIN f \subseteq DOMAIN g,
           \A i \in DOMAIN f : f[i].size <= g[i].size
    PROVE  Total(f) <= Total(g)
<1> DEFINE W == [i \in DOMAIN f |-> f[i].size]
           V == [i \in DOMAIN g |-> g[i].size]
           R == DOMAIN f
           S == DOMAIN g
<1>1. /\ \A i \in R : W[i] \in Nat /\ W[i] <= V[i]
      /\ \A i \in S : V[i] \in Nat
      /\ R \in SUBSET S
    BY DEF Sized
<1>2. IsFiniteSet(S)
    BY FiniteEntries
<1> HIDE DEF W, V, R, S
<1>3. SumFunctionOnSet(W, R) <= SumFunctionOnSet(V, S)
    BY <1>1, <1>2, SumMonotone
<1> QED BY <1>3 DEF W, V, R, S, Total, SizeOf

LEMMA TotalDrop ==
    ASSUME NEW f, Sized(f), NEW v \in DOMAIN f
    PROVE  Total(Drop(f, v)) = Total(f) - f[v].size
<1> DEFINE g == Drop(f, v)
           S == DOMAIN f \ {v}
<1>1. DOMAIN g = S /\ \A i \in S : g[i] = f[i]
    BY DEF Drop
<1>2. Total(f) = f[v].size + SizeOf(f, S)
    BY SizeApart DEF Total
<1>3. f[v].size \in Nat /\ SizeOf(f, S) \in Nat
    BY SizeType DEF Sized
<1> HIDE DEF g
<1>4. SizeOf(f, S) = SizeOf(g, S)
    BY <1>1, SizeSame
<1>5. Total(g) = SizeOf(g, S)
    BY <1>1 DEF Total
<1>6. Total(g) = Total(f) - f[v].size
    BY <1>2, <1>3, <1>4, <1>5
<1> QED BY <1>6 DEF g

LEMMA TotalPut ==
    ASSUME NEW f, Sized(f), NEW k \in Ids, NEW v, v.size \in Nat
    PROVE  Total(Put(f, k, v)) = Total(f) - SizeOf(f, {k} \cap DOMAIN f) + v.size
<1> DEFINE g == Put(f, k, v)
           S == DOMAIN f \ {k}
<1>1. DOMAIN g = DOMAIN f \cup {k} /\ g[k] = v /\ \A i \in S : g[i] = f[i]
    BY DEF Put
<1>2. Sized(g)
    BY <1>1 DEF Sized
<1> HIDE DEF g
<1>3. Total(g) = v.size + SizeOf(g, S)
    <2>1. DOMAIN g \ {k} = S
        BY <1>1
    <2> QED BY <1>1, <1>2, <2>1, SizeApart DEF Total
<1>4. SizeOf(g, S) = SizeOf(f, S)
    BY <1>1, SizeSame
<1>5. Total(f) = SizeOf(f, {k} \cap DOMAIN f) + SizeOf(f, S)
    <2>1. CASE k \in DOMAIN f
        <3>1. SizeOf(f, {k}) = f[k].size + SizeOf(f, {k} \ {k})
            BY <2>1, SizeApart
        <3>2. SizeOf(f, {k}) = f[k].size
            <4>1. f[k].size \in Nat /\ {k} \ {k} = {}
                BY <2>1 DEF Sized
            <4> QED BY <3>1, <4>1, SizeNone
        <3>3. {k} \cap DOMAIN f = {k}
            BY <2>1
        <3> QED BY <2>1, <3>2, <3>3, SizeApart DEF Total
    <2>2. CASE k \notin DOMAIN f
        <3>1. {k} \cap DOMAIN f = {} /\ S = DOMAIN f
            BY <2>2
        <3>2. SizeOf(f, S) \in Nat
            BY SizeType
        <3> QED BY <3>1, <3>2, SizeNone DEF Total
    <2> QED BY <2>1, <2>2
<1>6. SizeOf(f, S) \in Nat /\ SizeOf(f, {k} \cap DOMAIN f) \in Nat
    BY SizeType
<1>7. Total(g) = Total(f) - SizeOf(f, {k} \cap DOMAIN f) + v.size
    BY <1>3, <1>4, <1>5, <1>6
<1> QED BY <1>7 DEF g

-----------------------------------------------------------------------------
(* What the invariant says of the two copies and of a worker *)

LEMMA SizedCopies ==
    ASSUME TypeOK
    PROVE  Sized(disk) /\ Sized(entries)
BY DEF TypeOK, Sized

LEMMA LimitType ==
    ASSUME TypeOK
    PROVE  limit.bytes \in Nat \ {0} /\ limit.entries \in Nat \ {0}
BY CacheAssumption DEF TypeOK

(* A worker that does something has an identity.                           *)
LEMMA WorkerShape ==
    ASSUME TypeOK, NEW w \in Workers
    PROVE  /\ Idle.step \notin Steps
           /\ worker[w] = Idle \/ worker[w] \in [step: Steps, id: Ids]
           /\ worker[w].step \in Steps =>
                 /\ worker[w] # Idle
                 /\ worker[w].id \in Ids
                 /\ worker[w] = Busy(worker[w].step, worker[w].id)
                 /\ Size(worker[w].id) \in Nat \ {0}
<1>1. Idle.step \notin Steps
    BY DEF Idle, Steps
<1>2. worker[w] = Idle \/ worker[w] \in [step: Steps, id: Ids]
    BY DEF TypeOK
<1> QED BY <1>1, <1>2, CacheAssumption DEF Busy

(* A worker takes its next step, or is idle again.                         *)
LEMMA StepTaken ==
    ASSUME TypeOK, NEW w \in Workers, NEW s \in Steps, worker[w].step \in Steps,
           worker' = [worker EXCEPT ![w].step = s]
    PROVE  worker' = [worker EXCEPT ![w] = Busy(s, worker[w].id)]
<1>1. worker[w] = Busy(worker[w].step, worker[w].id)
    BY WorkerShape
<1>2. [worker[w] EXCEPT !.step = s] = Busy(s, worker[w].id)
    BY <1>1 DEF Busy
<1> QED BY <1>2

LEMMA WorkerMoves ==
    ASSUME TypeOK, NEW w \in Workers, NEW v \in {Idle} \cup [step: Steps, id: Ids],
           worker' = [worker EXCEPT ![w] = v]
    PROVE  /\ worker' \in [Workers -> {Idle} \cup [step: Steps, id: Ids]]
           /\ worker'[w] = v /\ \A o \in Workers \ {w} : worker'[o] = worker[o]
BY DEF TypeOK

-----------------------------------------------------------------------------
(* Workers that do not hold the mutex *)

LEMMA FitsSame ==
    ASSUME UNCHANGED <<bytes, entries, limit, holder>>,
           holder \in Workers => worker'[holder].id = worker[holder].id
    PROVE  Fits' = Fits
BY DEF Fits, Replaced, Wanted

LEMMA NotStoring ==
    ASSUME IInv, NEW w \in Workers, worker[w].step \notin Storing
    PROVE  holder # w
BY DEF IInv, Mutex

LEMMA AsideKeeps ==
    ASSUME IInv, NEW w \in Workers, NEW v \in {Idle} \cup [step: Steps, id: Ids],
           stage = "open", worker[w].step \notin Storing, v.step \notin Storing,
           worker' = [worker EXCEPT ![w] = v],
           UNCHANGED <<disk, pending, stage, limit, entries, bytes, holder, now, lastUse, broken>>
    PROVE  IInv'
<1>1. /\ worker' \in [Workers -> {Idle} \cup [step: Steps, id: Ids]]
      /\ worker'[w] = v /\ \A o \in Workers \ {w} : worker'[o] = worker[o]
    BY WorkerMoves DEF IInv, Types
<1>2. holder # w
    BY NotStoring
<1>3. Types'
    BY <1>1 DEF IInv, Types, TypeOK
<1>4. Mutex'
    <2>1. holder' = Opener <=> stage' = "pruning"
        BY DEF IInv, Mutex
    <2>2. \A o \in Workers : holder' = o <=> worker'[o].step \in Storing
        BY <1>1, <1>2 DEF IInv, Mutex
    <2> QED BY <2>1, <2>2 DEF Mutex
<1>5. Accounts' /\ Limited'
    BY DEF IInv, Accounts, Limited
<1>6. Fits' = Fits
    BY <1>1, <1>2, FitsSame
<1>7. RoomMade'
    BY <1>1, <1>6 DEF IInv, RoomMade, Storing
<1>8. Present'
    <2>1. \A i : worker[w] # Busy("replacing", i)
        BY DEF Busy, Storing
    <2> QED BY <1>1, <2>1 DEF IInv, Present
<1>9. Staged'
    BY <1>1, <1>2 DEF IInv, Staged
<1>10. Uses'
    BY DEF IInv, Uses
<1> QED BY <1>3, <1>4, <1>5, <1>7, <1>8, <1>9, <1>10 DEF IInv

(* A worker that does something works for an open cache.                   *)
LEMMA BusyOpen ==
    ASSUME IInv, NEW w \in Workers, worker[w].step \in Steps
    PROVE  stage = "open" /\ worker[w].id \in Ids
BY WorkerShape DEF IInv, Types, Mutex

LEMMA AsideStep ==
    ASSUME IInv, NEW w \in Workers, NEW id \in Ids,
           Miss(w, id) \/ Decode(w) \/ DecodeFails(w) \/ TooLarge(w)
    PROVE  IInv'
<1>1. CASE Miss(w, id)
    <2>1. Busy("decoding", id) \in [step: Steps, id: Ids] /\ Busy("decoding", id).step \notin Storing
        BY DEF Busy, Steps, Storing
    <2>2. stage = "open" /\ worker[w].step \notin Storing
        BY <1>1 DEF Miss, Free, Idle, Storing
    <2>3. /\ worker' = [worker EXCEPT ![w] = Busy("decoding", id)]
          /\ UNCHANGED <<disk, pending, stage, limit, entries, bytes, holder, now, lastUse, broken>>
        BY <1>1 DEF Miss
    <2> QED BY <2>1, <2>2, <2>3, AsideKeeps
<1>2. CASE Decode(w)
    <2>1. worker[w].step = "decoding" /\ "decoding" \in Steps /\ "decoded" \in Steps
        BY <1>2 DEF Decode, Steps
    <2>2. stage = "open" /\ worker[w].id \in Ids
        BY <2>1, BusyOpen
    <2>3. worker' = [worker EXCEPT ![w] = Busy("decoded", worker[w].id)]
        BY <1>2, <2>1, StepTaken DEF Decode, IInv, Types
    <2>4. /\ Busy("decoded", worker[w].id) \in [step: Steps, id: Ids]
          /\ Busy("decoded", worker[w].id).step \notin Storing /\ worker[w].step \notin Storing
        BY <2>1, <2>2 DEF Busy, Storing
    <2>5. UNCHANGED <<disk, pending, stage, limit, entries, bytes, holder, now, lastUse, broken>>
        BY <1>2 DEF Decode
    <2> QED BY <2>2, <2>3, <2>4, <2>5, AsideKeeps
<1>3. CASE DecodeFails(w) \/ TooLarge(w)
    <2>1. worker[w].step \in {"decoding", "decoded"}
        BY <1>3 DEF DecodeFails, TooLarge
    <2>2. stage = "open" /\ worker[w].step \notin Storing
        <3>1. worker[w].step \in Steps
            BY <2>1 DEF Steps
        <3> QED BY <2>1, <3>1, BusyOpen DEF Storing
    <2>3. Idle.step \notin Storing
        BY DEF Idle, Storing
    <2>4. /\ worker' = [worker EXCEPT ![w] = Idle]
          /\ UNCHANGED <<disk, pending, stage, limit, entries, bytes, holder, now, lastUse, broken>>
        BY <1>3 DEF DecodeFails, TooLarge
    <2> QED BY <2>2, <2>3, <2>4, AsideKeeps
<1> QED BY <1>1, <1>2, <1>3

-----------------------------------------------------------------------------
(* A store *)

LEMMA StartStoreKeeps ==
    ASSUME IInv, NEW w \in Workers, StartStore(w)
    PROVE  IInv'
<1>1. /\ worker[w].step = "decoded" /\ holder = NoOne /\ holder' = w
      /\ Size(worker[w].id) <= limit.bytes
      /\ UNCHANGED <<disk, pending, stage, limit, entries, bytes, now, lastUse, broken>>
    BY DEF StartStore
<1>2. "decoded" \in Steps /\ "room" \in Steps
    BY DEF Steps
<1>3. stage = "open" /\ worker[w].id \in Ids
    BY <1>1, <1>2, BusyOpen
<1> DEFINE v == Busy("room", worker[w].id)
<1>4. v \in [step: Steps, id: Ids] /\ v.step = "room" /\ v.id = worker[w].id
    BY <1>2, <1>3 DEF Busy
<1>5. worker' = [worker EXCEPT ![w] = v]
    BY <1>1, <1>2, StepTaken DEF StartStore, IInv, Types
<1> HIDE DEF v
<1>6. /\ worker' \in [Workers -> {Idle} \cup [step: Steps, id: Ids]]
      /\ worker'[w] = v /\ \A o \in Workers \ {w} : worker'[o] = worker[o]
    BY <1>4, <1>5, WorkerMoves DEF IInv, Types
<1>7. \A o \in Workers : worker[o].step \notin Storing
    BY <1>1, CacheAssumption DEF IInv, Mutex
<1>8. Types'
    BY <1>1, <1>6 DEF IInv, Types, TypeOK
<1>9. Mutex'
    BY <1>1, <1>3, <1>4, <1>6, <1>7, CacheAssumption DEF Mutex, Storing
<1>10. Accounts' /\ Limited' /\ Uses'
    BY <1>1 DEF IInv, Accounts, Limited, Uses
<1>11. RoomMade'
    BY <1>1, <1>4, <1>6, <1>7 DEF RoomMade, Storing
<1>12. Present'
    <2>1. \A i : \A o \in Workers : worker[o] # Busy("replacing", i)
        BY <1>7 DEF Busy, Storing
    <2> QED BY <1>1, <2>1 DEF IInv, Present
<1>13. Staged'
    BY <1>1, <1>4, <1>6, CacheAssumption DEF IInv, Staged
<1> QED BY <1>8, <1>9, <1>10, <1>11, <1>12, <1>13 DEF IInv

(* The store goes on: its holder takes the next step.                      *)
LEMMA HolderMoves ==
    ASSUME IInv, NEW w \in Workers, worker[w].step \in Storing,
           NEW s \in Storing, worker' = [worker EXCEPT ![w].step = s]
    PROVE  /\ worker' \in [Workers -> {Idle} \cup [step: Steps, id: Ids]]
           /\ worker'[w] = Busy(s, worker[w].id)
           /\ worker'[w].step = s /\ worker'[w].id = worker[w].id
           /\ \A o \in Workers \ {w} : worker'[o] = worker[o] /\ worker[o].step \notin Storing
           /\ holder = w /\ stage = "open" /\ worker[w].id \in Ids
<1>1. Storing \subseteq Steps
    BY DEF Steps, Storing
<1>2. stage = "open" /\ worker[w].id \in Ids
    BY <1>1, BusyOpen
<1>3. Busy(s, worker[w].id) \in [step: Steps, id: Ids]
    BY <1>1, <1>2 DEF Busy
<1>4. worker' = [worker EXCEPT ![w] = Busy(s, worker[w].id)]
    BY <1>1, StepTaken DEF IInv, Types
<1>5. holder = w /\ \A o \in Workers \ {w} : worker[o].step \notin Storing
    BY DEF IInv, Mutex
<1>6. Busy(s, worker[w].id).step = s /\ Busy(s, worker[w].id).id = worker[w].id
    BY DEF Busy
<1>7. /\ worker' \in [Workers -> {Idle} \cup [step: Steps, id: Ids]]
      /\ worker'[w] = Busy(s, worker[w].id)
      /\ \A o \in Workers \ {w} : worker'[o] = worker[o]
    BY <1>3, <1>4, WorkerMoves DEF IInv, Types
<1> QED BY <1>2, <1>5, <1>6, <1>7

LEMMA StageKeeps ==
    ASSUME IInv, NEW w \in Workers, Stage(w)
    PROVE  IInv'
<1>1. /\ worker[w].step = "room" /\ Fits /\ pending' = pending + 1
      /\ worker' = [worker EXCEPT ![w].step = "copying"]
      /\ UNCHANGED <<disk, stage, limit, entries, bytes, holder, now, lastUse, broken>>
    BY DEF Stage
<1>2. /\ worker' \in [Workers -> {Idle} \cup [step: Steps, id: Ids]]
      /\ worker'[w].step = "copying" /\ worker'[w].id = worker[w].id
      /\ \A o \in Workers \ {w} : worker'[o] = worker[o] /\ worker[o].step \notin Storing
      /\ holder = w /\ stage = "open"
    BY <1>1, HolderMoves DEF Storing
<1>3. pending = 0
    BY <1>1, <1>2 DEF IInv, Staged
<1>4. Types'
    BY <1>1, <1>2, <1>3 DEF IInv, Types, TypeOK
<1>5. Mutex'
    BY <1>1, <1>2, CacheAssumption DEF Mutex, Storing
<1>6. Accounts' /\ Limited' /\ Uses'
    BY <1>1 DEF IInv, Accounts, Limited, Uses
<1>7. RoomMade'
    <2>1. Fits'
        BY <1>1, <1>2, FitsSame
    <2>2. Size(worker[w].id) <= limit.bytes
        BY <1>1 DEF IInv, RoomMade, Storing
    <2> QED BY <1>1, <1>2, <2>1, <2>2 DEF RoomMade, Storing
<1>8. Present'
    <2>1. \A i : \A o \in Workers : worker[o] # Busy("replacing", i)
        BY <1>1, <1>2 DEF Busy, Storing
    <2> QED BY <1>1, <2>1 DEF IInv, Present
<1>9. Staged'
    BY <1>1, <1>2, <1>3 DEF Staged
<1> QED BY <1>4, <1>5, <1>6, <1>7, <1>8, <1>9 DEF IInv

LEMMA RemoveOldKeeps ==
    ASSUME IInv, NEW w \in Workers, RemoveOld(w)
    PROVE  IInv'
<1> DEFINE id == worker[w].id
<1>1. /\ worker[w].step = "copying" /\ disk' = Drop(disk, id)
      /\ worker' = [worker EXCEPT ![w].step = "replacing"]
      /\ UNCHANGED <<pending, stage, limit, entries, bytes, holder, now, lastUse, broken>>
    BY DEF RemoveOld
<1>2. /\ worker' \in [Workers -> {Idle} \cup [step: Steps, id: Ids]]
      /\ worker'[w] = Busy("replacing", id)
      /\ worker'[w].step = "replacing" /\ worker'[w].id = id
      /\ \A o \in Workers \ {w} : worker'[o] = worker[o] /\ worker[o].step \notin Storing
      /\ holder = w /\ stage = "open"
    BY <1>1, HolderMoves DEF Storing
<1> HIDE DEF id
<1>3. DOMAIN disk' = DOMAIN disk \ {id} /\ \A i \in DOMAIN disk' : disk'[i] = disk[i]
    BY <1>1 DEF Drop
<1>4. Types'
    BY <1>1, <1>2, <1>3 DEF IInv, Types, TypeOK
<1>5. Mutex'
    BY <1>1, <1>2, CacheAssumption DEF Mutex, Storing
<1>6. Accounts' /\ Limited' /\ Uses'
    BY <1>1, <1>3 DEF IInv, Accounts, Limited, Uses
<1>7. RoomMade'
    <2>1. Fits'
        BY <1>1, <1>2, FitsSame DEF IInv, RoomMade, id
    <2>2. Size(worker[w].id) <= limit.bytes
        BY <1>1 DEF IInv, RoomMade, Storing
    <2> QED BY <1>1, <1>2, <2>1, <2>2 DEF RoomMade, Storing, id
<1>8. Present'
    <2>1. \A i : \A o \in Workers : worker[o] # Busy("replacing", i)
        BY <1>1, <1>2 DEF Busy, Storing
    <2> QED BY <1>1, <1>2, <1>3, <2>1 DEF IInv, Present
<1>9. Staged'
    BY <1>1, <1>2 DEF IInv, Staged
<1> QED BY <1>4, <1>5, <1>6, <1>7, <1>8, <1>9 DEF IInv

-----------------------------------------------------------------------------
(* The holder of the mutex lets go *)

LEMMA Unwound ==
    ASSUME IInv, Unwind, holder # NoOne
    PROVE  /\ worker' \in [Workers -> {Idle} \cup [step: Steps, id: Ids]]
           /\ stage' \in {"closed", "pruning", "open"} /\ holder' = NoOne
           /\ Mutex' /\ RoomMade'
           /\ \A o \in Workers : worker'[o].step \notin Storing
           /\ stage' # "closed" => holder \in Workers /\ stage = "open"
<1>1. holder \in Workers \cup {Opener} /\ holder' = NoOne
    BY DEF IInv, Types, TypeOK, Unwind
<1>2. CASE holder = Opener
    <2>1. stage' = "closed" /\ worker' = worker
        BY <1>2 DEF Unwind
    <2>2. \A o \in Workers : worker[o] = Idle /\ worker[o].step \notin Storing
        BY <1>2 DEF IInv, Mutex, Idle, Storing
    <2>3. Mutex'
        BY <1>1, <2>1, <2>2, CacheAssumption DEF Mutex
    <2>4. RoomMade'
        BY <2>1, <2>2 DEF RoomMade, Storing
    <2> QED BY <1>1, <2>1, <2>2, <2>3, <2>4 DEF IInv, Types, TypeOK
<1>3. CASE holder \in Workers
    <2>1. worker' = [worker EXCEPT ![holder] = Idle] /\ stage' = stage
        BY <1>3, CacheAssumption DEF Unwind
    <2>2. /\ worker' \in [Workers -> {Idle} \cup [step: Steps, id: Ids]]
          /\ worker'[holder] = Idle
          /\ \A o \in Workers \ {holder} : worker'[o] = worker[o]
        BY <1>3, <2>1, WorkerMoves DEF IInv, Types
    <2>3. worker[holder].step \in Storing /\ \A o \in Workers \ {holder} : worker[o].step \notin Storing
        BY <1>3 DEF IInv, Mutex
    <2>4. \A o \in Workers : worker'[o].step \notin Storing
        BY <2>2, <2>3 DEF Idle, Storing
    <2>5. stage = "open"
        <3>1. worker[holder].step \in Steps
            BY <2>3 DEF Storing, Steps
        <3> QED BY <1>3, <3>1, BusyOpen
    <2>6. Mutex'
        BY <1>1, <2>1, <2>4, <2>5, CacheAssumption DEF Mutex
    <2>7. RoomMade'
        BY <2>4 DEF RoomMade, Storing
    <2> QED BY <1>1, <1>3, <2>1, <2>2, <2>4, <2>5, <2>6, <2>7
<1> QED BY <1>1, <1>2, <1>3

LEMMA HoldsMutex ==
    ASSUME IInv, NEW w \in Workers, worker[w].step \in Storing
    PROVE  holder = w /\ holder # NoOne /\ stage = "open"
<1>1. worker[w].step \in Steps
    BY DEF Storing, Steps
<1> QED BY <1>1, BusyOpen, CacheAssumption DEF IInv, Mutex

(* Nothing that is missing is counted, unless it is being replaced.        *)
LEMMA AllPresent ==
    ASSUME IInv, stage # "closed", ~broken, \A w \in Workers : worker[w].step # "replacing"
    PROVE  DOMAIN entries \subseteq DOMAIN disk
<1>1. \A i : \A w \in Workers : worker[w] # Busy("replacing", i)
    BY DEF Busy
<1> QED BY <1>1 DEF IInv, Present

LEMMA GiveUpKeeps ==
    ASSUME IInv, NEW w \in Workers, GiveUp(w)
    PROVE  IInv'
<1>1. /\ worker[w].step \in {"room", "copying"} /\ Unwind
      /\ pending' = IF worker[w].step = "copying" THEN pending - 1 ELSE pending
      /\ UNCHANGED <<disk, limit, entries, bytes, now, lastUse, broken>>
    BY DEF GiveUp
<1>2. holder = w /\ holder # NoOne /\ stage = "open"
    BY <1>1, HoldsMutex DEF Storing
<1>3. pending' = 0
    BY <1>1, <1>2 DEF IInv, Staged
<1>4. Mutex' /\ RoomMade'
    BY <1>1, <1>2, Unwound
<1>5. Types'
    BY <1>1, <1>2, <1>3, Unwound DEF IInv, Types, TypeOK
<1>6. Accounts' /\ Limited' /\ Uses'
    BY <1>1, <1>2 DEF IInv, Accounts, Limited, Uses
<1>7. Present'
    <2>1. \A o \in Workers : worker[o].step # "replacing"
        BY <1>1, <1>2 DEF IInv, Mutex, Storing
    <2>2. ~broken => DOMAIN entries \subseteq DOMAIN disk
        BY <1>2, <2>1, AllPresent
    <2> QED BY <1>1, <2>2 DEF Present
<1>8. Staged'
    BY <1>1, <1>2, <1>3, Unwound, CacheAssumption DEF Staged
<1> QED BY <1>4, <1>5, <1>6, <1>7, <1>8 DEF IInv

LEMMA CommitFailsKeeps ==
    ASSUME IInv, NEW w \in Workers, CommitFails(w)
    PROVE  IInv'
<1>1. /\ worker[w].step = "replacing" /\ Unwind /\ pending' = pending - 1 /\ broken' = TRUE
      /\ UNCHANGED <<disk, limit, entries, bytes, now, lastUse>>
    BY DEF CommitFails
<1>2. holder = w /\ holder # NoOne /\ stage = "open"
    BY <1>1, HoldsMutex DEF Storing
<1>3. pending' = 0
    BY <1>1, <1>2 DEF IInv, Staged
<1>4. Mutex' /\ RoomMade'
    BY <1>1, <1>2, Unwound
<1>5. Types'
    BY <1>1, <1>2, <1>3, Unwound DEF IInv, Types, TypeOK
<1>6. Accounts' /\ Limited' /\ Uses'
    BY <1>1, <1>2 DEF IInv, Accounts, Limited, Uses
<1>7. Present'
    BY <1>1 DEF Present
<1>8. Staged'
    BY <1>1, <1>2, <1>3, Unwound, CacheAssumption DEF Staged
<1> QED BY <1>4, <1>5, <1>6, <1>7, <1>8 DEF IInv

(* The entry that a commit puts has room, and the budget says what it was  *)
(* before with the old entry of the identity in exchange for the new one.  *)
LEMMA CommitKeeps ==
    ASSUME IInv, NEW w \in Workers, Commit(w)
    PROVE  IInv'
<1> DEFINE id == worker[w].id
           old == {id} \cap DOMAIN entries
           there == [size |-> Size(id), whole |-> TRUE, used |-> now']
           counted == [size |-> Size(id), used |-> now']
<1>1. /\ worker[w].step = "replacing" /\ Unwind /\ pending' = pending - 1
      /\ now < MaxTime /\ now' = now + 1
      /\ disk' = Put(disk, id, there)
      /\ entries' = Put(entries, id, counted)
      /\ bytes' = bytes - SizeOf(entries, old) + Size(id)
      /\ lastUse' = [lastUse EXCEPT ![id] = now']
      /\ limit' = limit
    BY DEF Commit
<1>2. holder = w /\ holder # NoOne /\ stage = "open" /\ id \in Ids /\ Size(id) \in Nat \ {0}
    <2>1. worker[w].step \in Steps
        BY <1>1 DEF Steps
    <2> QED BY <1>1, <2>1, HoldsMutex, WorkerShape DEF Storing, IInv, Types
<1>3. pending' = 0
    BY <1>1, <1>2 DEF IInv, Staged
<1>4. Mutex' /\ RoomMade'
    BY <1>1, <1>2, Unwound
<1>5. now' \in Times
    BY <1>1, CacheAssumption DEF IInv, Types, Times
<1>6. there \in [size: Nat, whole: BOOLEAN, used: Times] /\ counted \in [size: Nat, used: Times]
    BY <1>2, <1>5
<1>7. /\ there.size = Size(id) /\ there.whole = TRUE /\ there.used = now'
      /\ counted.size = Size(id) /\ counted.used = now'
    OBVIOUS
<1> HIDE DEF there, counted
<1>8. /\ DOMAIN disk' = DOMAIN disk \cup {id} /\ disk'[id] = there
      /\ \A i \in DOMAIN disk \ {id} : disk'[i] = disk[i]
    BY <1>1 DEF Put
<1>9. /\ DOMAIN entries' = DOMAIN entries \cup {id} /\ entries'[id] = counted
      /\ \A i \in DOMAIN entries \ {id} : entries'[i] = entries[i]
    BY <1>1 DEF Put
<1>10. bytes' = Total(entries')
    <2>1. Sized(entries) /\ bytes = Total(entries)
        BY <1>2, SizedCopies DEF IInv, Types, Accounts
    <2> QED BY <1>1, <1>2, <1>7, <2>1, TotalPut
<1>11. Sized(entries')
    BY <1>2, <1>7, <1>9, SizedCopies DEF IInv, Types, Sized
<1>12. bytes' \in Nat
    BY <1>10, <1>11, SizeType DEF Total
<1>13. /\ \A i \in DOMAIN disk' : disk'[i] \in [size: Nat, whole: BOOLEAN, used: Times]
       /\ \A i \in DOMAIN entries' : entries'[i] \in [size: Nat, used: Times]
    BY <1>6, <1>8, <1>9 DEF IInv, Types, TypeOK
<1>14. lastUse' \in [Ids -> Times]
    BY <1>1, <1>5 DEF IInv, Types
<1>15. TypeOK'
    BY <1>1, <1>2, <1>3, <1>8, <1>9, <1>12, <1>13, Unwound DEF IInv, Types, TypeOK
<1>16. Accounts'
    BY <1>2, <1>7, <1>8, <1>9, <1>10 DEF IInv, Accounts
<1>17. Limited'
    <2>1. Fits
        BY <1>1 DEF IInv, RoomMade
    <2>2. Replaced = {id} /\ Wanted = Size(id)
        BY <1>2 DEF Replaced, Wanted
    <2>3. bytes' <= limit.bytes
        BY <1>1, <2>1, <2>2 DEF Fits
    <2>4. Cardinality(DOMAIN entries \ {id}) + Cardinality({id}) <= limit.entries
        BY <2>1, <2>2 DEF Fits
    <2>5. Cardinality(DOMAIN entries') = Cardinality(DOMAIN entries \ {id}) + 1
        <3>1. IsFiniteSet(DOMAIN entries \ {id}) /\ DOMAIN entries' = (DOMAIN entries \ {id}) \cup {id}
            BY <1>9, SizedCopies, FiniteEntries DEF IInv, Types
        <3> QED BY <3>1, FS_AddElement
    <2>6. Cardinality({id}) = 1
        BY FS_Singleton
    <2> QED BY <1>1, <2>3, <2>4, <2>5, <2>6 DEF Limited
<1>18. Uses'
    <2>1. lastUse'[id] = now' /\ \A i \in Ids \ {id} : lastUse'[i] = lastUse[i]
        BY <1>1, <1>2 DEF IInv, Types
    <2>2. DOMAIN disk \subseteq Ids
        BY DEF IInv, Types, TypeOK
    <2> QED BY <1>2, <1>7, <1>8, <1>9, <2>1, <2>2 DEF IInv, Uses
<1>19. Present'
    <2>1. \A i : \A o \in Workers : worker[o] = Busy("replacing", i) => i = id
        BY <1>1, <1>2 DEF IInv, Mutex, Busy, Storing
    <2>2. broken' = broken
        BY DEF Commit
    <2> QED BY <1>2, <1>8, <1>9, <2>1, <2>2 DEF IInv, Present
<1>20. Staged'
    BY <1>2, <1>3, Unwound, <1>1, CacheAssumption DEF Staged
<1> QED BY <1>4, <1>5, <1>14, <1>15, <1>16, <1>17, <1>18, <1>19, <1>20 DEF IInv, Types

-----------------------------------------------------------------------------
(* Making room *)

LEMMA RoomHolder ==
    ASSUME IInv, MakingRoom
    PROVE  /\ holder # NoOne /\ stage # "closed"
           /\ \A w \in Workers : worker[w].step \notin {"copying", "replacing"}
           /\ pending = 0
<1>1. holder # NoOne /\ stage # "closed" /\ \A w \in Workers : worker[w].step \notin {"copying", "replacing"}
    <2>1. CASE holder = Opener /\ stage = "pruning"
        BY <2>1, CacheAssumption DEF IInv, Mutex, Idle
    <2>2. CASE holder \in Workers /\ worker[holder].step = "room"
        <3>1. stage = "open" /\ holder # NoOne
            BY <2>2, HoldsMutex DEF Storing
        <3> QED BY <2>2, <3>1 DEF IInv, Mutex, Storing
    <2> QED BY <2>1, <2>2 DEF MakingRoom
<1> QED BY <1>1 DEF IInv, Staged

LEMMA EvictKeeps ==
    ASSUME IInv, NEW v \in Ids, Evict(v)
    PROVE  IInv'
<1>1. /\ MakingRoom /\ v \in DOMAIN entries /\ v \in DOMAIN disk
      /\ disk' = Drop(disk, v) /\ entries' = Drop(entries, v)
      /\ bytes' = bytes - entries[v].size
      /\ UNCHANGED <<pending, stage, limit, holder, worker, now, lastUse, broken>>
    BY DEF Evict, Victims
<1>2. /\ stage # "closed"
      /\ \A w \in Workers : worker[w].step \notin {"copying", "replacing"}
    BY <1>1, RoomHolder
<1>3. DOMAIN disk' = DOMAIN disk \ {v} /\ \A i \in DOMAIN disk' : disk'[i] = disk[i]
    BY <1>1 DEF Drop
<1>4. DOMAIN entries' = DOMAIN entries \ {v} /\ \A i \in DOMAIN entries' : entries'[i] = entries[i]
    BY <1>1 DEF Drop
<1>5. Sized(entries) /\ bytes = Total(entries)
    BY <1>2, SizedCopies DEF IInv, Types, Accounts
<1>6. bytes' = Total(entries')
    BY <1>1, <1>5, TotalDrop
<1>7. bytes' \in Nat /\ bytes' <= bytes
    <2>1. Sized(entries')
        BY <1>4, <1>5 DEF Sized
    <2>2. bytes' \in Nat
        BY <1>6, <2>1, SizeType DEF Total
    <2>3. entries[v].size \in Nat /\ bytes \in Nat
        BY <1>1, <1>5 DEF Sized, IInv, Types, TypeOK
    <2> QED BY <1>1, <2>2, <2>3
<1>8. Types'
    BY <1>1, <1>3, <1>4, <1>7 DEF IInv, Types, TypeOK
<1>9. Mutex' /\ Staged'
    BY <1>1 DEF IInv, Mutex, Staged
<1>10. Accounts'
    BY <1>1, <1>2, <1>3, <1>4, <1>6 DEF IInv, Accounts
<1>11. Limited'
    <2>1. IsFiniteSet(DOMAIN entries)
        BY <1>5, FiniteEntries
    <2>2. Cardinality(DOMAIN entries') <= Cardinality(DOMAIN entries)
        BY <1>4, <2>1, FS_Subset
    <2>3. Cardinality(DOMAIN entries') \in Nat /\ Cardinality(DOMAIN entries) \in Nat
        BY <1>4, <2>1, FS_Subset, FS_CardinalityType
    <2>4. limit.bytes \in Nat /\ limit.entries \in Nat /\ bytes \in Nat
        BY LimitType DEF IInv, Types, TypeOK
    <2> QED BY <1>1, <1>7, <2>2, <2>3, <2>4 DEF IInv, Limited
<1>12. RoomMade'
    BY <1>1, <1>2 DEF IInv, RoomMade
<1>13. Present'
    <2>1. \A i : \A w \in Workers : worker[w] # Busy("replacing", i)
        BY <1>2 DEF Busy
    <2> QED BY <1>1, <1>2, <1>3, <1>4, <2>1 DEF IInv, Present
<1>14. Uses'
    BY <1>1, <1>2, <1>3, <1>4 DEF IInv, Uses
<1> QED BY <1>8, <1>9, <1>10, <1>11, <1>12, <1>13, <1>14 DEF IInv

LEMMA EvictFailsKeeps ==
    ASSUME IInv, NEW v \in Ids, EvictFails(v)
    PROVE  IInv'
<1>1. /\ MakingRoom /\ Unwind
      /\ UNCHANGED <<pending, limit, entries, bytes, now, lastUse, broken>>
    BY DEF EvictFails
<1>2. holder # NoOne /\ stage # "closed" /\ pending = 0
    BY <1>1, RoomHolder
<1>3. Mutex' /\ RoomMade'
    BY <1>1, <1>2, Unwound
<1> DEFINE left == [size |-> 0, whole |-> FALSE, used |-> 0]
<1>4. left \in [size: Nat, whole: BOOLEAN, used: Times] /\ left.size = 0 /\ left.whole = FALSE
    BY CacheAssumption DEF Times
<1>5. /\ DOMAIN disk' = DOMAIN disk
      /\ \A i \in DOMAIN disk : disk'[i] = disk[i] \/ disk'[i] = left
    BY DEF EvictFails
<1> HIDE DEF left
<1>6. \A i \in DOMAIN disk' : disk'[i] \in [size: Nat, whole: BOOLEAN, used: Times]
    BY <1>4, <1>5 DEF IInv, Types, TypeOK
<1>7. Types'
    BY <1>1, <1>2, <1>5, <1>6, Unwound DEF IInv, Types, TypeOK
<1>8. Accounts'
    <2>1. \A i \in DOMAIN entries : entries[i].size \in Nat
        BY SizedCopies DEF IInv, Types, Sized
    <2> QED BY <1>1, <1>2, <1>4, <1>5, <2>1 DEF IInv, Accounts
<1>9. Limited'
    BY <1>1, <1>2, Unwound DEF IInv, Limited
<1>10. Uses'
    BY <1>1, <1>2, <1>4, <1>5 DEF IInv, Uses
<1>11. Present'
    <2>1. ~broken => DOMAIN entries \subseteq DOMAIN disk
        BY <1>1, <1>2, RoomHolder, AllPresent
    <2> QED BY <1>1, <1>5, <2>1 DEF Present
<1>12. Staged'
    BY <1>1, <1>2, Unwound, CacheAssumption DEF Staged
<1> QED BY <1>3, <1>7, <1>8, <1>9, <1>10, <1>11, <1>12 DEF IInv

-----------------------------------------------------------------------------
(* Owners *)

LEMMA OpeningKeeps ==
    ASSUME IInv, NEW l \in Limits, Open(l)
    PROVE  IInv'
<1>1. /\ stage = "closed" /\ stage' = "pruning" /\ limit' = l /\ holder' = Opener /\ pending' = 0
      /\ entries' = [i \in DOMAIN disk |-> [size |-> disk[i].size, used |-> disk[i].used]]
      /\ bytes' = Total(disk) /\ broken' = FALSE
      /\ UNCHANGED <<disk, worker, now, lastUse>>
    BY DEF Open
<1>2. \A w \in Workers : worker[w] = Idle /\ worker[w].step \notin Storing
    BY <1>1 DEF IInv, Mutex, Idle, Storing
<1>3. Sized(disk)
    BY SizedCopies DEF IInv, Types
<1>4. /\ DOMAIN entries' = DOMAIN disk
      /\ \A i \in DOMAIN disk : entries'[i].size = disk[i].size /\ entries'[i].used = disk[i].used
    BY <1>1
<1>5. \A i \in DOMAIN disk : entries'[i] \in [size: Nat, used: Times]
    BY <1>1 DEF IInv, Types, TypeOK
<1>6. bytes' = Total(entries') /\ bytes' \in Nat
    BY <1>1, <1>3, <1>4, SizeSame, SizeType DEF Total
<1>7. Types'
    BY <1>1, <1>4, <1>5, <1>6 DEF IInv, Types, TypeOK
<1>8. Mutex'
    BY <1>1, <1>2, CacheAssumption DEF Mutex
<1>9. Accounts'
    BY <1>1, <1>3, <1>4, <1>6 DEF Accounts, Sized
<1>10. Limited' /\ Staged'
    BY <1>1, CacheAssumption DEF Limited, Staged
<1>11. RoomMade'
    BY <1>1, <1>2 DEF RoomMade, Storing
<1>12. Present' /\ Uses'
    BY <1>1, <1>4 DEF IInv, Present, Uses
<1> QED BY <1>7, <1>8, <1>9, <1>10, <1>11, <1>12 DEF IInv

LEMMA OpenedKeeps ==
    ASSUME IInv, Opened
    PROVE  IInv'
<1>1. /\ holder = Opener /\ stage = "pruning" /\ Fits /\ stage' = "open" /\ holder' = NoOne
      /\ UNCHANGED <<disk, pending, limit, entries, bytes, worker, now, lastUse, broken>>
    BY DEF Opened
<1>2. \A w \in Workers : worker[w] = Idle /\ worker[w].step \notin Storing
    BY <1>1 DEF IInv, Mutex, Idle, Storing
<1>3. Types'
    BY <1>1 DEF IInv, Types, TypeOK
<1>4. Mutex'
    BY <1>1, <1>2, CacheAssumption DEF Mutex
<1>5. Accounts' /\ Uses' /\ Present'
    BY <1>1 DEF IInv, Accounts, Uses, Present
<1>6. Limited'
    <2>1. Replaced = {} /\ Wanted = 0
        BY <1>1, CacheAssumption DEF Replaced, Wanted
    <2>2. bytes - SizeOf(entries, {}) + 0 <= limit.bytes
        <3>1. {} \cap DOMAIN entries = {}
            OBVIOUS
        <3> QED BY <1>1, <2>1, <3>1 DEF Fits
    <2>3. Cardinality(DOMAIN entries) + Cardinality({}) <= limit.entries
        <3>1. {} \cap DOMAIN entries = {} /\ DOMAIN entries \ {} = DOMAIN entries
            OBVIOUS
        <3> QED BY <1>1, <2>1, <3>1 DEF Fits
    <2>4. Cardinality({}) = 0 /\ SizeOf(entries, {}) = 0
        BY FS_EmptySet, SizeNone
    <2>5. bytes \in Nat /\ Cardinality(DOMAIN entries) \in Nat
        BY SizedCopies, FiniteEntries, FS_CardinalityType DEF IInv, Types, TypeOK
    <2> QED BY <1>1, <2>2, <2>3, <2>4, <2>5 DEF Limited
<1>7. RoomMade'
    BY <1>1, <1>2 DEF RoomMade, Storing
<1>8. Staged'
    BY <1>1, CacheAssumption DEF IInv, Staged
<1> QED BY <1>3, <1>4, <1>5, <1>6, <1>7, <1>8 DEF IInv

LEMMA LeaveKeeps ==
    ASSUME IInv, Close \/ Crash
    PROVE  IInv'
<1>1. /\ stage' = "closed" /\ UNCHANGED <<disk, pending, limit, entries, bytes, now, lastUse, broken>>
      /\ \A w \in Workers : worker'[w] = Idle
      /\ worker' \in [Workers -> {Idle} \cup [step: Steps, id: Ids]]
    BY DEF Close, Crash, IInv, Types, TypeOK
<1>2. holder' = NoOne
    <2>1. CASE Crash
        BY <2>1 DEF Crash
    <2>2. CASE Close
        <3>1. stage = "open" /\ \A w \in Workers : worker[w].step \notin Storing
            BY <2>2 DEF Close, Idle, Storing
        <3>2. holder' = holder
            BY <2>2 DEF Close
        <3> QED BY <3>1, <3>2 DEF IInv, Mutex, Types, TypeOK
    <2> QED BY <2>1, <2>2
<1>3. \A w \in Workers : worker'[w].step \notin Storing
    BY <1>1 DEF Idle, Storing
<1>4. Types'
    BY <1>1, <1>2 DEF IInv, Types, TypeOK
<1>5. Mutex' /\ RoomMade'
    BY <1>1, <1>2, <1>3, CacheAssumption DEF Mutex, RoomMade, Storing
<1>6. Accounts' /\ Limited' /\ Present' /\ Staged' /\ Uses'
    BY <1>1 DEF IInv, Accounts, Limited, Present, Staged, Uses
<1> QED BY <1>4, <1>5, <1>6 DEF IInv

-----------------------------------------------------------------------------
(* A hit, and damage *)

LEMMA HitKeeps ==
    ASSUME IInv, NEW w \in Workers, NEW id \in Ids, Hit(w, id)
    PROVE  IInv'
<1>1. /\ stage = "open" /\ holder = NoOne /\ id \in DOMAIN disk /\ now < MaxTime /\ now' = now + 1
      /\ disk' = [disk EXCEPT ![id].used = now']
      /\ entries' = [entries EXCEPT ![id].used = now']
      /\ lastUse' = [lastUse EXCEPT ![id] = now']
      /\ UNCHANGED <<pending, stage, limit, bytes, holder, worker, broken>>
    BY DEF Hit, Free
<1>2. now' \in Times
    BY <1>1, CacheAssumption DEF IInv, Types, Times
<1>3. id \in DOMAIN entries
    BY <1>1 DEF IInv, Accounts
<1>4. /\ disk[id] \in [size: Nat, whole: BOOLEAN, used: Times]
      /\ entries[id] \in [size: Nat, used: Times]
    BY <1>1, <1>3 DEF IInv, Types, TypeOK
<1> DEFINE there == [disk[id] EXCEPT !.used = now']
           counted == [entries[id] EXCEPT !.used = now']
<1>5. /\ there \in [size: Nat, whole: BOOLEAN, used: Times]
      /\ there.size = disk[id].size /\ there.whole = disk[id].whole /\ there.used = now'
    BY <1>2, <1>4
<1>6. /\ counted \in [size: Nat, used: Times]
      /\ counted.size = entries[id].size /\ counted.used = now'
    BY <1>2, <1>4
<1>7. disk' = [disk EXCEPT ![id] = there] /\ entries' = [entries EXCEPT ![id] = counted]
    BY <1>1
<1> HIDE DEF there, counted
<1>8. /\ DOMAIN disk' = DOMAIN disk /\ DOMAIN entries' = DOMAIN entries
      /\ disk'[id] = there /\ entries'[id] = counted
      /\ \A i \in DOMAIN disk \ {id} : disk'[i] = disk[i]
      /\ \A i \in DOMAIN entries \ {id} : entries'[i] = entries[i]
    BY <1>1, <1>3, <1>7
<1>9. /\ \A i \in DOMAIN disk' : disk'[i] \in [size: Nat, whole: BOOLEAN, used: Times]
      /\ \A i \in DOMAIN entries' : entries'[i] \in [size: Nat, used: Times]
    BY <1>5, <1>6, <1>8 DEF IInv, Types, TypeOK
<1>10. lastUse' \in [Ids -> Times]
    BY <1>1, <1>2 DEF IInv, Types
<1>11. TypeOK'
    BY <1>1, <1>8, <1>9 DEF IInv, Types, TypeOK
<1>12. Mutex' /\ Staged'
    BY <1>1 DEF IInv, Mutex, Staged
<1>13. bytes' = Total(entries')
    <2>1. Sized(entries) /\ bytes = Total(entries)
        BY <1>1, SizedCopies DEF IInv, Types, Accounts
    <2>2. \A i \in DOMAIN entries : entries[i].size = entries'[i].size
        BY <1>6, <1>8
    <2>3. SizeOf(entries, DOMAIN entries) = SizeOf(entries', DOMAIN entries)
        BY <1>8, <2>1, <2>2, SizeSame
    <2> QED BY <1>1, <1>8, <2>1, <2>3 DEF Total
<1>14. Accounts'
    <2>1. \A i \in DOMAIN disk' : i \in DOMAIN entries' /\ disk'[i].size <= entries'[i].size
        BY <1>1, <1>5, <1>6, <1>8 DEF IInv, Accounts
    <2> QED BY <1>13, <2>1 DEF Accounts
<1>15. Limited'
    BY <1>1, <1>8 DEF IInv, Limited
<1>16. RoomMade'
    <2>1. \A o \in Workers : worker[o].step \notin Storing
        BY <1>1, CacheAssumption DEF IInv, Mutex
    <2> QED BY <1>1, <2>1 DEF RoomMade, Storing
<1>17. Present'
    BY <1>1, <1>8 DEF IInv, Present
<1>18. Uses'
    <2>1. lastUse'[id] = now' /\ \A i \in Ids \ {id} : lastUse'[i] = lastUse[i]
        BY <1>1 DEF IInv, Types
    <2>2. DOMAIN disk \subseteq Ids
        BY DEF IInv, Types, TypeOK
    <2> QED BY <1>1, <1>3, <1>5, <1>6, <1>8, <2>1, <2>2 DEF IInv, Uses
<1>19. Types'
    BY <1>2, <1>10, <1>11 DEF Types, Times
<1> QED BY <1>12, <1>14, <1>15, <1>16, <1>17, <1>18, <1>19 DEF IInv

LEMMA DamageKeeps ==
    ASSUME IInv, NEW id \in Ids, Damage(id)
    PROVE  IInv'
<1>1. /\ id \in DOMAIN disk /\ disk' = [disk EXCEPT ![id].whole = FALSE]
      /\ UNCHANGED <<pending, stage, limit, entries, bytes, holder, worker, now, lastUse, broken>>
    BY DEF Damage
<1> DEFINE there == [disk[id] EXCEPT !.whole = FALSE]
<1>2. disk[id] \in [size: Nat, whole: BOOLEAN, used: Times]
    BY <1>1 DEF IInv, Types, TypeOK
<1>3. /\ there \in [size: Nat, whole: BOOLEAN, used: Times]
      /\ there.size = disk[id].size /\ there.whole = FALSE
    BY <1>2
<1>4. disk' = [disk EXCEPT ![id] = there]
    BY <1>1
<1> HIDE DEF there
<1>5. /\ DOMAIN disk' = DOMAIN disk /\ disk'[id] = there
      /\ \A i \in DOMAIN disk \ {id} : disk'[i] = disk[i]
    BY <1>1, <1>4
<1>6. \A i \in DOMAIN disk' : disk'[i] \in [size: Nat, whole: BOOLEAN, used: Times]
    BY <1>3, <1>5 DEF IInv, Types, TypeOK
<1>7. Types'
    BY <1>1, <1>5, <1>6 DEF IInv, Types, TypeOK
<1>8. Mutex' /\ Staged' /\ Limited'
    BY <1>1 DEF IInv, Mutex, Staged, Limited
<1>9. RoomMade'
    <2>1. Fits' = Fits
        BY <1>1, FitsSame
    <2> QED BY <1>1, <2>1 DEF IInv, RoomMade
<1>10. Accounts'
    BY <1>1, <1>3, <1>5 DEF IInv, Accounts
<1>11. Present' /\ Uses'
    BY <1>1, <1>3, <1>5 DEF IInv, Present, Uses
<1> QED BY <1>7, <1>8, <1>9, <1>10, <1>11 DEF IInv

-----------------------------------------------------------------------------
LEMMA EmptyCache == Init => IInv
<1> SUFFICES ASSUME Init PROVE IInv
    OBVIOUS
<1>1. DOMAIN disk = {} /\ DOMAIN entries = {} /\ stage = "closed" /\ holder = NoOne
    BY DEF Init
<1>2. 0 \in Times
    BY CacheAssumption DEF Times
<1>3. \A w \in Workers : worker[w] = Idle /\ worker[w].step \notin Storing
    BY DEF Init, Idle, Storing
<1>4. Types
    BY <1>1, <1>2 DEF Init, Types, TypeOK
<1>5. Mutex
    BY <1>1, <1>3, CacheAssumption DEF Mutex
<1>6. Accounts /\ Limited /\ Present /\ Staged /\ Uses
    BY <1>1 DEF Accounts, Limited, Present, Staged, Uses
<1>7. RoomMade
    BY <1>3 DEF RoomMade, Storing
<1> QED BY <1>4, <1>5, <1>6, <1>7 DEF IInv

LEMMA StepKeeps == IInv /\ [Next]_vars => IInv'
<1> SUFFICES ASSUME IInv, [Next]_vars PROVE IInv'
    OBVIOUS
<1>1. CASE UNCHANGED vars
    <2>1. UNCHANGED <<disk, pending, stage, limit, entries, bytes, holder, worker, now, lastUse, broken>>
        BY <1>1 DEF vars
    <2>2. Fits' = Fits
        BY <2>1, FitsSame
    <2> QED BY <2>1, <2>2 DEF IInv, Types, TypeOK, Mutex, Accounts, Limited, RoomMade, Present,
            Staged, Uses
<1>2. ASSUME NEW l \in Limits, Open(l) PROVE IInv'
    BY <1>2, OpeningKeeps
<1>3. CASE Opened \/ Close \/ Crash
    BY <1>3, OpenedKeeps, LeaveKeeps
<1>4. ASSUME NEW i \in Ids, Evict(i) \/ EvictFails(i) \/ Damage(i) PROVE IInv'
    BY <1>4, EvictKeeps, EvictFailsKeeps, DamageKeeps
<1>5. ASSUME NEW w \in Workers, NEW i \in Ids, Miss(w, i) \/ Hit(w, i) PROVE IInv'
    BY <1>5, AsideStep, HitKeeps
<1>6. ASSUME NEW w \in Workers, Decode(w) \/ DecodeFails(w) \/ TooLarge(w) PROVE IInv'
    <2>1. worker[w].id \in Ids
        <3>1. worker[w].step \in Steps
            BY <1>6 DEF Decode, DecodeFails, TooLarge, Steps
        <3> QED BY <3>1, BusyOpen
    <2> QED BY <1>6, <2>1, AsideStep
<1>7. ASSUME NEW w \in Workers,
             \/ StartStore(w) \/ Stage(w) \/ GiveUp(w) \/ RemoveOld(w)
             \/ Commit(w) \/ CommitFails(w)
      PROVE  IInv'
    BY <1>7, StartStoreKeeps, StageKeeps, GiveUpKeeps, RemoveOldKeeps, CommitKeeps, CommitFailsKeeps
<1> QED BY <1>1, <1>2, <1>3, <1>4, <1>5, <1>6, <1>7 DEF Next

-----------------------------------------------------------------------------
(* Some entry is the least recently used one.                              *)
LEMMA OldestThere ==
    ASSUME TypeOK, DOMAIN entries \ Replaced # {}
    PROVE  Victims # {}
<1> DEFINE others == DOMAIN entries \ Replaced
           S == {entries[i].used : i \in others}
<1>1. \A i \in others : entries[i].used \in Nat
    <2>1. \A i \in others : entries[i].used \in Times
        BY DEF TypeOK
    <2>2. Times \subseteq Nat
        BY CacheAssumption DEF Times
    <2> QED BY <2>1, <2>2
<1>2. S \in SUBSET Nat /\ S # {}
    BY <1>1
<1>3. PICK n \in S : \A m \in S : n <= m
    <2> HIDE DEF S
    <2> QED BY <1>2, LeastNumber
<1>4. PICK v \in others : entries[v].used = n
    BY <1>3
<1>5. v \in Victims
    BY <1>3, <1>4 DEF Victims
<1> QED BY <1>5

(* When nothing is left to evict, what is wanted fits: opening wants       *)
(* nothing, and a store begins only for an entry that fits alone.          *)
LEMMA RoomFound ==
    ASSUME IInv, MakingRoom, ~Fits
    PROVE  Victims # {}
<1> SUFFICES ASSUME DOMAIN entries \subseteq Replaced PROVE FALSE
    BY OldestThere DEF IInv, Types
<1>1. stage # "closed"
    BY RoomHolder
<1>2. bytes = Total(entries)
    BY <1>1 DEF IInv, Accounts
<1>3. Total(entries) \in Nat
    BY SizedCopies, SizeType DEF IInv, Types, Total
<1>4. Replaced \cap DOMAIN entries = DOMAIN entries /\ DOMAIN entries \ (Replaced \cap DOMAIN entries) = {}
    OBVIOUS
<1>5. bytes - SizeOf(entries, Replaced \cap DOMAIN entries) = 0
    BY <1>2, <1>3, <1>4 DEF Total
<1>6. Wanted \in Nat /\ Wanted <= limit.bytes /\ Cardinality(Replaced) <= 1 /\ Cardinality(Replaced) \in Nat
    <2>1. CASE holder \in Workers
        <3>1. worker[holder].step = "room"
            BY <2>1, CacheAssumption DEF MakingRoom
        <3>2. Size(worker[holder].id) \in Nat
            <4>1. worker[holder].step \in Steps
                BY <3>1 DEF Steps
            <4> QED BY <2>1, <4>1, WorkerShape DEF IInv, Types
        <3>3. Size(worker[holder].id) <= limit.bytes
            BY <2>1, <3>1 DEF IInv, RoomMade, Storing
        <3>4. Cardinality({worker[holder].id}) = 1
            BY FS_Singleton
        <3> QED BY <2>1, <3>2, <3>3, <3>4 DEF Wanted, Replaced
    <2>2. CASE holder \notin Workers
        <3>1. Wanted = 0 /\ Replaced = {}
            BY <2>2 DEF Wanted, Replaced
        <3> QED BY <3>1, FS_EmptySet, LimitType DEF IInv, Types
    <2> QED BY <2>1, <2>2
<1>7. limit.bytes \in Nat /\ limit.entries \in Nat \ {0}
    BY LimitType DEF IInv, Types
<1>8. Cardinality({}) = 0
    BY FS_EmptySet
<1>9. bytes - SizeOf(entries, Replaced \cap DOMAIN entries) + Wanted <= limit.bytes
    BY <1>5, <1>6
<1>10. Cardinality(DOMAIN entries \ (Replaced \cap DOMAIN entries)) + Cardinality(Replaced) <= limit.entries
    BY <1>4, <1>6, <1>7, <1>8
<1> QED BY <1>9, <1>10 DEF Fits

(* An open cache keeps its limits on disk and not only in its books, never *)
(* counts less than there is, finds room for every store unless a failed   *)
(* replacement left something counted that is gone, and has no directory   *)
(* of an owner that was killed (open, scan_and_prune, make_room, store).   *)
THEOREM CacheSound == Spec => []Inv
<1>1. IInv => Inv
    <2> SUFFICES ASSUME IInv PROVE Inv
        OBVIOUS
    <2>1. NeverUndercounts
        BY DEF IInv, Accounts, NeverUndercounts
    <2>2. WithinLimits
        <3> SUFFICES ASSUME stage = "open"
                     PROVE  Total(disk) <= limit.bytes /\ Cardinality(DOMAIN disk) <= limit.entries
            BY DEF WithinLimits
        <3>1. Sized(disk) /\ Sized(entries)
            BY SizedCopies DEF IInv, Types
        <3>2. /\ DOMAIN disk \subseteq DOMAIN entries /\ bytes = Total(entries)
              /\ \A i \in DOMAIN disk : disk[i].size <= entries[i].size
            BY DEF IInv, Accounts
        <3>3. Total(disk) <= Total(entries) /\ Total(disk) \in Nat /\ Total(entries) \in Nat
            BY <3>1, <3>2, SizeBelow, SizeType DEF Total
        <3>4. IsFiniteSet(DOMAIN entries)
            BY <3>1, FiniteEntries
        <3>5. /\ Cardinality(DOMAIN disk) <= Cardinality(DOMAIN entries)
              /\ Cardinality(DOMAIN disk) \in Nat /\ Cardinality(DOMAIN entries) \in Nat
            BY <3>2, <3>4, FS_Subset, FS_CardinalityType
        <3>6. limit.bytes \in Nat /\ limit.entries \in Nat
            BY LimitType DEF IInv, Types
        <3> QED BY <3>2, <3>3, <3>5, <3>6 DEF IInv, Limited
    <2>3. RoomUnlessBroken
        <3> SUFFICES ASSUME MakingRoom, ~Fits
                     PROVE  Victims # {} /\ (Victims \subseteq DOMAIN disk \/ broken)
            BY DEF RoomUnlessBroken
        <3>1. ~broken => DOMAIN entries \subseteq DOMAIN disk
            BY RoomHolder, AllPresent
        <3> QED BY <3>1, RoomFound DEF Victims
    <2>4. NoLeftovers
        BY DEF IInv, Staged, NoLeftovers
    <2> QED BY <2>1, <2>2, <2>3, <2>4 DEF IInv, Types, Inv
<1> QED BY <1>1, EmptyCache, StepKeeps, PTL DEF Spec

-----------------------------------------------------------------------------
(* Only an eviction takes an entry out of the budget of an open cache.     *)
LEMMA OnlyEvicted ==
    ASSUME IInv, Next, stage # "closed", stage' # "closed",
           NEW v \in DOMAIN entries, v \notin DOMAIN entries'
    PROVE  Evict(v)
<1>1. entries' # entries
    OBVIOUS
<1>2. ASSUME NEW i \in Ids, Evict(i) PROVE i = v
    BY <1>2 DEF Evict, Drop
<1>3. ASSUME NEW w \in Workers, NEW i \in Ids, Hit(w, i) PROVE FALSE
    BY <1>3 DEF Hit
<1>4. ASSUME NEW w \in Workers, Commit(w) PROVE FALSE
    BY <1>4 DEF Commit, Put
<1>5. ASSUME NEW l \in Limits, Open(l) PROVE FALSE
    BY <1>5 DEF Open
<1>6. ~Opened /\ ~Close /\ ~Crash
    BY <1>1 DEF Opened, Close, Crash
<1>7. ASSUME NEW w \in Workers
      PROVE  /\ ~Decode(w) /\ ~DecodeFails(w) /\ ~TooLarge(w) /\ ~StartStore(w) /\ ~Stage(w)
             /\ ~GiveUp(w) /\ ~RemoveOld(w) /\ ~CommitFails(w) /\ \A i \in Ids : ~Miss(w, i)
    BY <1>1 DEF Miss, Decode, DecodeFails, TooLarge, StartStore, Stage, GiveUp, RemoveOld, CommitFails
<1>8. \A i \in Ids : ~EvictFails(i) /\ ~Damage(i)
    BY <1>1 DEF EvictFails, Damage
<1>9. ASSUME NEW i \in Ids, Evict(i) PROVE Evict(v)
    BY <1>2, <1>9
<1>10. ASSUME NEW w \in Workers PROVE \A i \in Ids : ~Hit(w, i)
    BY <1>3
<1> QED BY <1>4, <1>5, <1>6, <1>7, <1>8, <1>9, <1>10 DEF Next

(* Eviction follows the last use of intact entries, across restarts and    *)
(* damage (touch, make_room).                                              *)
THEOREM OldestGoes == Spec => EvictsOldest
<1>1. ASSUME IInv, Next, stage' # "closed", stage # "closed",
             NEW v \in DOMAIN entries \ DOMAIN entries', NEW o \in DOMAIN disk' \ Replaced,
             disk[v].whole, disk[o].whole
      PROVE  lastUse[v] <= lastUse[o]
    <2>1. Evict(v)
        BY <1>1, OnlyEvicted
    <2>2. v \in DOMAIN disk /\ v \in Victims /\ o \in DOMAIN disk
        BY <2>1 DEF Evict, Drop
    <2>3. entries[v].used = lastUse[v] /\ entries[o].used = lastUse[o] /\ o \in DOMAIN entries
        BY <1>1, <2>2 DEF IInv, Uses
    <2> QED BY <2>2, <2>3 DEF Victims
<1>2. IInv /\ [Next]_vars =>
        [\A v \in DOMAIN entries \ DOMAIN entries' :
            stage' # "closed" /\ stage # "closed" =>
              \A o \in DOMAIN disk' \ Replaced :
                  disk[v].whole /\ disk[o].whole => lastUse[v] <= lastUse[o]]_vars
    BY <1>1
<1> QED BY <1>2, EmptyCache, StepKeeps, PTL DEF Spec, EvictsOldest
=============================================================================
