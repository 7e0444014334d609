------------------------- MODULE DownloadRun_proofs -------------------------
(***************************************************************************)
(* Theorems about the runs of a download profile, for any number of runs,  *)
(* files, permits and changes of the origin.                               *)
(***************************************************************************)
EXTENDS DownloadRun, Sums

Read == {"plan", "batch", "recheck", "rehash", "publish", "published"}
Holding == Running \cup {"dropping"}
Storing == {"copy", "clear", "move"}
Asking == {"ask", "get", "back"}

(* Where the requests of a run may stand in each of its phases.            *)
Placed(x, y) ==
    /\ \A i \in Items : y[i].at # "rest" =>
          \/ i = Hash /\ x.phase \in {"hash", "rehash", "dropping"} /\ y[i].at \in Asking
          \/ i = Catalog /\ x.phase \in {"catalog", "dropping"} /\ y[i].at \in Asking
          \/ /\ i \in Files /\ x.phase \in {"batch", "dropping"}
             /\ y[i].at \in {"look"} \cup Storing => Cached
    /\ x.phase \in {"hash", "rehash"} => HasHash

(* The batch at its worst fits in what remains of the budget.              *)
Loading(x, y) == x.phase = "batch" \/ \E f \in Files : y[f].at # "rest"

Affordable(x, y) ==
    /\ \A f \in Files :
          /\ y[f].at # "rest" => f \in x.next .. x.end
          /\ y[f].at \in Storing \cup {"done"} => Size(f) <= x.limit
    /\ Loading(x, y) =>
          /\ x.next <= x.end
          /\ x.total + (x.end - x.next + 1) * x.limit <= MaxTotal
    /\ x.phase \in {"recheck", "rehash", "publish", "published"} => x.next = N + 1

Local(x, y) == x \in RunType /\ y \in [Items -> ItemType] /\ Placed(x, y) /\ Affordable(x, y)

RunsInv ==
    /\ origin \in OriginType
    /\ run \in [Runs -> RunType]
    /\ item \in [Runs -> [Items -> ItemType]]
    /\ \A r \in Runs : Local(run[r], item[r])

-----------------------------------------------------------------------------
(* A step of a run changes the record and the requests of that run.        *)
OnlyOf(r) ==
    /\ run' = [run EXCEPT ![r] = run'[r]]
    /\ item' = [item EXCEPT ![r] = item'[r]]

LEMMA StepsAreLocal ==
    ASSUME RunsInv, NEW r \in Runs, Step(r)
    PROVE  OnlyOf(r)
<1> USE DEF RunsInv, OnlyOf
<1>1. CASE Begin(r) BY <1>1 DEF Begin, To
<1>2. CASE Pin(r) BY <1>2 DEF Pin
<1>3. CASE Plan(r) BY <1>3 DEF Plan
<1>4. CASE Joined(r) BY <1>4 DEF Joined
<1>5. CASE Recheck(r) BY <1>5 DEF Recheck
<1>6. CASE Publish(r) BY <1>6 DEF Publish, To
<1>7. CASE Fail(r) BY <1>7 DEF Fail, To
<1>8. CASE Dropped(r) BY <1>8 DEF Dropped, To
<1>9. CASE GotHash(r) BY <1>9 DEF GotHash
<1>10. CASE GotCatalog(r) BY <1>10 DEF GotCatalog
<1>11. ASSUME NEW x \in Items, Admitted(r, x) \/ TryAgain(r, x) \/ BackedOff(r, x)
       PROVE  OnlyOf(r)
    BY <1>11 DEF Admitted, TryAgain, BackedOff, Put
<1>12. ASSUME NEW f \in Files,
              GotFile(r, f) \/ Restore(r, f) \/ Prepared(r, f) \/ Clear(r, f) \/ Move(r, f)
       PROVE  OnlyOf(r)
    BY <1>12 DEF GotFile, Restore, Prepared, Clear, Move, Put
<1> QED BY <1>1, <1>2, <1>3, <1>4, <1>5, <1>6, <1>7, <1>8, <1>9, <1>10, <1>11, <1>12
        DEF Step, Request

-----------------------------------------------------------------------------
(* What a run may do to its own record and requests.                       *)

LEMMA Constants ==
    /\ N \in Nat /\ MaxFile \in Nat \ {0} /\ MaxTotal \in Nat \ {0} /\ Concurrency \in Nat \ {0}
    /\ Attempts \in Nat \ {0} /\ MaxDownloads \in Nat \ {0} /\ Changes \in Nat
    /\ \A f \in Files : f \in Items /\ f \in 1 .. N /\ Size(f) \in Nat \ {0}
    /\ Hash \in Items \ Files /\ Catalog \in Items \ Files /\ Hash # Catalog
BY DownloadAssumption DEF Files, Items, Hash, Catalog

(* One request goes on, and nothing that the budget counts changes.        *)
LEMMA OneGoesOn ==
    ASSUME NEW x, NEW y, Local(x, y), NEW i \in Items, y[i].at # "rest",
           NEW z \in ItemType, z.at # "rest",
           i \notin Files => z.at \in Asking,
           z.at \in {"look"} \cup Storing => Cached,
           i \in Files /\ z.at \in Storing \cup {"done"} => Size(i) <= x.limit,
           NEW w \in RunType, w.phase = x.phase, w.next = x.next, w.end = x.end,
           w.limit = x.limit, w.total = x.total
    PROVE  Local(w, [y EXCEPT ![i] = z])
<1> DEFINE v == [y EXCEPT ![i] = z]
<1>1. v \in [Items -> ItemType] /\ v[i] = z /\ \A j \in Items \ {i} : v[j] = y[j]
    BY DEF Local
<1>2. \A j \in Items : v[j].at # "rest" <=> y[j].at # "rest"
    BY <1>1
<1>3. \A f \in Files : f \in Items BY Constants
<1> HIDE DEF v
<1>4. Placed(w, v)
    BY <1>1, <1>2, Constants DEF Local, Placed
<1>5. Loading(w, v) <=> Loading(x, y)
    BY <1>2, <1>3 DEF Loading
<1>6. Affordable(w, v)
    BY <1>1, <1>2, <1>3, <1>5 DEF Local, Affordable
<1> QED BY <1>1, <1>4, <1>6 DEF Local, v

Places == {"rest", "look", "ask", "get", "back", "copy", "clear", "move", "done"}

LEMMA PutOne ==
    ASSUME RunsInv, NEW r \in Runs, NEW i \in Items, NEW at \in Places, Put(r, i, at)
    PROVE  \E z \in ItemType : z.at = at /\ item'[r] = [item[r] EXCEPT ![i] = z]
<1> DEFINE z == [item[r][i] EXCEPT !.at = at]
<1>1. item[r][i] \in ItemType BY DEF RunsInv
<1>2. z \in ItemType /\ z.at = at BY <1>1 DEF ItemType, Places
<1>3. item'[r] = [item[r] EXCEPT ![i] = z] BY DEF RunsInv, Put
<1> QED BY <1>2, <1>3

LEMMA RequestsGoOn ==
    ASSUME RunsInv, NEW r \in Runs, NEW x \in Items,
           Admitted(r, x) \/ TryAgain(r, x) \/ BackedOff(r, x)
    PROVE  Local(run'[r], item'[r])
<1>1. item[r][x].at \in Asking /\ run' = run
    BY DEF Admitted, TryAgain, BackedOff, At, Asking
<1>2. PICK z \in ItemType : z.at \in Asking /\ item'[r] = [item[r] EXCEPT ![x] = z]
    <2>1. CASE TryAgain(r, x)
        <3> DEFINE z == [at |-> "back", tries |-> item[r][x].tries + 1]
        <3>1. item[r][x] \in ItemType BY DEF RunsInv
        <3>2. item[r][x].tries + 1 \in 0 .. Attempts - 1
            BY <3>1, <2>1, Constants DEF TryAgain, ItemType
        <3>3. item'[r] = [item[r] EXCEPT ![x] = z]
            BY <2>1 DEF TryAgain, RunsInv
        <3>4. z \in ItemType /\ z.at \in Asking
            BY <3>2 DEF ItemType, Asking
        <3> QED BY <3>3, <3>4
    <2>2. CASE Admitted(r, x)
        <3>1. Put(r, x, "get") /\ "get" \in Places BY <2>2 DEF Admitted, Places
        <3>2. PICK z \in ItemType : z.at = "get" /\ item'[r] = [item[r] EXCEPT ![x] = z]
            BY <3>1, PutOne
        <3> QED BY <3>2 DEF Asking
    <2>3. CASE BackedOff(r, x)
        <3>1. Put(r, x, "ask") /\ "ask" \in Places BY <2>3 DEF BackedOff, Places
        <3>2. PICK z \in ItemType : z.at = "ask" /\ item'[r] = [item[r] EXCEPT ![x] = z]
            BY <3>1, PutOne
        <3> QED BY <3>2 DEF Asking
    <2> QED BY <2>1, <2>2, <2>3
<1>3. Local(run[r], item[r]) /\ run[r] \in RunType BY DEF RunsInv, Local
<1>4. Local(run[r], [item[r] EXCEPT ![x] = z])
    BY <1>1, <1>2, <1>3, OneGoesOn, Zenon DEF Asking, Storing
<1> QED BY <1>1, <1>2, <1>4

LEMMA FilesGoOn ==
    ASSUME RunsInv, NEW r \in Runs, NEW f \in Files,
           GotFile(r, f) \/ Restore(r, f) \/ Prepared(r, f) \/ Clear(r, f) \/ Move(r, f)
    PROVE  Local(run'[r], item'[r])
<1>1. f \in Items /\ Local(run[r], item[r]) /\ run[r] \in RunType
    BY Constants DEF RunsInv, Local
<1>2. item[r][f].at \in {"look", "get"} \cup Storing
    BY DEF GotFile, Restore, Prepared, Clear, Move, At, Storing
<1>3. item[r][f].at \in Storing => Cached /\ Size(f) <= run[r].limit
    BY <1>1, <1>2, Constants DEF Local, Placed, Affordable, Storing
<1>4. item[r][f].at = "look" => Cached
    BY <1>1, Constants DEF Local, Placed
<1>5. PICK at \in Asking \cup Storing \cup {"done"} :
          /\ Put(r, f, at)
          /\ at \in Storing => Cached
          /\ at \in Storing \cup {"done"} => Size(f) <= run[r].limit
    <2>1. CASE GotFile(r, f)
        <3>1. Size(f) <= run[r].limit /\ Put(r, f, IF Cached THEN "copy" ELSE "done")
            BY <2>1 DEF GotFile, Put
        <3> QED BY <3>1 DEF Storing
    <2>2. CASE Restore(r, f) BY <2>2 DEF Restore, Storing, Asking
    <2>3. CASE Prepared(r, f) BY <2>3, <1>3 DEF Prepared, At, Storing
    <2>4. CASE Clear(r, f) BY <2>4, <1>3 DEF Clear, At, Storing
    <2>5. CASE Move(r, f) BY <2>5, <1>3 DEF Move, At, Storing
    <2> QED BY <2>1, <2>2, <2>3, <2>4, <2>5
<1>6. PICK z \in ItemType : z.at = at /\ item'[r] = [item[r] EXCEPT ![f] = z]
    <2>1. at \in Places BY DEF Places, Asking, Storing
    <2> QED BY <1>1, <1>5, <2>1, PutOne
<1>7. /\ run'[r] \in RunType /\ run'[r].phase = run[r].phase /\ run'[r].next = run[r].next
      /\ run'[r].end = run[r].end /\ run'[r].limit = run[r].limit /\ run'[r].total = run[r].total
    <2>1. CASE GotFile(r, f)
        <3>1. run'[r] = [run[r] EXCEPT !.arrived = origin.api] BY <2>1 DEF GotFile, RunsInv
        <3>2. origin.api \in Tokens \X Tokens BY DEF RunsInv, OriginType
        <3> QED BY <1>1, <3>1, <3>2 DEF RunType
    <2>2. CASE Restore(r, f) \/ Prepared(r, f) \/ Clear(r, f) \/ Move(r, f)
        BY <1>1, <2>2 DEF Restore, Prepared, Clear, Move
    <2> QED BY <2>1, <2>2
<1>8. at # "rest" /\ item[r][f].at # "rest" /\ at # "look"
    BY <1>2 DEF Asking, Storing
<1>9. Local(run'[r], [item[r] EXCEPT ![f] = z])
    BY <1>1, <1>5, <1>6, <1>7, <1>8, OneGoesOn
<1> QED BY <1>6, <1>9

LEMMA AtRest ==
    ASSUME NEW x \in RunType, NEW y \in [Items -> ItemType],
           \A i \in Items : y[i].at = "rest",
           x.phase \notin {"hash", "rehash", "batch"},
           x.phase \in {"recheck", "publish", "published"} => x.next = N + 1
    PROVE  Local(x, y)
<1>1. Placed(x, y) BY DEF Placed
<1>2. \A f \in Files : y[f].at = "rest" BY Constants
<1>3. Affordable(x, y) BY <1>2 DEF Affordable, Loading, Storing
<1> QED BY <1>1, <1>3 DEF Local

LEMMA Quiet ==
    ASSUME NEW x, NEW y, Local(x, y),
           x.phase \notin {"hash", "rehash", "catalog", "batch", "dropping"}
    PROVE  \A i \in Items : y[i].at = "rest"
BY DEF Local, Placed

(* The .hash or the catalog is asked for, and nothing else.                *)
LEMMA OneAsks ==
    ASSUME NEW x \in RunType, NEW y \in [Items -> ItemType],
           NEW i \in {Hash, Catalog}, y[i].at = "ask", 
           \A j \in Items \ {i} : y[j].at = "rest",
           \/ x.phase = "catalog" /\ i = Catalog
           \/ x.phase \in {"hash", "rehash"} /\ i = Hash /\ HasHash,
           x.phase = "rehash" => x.next = N + 1
    PROVE  Local(x, y)
<1>1. Placed(x, y) BY DEF Placed, Asking
<1>2. \A f \in Files : y[f].at = "rest" BY Constants
<1>3. Affordable(x, y) BY <1>2 DEF Affordable, Loading, Storing
<1> QED BY <1>1, <1>3 DEF Local

LEMMA RestIsAnItem == Rest \in ItemType /\ Rest.at = "rest"
BY Constants DEF Rest, ItemType

LEMMA PhasesMove ==
    ASSUME RunsInv, NEW r \in Runs, Begin(r) \/ Publish(r) \/ Fail(r)
    PROVE  Local(run'[r], item'[r])
<1>1. Local(run[r], item[r]) /\ run[r] \in RunType /\ item[r] \in [Items -> ItemType]
    BY DEF RunsInv, Local
<1>2. item'[r] = item[r] BY DEF Begin, Publish, Fail
<1>3. PICK phase \in {"failed", "pin", "published", "dropping"} :
          /\ run'[r] = [run[r] EXCEPT !.phase = phase]
          /\ phase = "dropping" <=> Fail(r)
          /\ phase = "published" => Publish(r)
    BY DEF RunsInv, Begin, Publish, Fail, To, Running
<1>4. /\ run'[r] \in RunType /\ run'[r].phase = phase /\ run'[r].next = run[r].next
      /\ run'[r].end = run[r].end /\ run'[r].limit = run[r].limit /\ run'[r].total = run[r].total
    BY <1>1, <1>3 DEF RunType, Running
<1>5. CASE phase = "dropping"
    <2>1. Placed(run'[r], item[r])
        BY <1>1, <1>4, <1>5 DEF Local, Placed
    <2>2. Loading(run'[r], item[r]) => Loading(run[r], item[r])
        BY <1>4, <1>5 DEF Loading
    <2>3. Affordable(run'[r], item[r])
        BY <1>1, <1>4, <1>5, <2>2 DEF Local, Affordable
    <2> QED BY <1>1, <1>2, <1>4, <2>1, <2>3 DEF Local
<1>6. CASE phase # "dropping"
    <2>1. run[r].phase \in {"idle", "publish"} /\ (phase = "published" => run[r].phase = "publish")
        BY <1>3, <1>6 DEF Begin, Publish
    <2>2. \A i \in Items : item[r][i].at = "rest" BY <1>1, <2>1, Quiet
    <2>3. phase = "published" => run'[r].next = N + 1
        BY <1>1, <1>4, <2>1 DEF Local, Affordable
    <2> QED BY <1>1, <1>2, <1>4, <1>6, <2>2, <2>3, AtRest
<1> QED BY <1>5, <1>6

(* What the batch may need at its worst is no more than what remains.      *)
LEMMA WidthFits ==
    ASSUME NEW remaining \in Nat \ {0}
    PROVE  /\ Width(remaining) \in Nat \ {0}
           /\ Limit(remaining) \in 0 .. MaxFile
           /\ Width(remaining) * Limit(remaining) <= remaining
<1>1. MaxFile \in Nat \ {0} /\ Concurrency \in Nat \ {0} BY Constants
<1>2. CASE remaining < MaxFile
    <2>1. remaining \div MaxFile = 0 BY <1>1, <1>2
    <2>2. Width(remaining) = 1 BY <1>1, <2>1 DEF Width
    <2>3. Limit(remaining) = remaining BY <1>2 DEF Limit
    <2> QED BY <1>1, <1>2, <2>2, <2>3
<1>3. CASE remaining >= MaxFile
    <2> DEFINE fit == remaining \div MaxFile
    <2>1. fit \in Nat /\ fit * MaxFile <= remaining BY <1>1
    <2>2. fit >= 1 BY <1>1, <1>3
    <2>3. Width(remaining) = IF fit < Concurrency THEN fit ELSE Concurrency
        BY <2>2, <2>1 DEF Width
    <2>4. Limit(remaining) = MaxFile BY <1>1, <1>3 DEF Limit
    <2> HIDE DEF fit
    <2>5. Width(remaining) \in Nat \ {0} /\ Width(remaining) <= fit
        BY <1>1, <2>1, <2>2, <2>3
    <2>6. Width(remaining) * MaxFile <= fit * MaxFile
        <3> DEFINE w == Width(remaining)
        <3>1. w \in Nat /\ w <= fit BY <2>5
        <3> HIDE DEF w
        <3>2. (fit - w) * MaxFile = fit * MaxFile - w * MaxFile BY <1>1, <2>1, <3>1
        <3>3. (fit - w) * MaxFile >= 0 BY <1>1, <2>1, <3>1
        <3>4. w * MaxFile <= fit * MaxFile BY <1>1, <2>1, <3>1, <3>2, <3>3
        <3> QED BY <3>4 DEF w
    <2>7. Width(remaining) * MaxFile \in Int /\ fit * MaxFile \in Int BY <1>1, <2>1, <2>5
    <2> QED BY <1>1, <2>1, <2>4, <2>5, <2>6, <2>7
<1> QED BY <1>1, <1>2, <1>3

LEMMA Planned ==
    ASSUME RunsInv, NEW r \in Runs, Plan(r)
    PROVE  Local(run'[r], item'[r])
<1> DEFINE remaining == MaxTotal - run[r].total
           last == run[r].next + Width(remaining) - 1
           end == IF last < N THEN last ELSE N
           first == [at |-> IF Cached THEN "look" ELSE "ask", tries |-> 0]
<1>1. run[r] \in RunType BY DEF RunsInv
<1>2. /\ run[r].next \in 1 .. N /\ run[r].total \in 0 .. MaxTotal
      /\ remaining \in Nat \ {0}
    BY <1>1, Constants DEF RunType, Plan
<1>3. /\ Width(remaining) \in Nat \ {0} /\ Limit(remaining) \in 0 .. MaxFile
      /\ Width(remaining) * Limit(remaining) <= remaining
    BY <1>2, WidthFits
<1>4. /\ run'[r] = [run[r] EXCEPT !.phase = "batch", !.end = end, !.limit = Limit(remaining)]
      /\ item'[r] = [x \in Items |-> IF x \in run[r].next .. end THEN first ELSE Rest]
    BY Zenon DEF Plan, RunsInv
<1> HIDE DEF remaining
<1>5. end \in 0 .. N /\ run[r].next <= end /\ end - run[r].next + 1 <= Width(remaining)
    BY <1>2, <1>3, Constants
<1> HIDE DEF end
<1>6. /\ run'[r] \in RunType /\ run'[r].phase = "batch" /\ run'[r].end = end
      /\ run'[r].limit = Limit(remaining) /\ run'[r].next = run[r].next
      /\ run'[r].total = run[r].total
    BY <1>1, <1>3, <1>4, <1>5 DEF RunType, Running
<1>7. first \in ItemType /\ first.at \in {"look", "ask"} /\ (first.at = "look" => Cached)
    BY Constants DEF ItemType
<1> HIDE DEF first
<1>8. item'[r] \in [Items -> ItemType]
    BY <1>4, <1>7, RestIsAnItem
<1>9. \A i \in Items : item'[r][i].at # "rest" =>
         /\ i \in run[r].next .. end /\ i \in Files
         /\ item'[r][i].at \in {"look", "ask"} /\ (item'[r][i].at = "look" => Cached)
    BY <1>2, <1>4, <1>5, <1>7, RestIsAnItem, Constants DEF Files
<1>10. Placed(run'[r], item'[r]) BY <1>6, <1>9 DEF Placed, Storing
<1>11. run[r].total + (end - run[r].next + 1) * Limit(remaining) <= MaxTotal
    <2> DEFINE n == end - run[r].next + 1
               w == Width(remaining)
               l == Limit(remaining)
    <2>1. n \in Nat /\ n <= w /\ w \in Nat /\ l \in Nat BY <1>2, <1>3, <1>5, Constants
    <2>2. w * l <= remaining BY <1>3
    <2> HIDE DEF n, w, l
    <2>3. (w - n) * l = w * l - n * l BY <2>1
    <2>4. (w - n) * l >= 0 BY <2>1
    <2>5. n * l \in Int /\ w * l \in Int BY <2>1
    <2>6. n * l <= remaining BY <1>2, <2>2, <2>3, <2>4, <2>5
    <2>7. run[r].total + n * l <= MaxTotal BY <1>2, <2>5, <2>6, Constants DEF remaining
    <2> QED BY <2>7 DEF n, l
<1>12. Affordable(run'[r], item'[r])
    BY <1>5, <1>6, <1>9, <1>11, Constants DEF Affordable, Loading, Storing
<1> QED BY <1>6, <1>8, <1>10, <1>12 DEF Local

(* The files of a batch that are all there take no more than was reserved. *)
LEMMA JoinedFits ==
    ASSUME RunsInv, NEW r \in Runs, Joined(r)
    PROVE  /\ Batch(r) \subseteq Files
           /\ SumFunctionOnSet(Sizes, Batch(r)) \in Nat
           /\ run[r].total + SumFunctionOnSet(Sizes, Batch(r)) <= MaxTotal
<1>1. run[r] \in RunType /\ Affordable(run[r], item[r]) /\ run[r].phase = "batch"
    BY DEF RunsInv, Local, Joined
<1>2. /\ run[r].next \in 1 .. N + 1 /\ run[r].end \in 0 .. N
      /\ run[r].limit \in Nat /\ run[r].total \in Nat /\ run[r].next <= run[r].end
      /\ run[r].total + (run[r].end - run[r].next + 1) * run[r].limit <= MaxTotal
    BY <1>1, Constants DEF RunType, Affordable, Loading
<1>3. Batch(r) \subseteq Files BY <1>2, Constants DEF Batch, Files
<1>4. /\ IsFiniteSet(Batch(r))
      /\ Cardinality(Batch(r)) = run[r].end - run[r].next + 1
    <2>1. run[r].next \in Int /\ run[r].end \in Int BY <1>2, Constants
    <2> DEFINE S == run[r].next .. run[r].end
    <2>2. IsFiniteSet(S)
        BY <2>1, FS_Interval
    <2>3. Cardinality(S) = IF run[r].next > run[r].end THEN 0 ELSE run[r].end - run[r].next + 1
        BY <2>1, FS_Interval
    <2>4. Batch(r) = S BY DEF Batch
    <2> HIDE DEF S
    <2>5. Cardinality(S) = run[r].end - run[r].next + 1 BY <1>2, <2>1, <2>3
    <2> QED BY <2>2, <2>4, <2>5
<1>5. \A f \in Batch(r) : Sizes[f] \in Nat /\ Sizes[f] <= run[r].limit
    <2>1. \A f \in Batch(r) : item[r][f].at = "done" BY DEF Joined
    <2>2. \A f \in Files : item[r][f].at = "done" => Size(f) <= run[r].limit
        BY <1>1 DEF Affordable
    <2> QED BY <1>3, <2>1, <2>2, Constants DEF Sizes
<1>6. SumFunctionOnSet(Sizes, Batch(r)) \in Nat BY <1>4, <1>5, SumNat
<1>7. SumFunctionOnSet(Sizes, Batch(r)) <= Cardinality(Batch(r)) * run[r].limit
    BY <1>2, <1>4, <1>5, SumBound
<1> DEFINE sum == SumFunctionOnSet(Sizes, Batch(r))
           room == (run[r].end - run[r].next + 1) * run[r].limit
<1>8. sum \in Nat /\ sum <= room /\ room \in Int /\ run[r].total + room <= MaxTotal
    BY <1>2, <1>4, <1>6, <1>7, Constants
<1> HIDE DEF sum, room
<1>9. run[r].total + sum <= MaxTotal BY <1>2, <1>8, Constants
<1> QED BY <1>3, <1>6, <1>9 DEF sum

LEMMA JoinedRests ==
    ASSUME RunsInv, NEW r \in Runs, Joined(r)
    PROVE  Local(run'[r], item'[r])
<1> DEFINE total == run[r].total + SumFunctionOnSet(Sizes, Batch(r))
           phase == IF run[r].end = N THEN "recheck" ELSE "plan"
<1>1. run[r] \in RunType BY DEF RunsInv
<1>2. /\ run'[r] = [run[r] EXCEPT !.phase = phase, !.next = run[r].end + 1, !.total = total]
      /\ item'[r] = [x \in Items |-> Rest]
    BY DEF RunsInv, Joined
<1>3. total \in 0 .. MaxTotal
    <2>1. run[r].total \in Nat BY <1>1, Constants DEF RunType
    <2> QED BY <2>1, JoinedFits, Constants
<1> HIDE DEF total
<1>4. run[r].end + 1 \in 1 .. N + 1 BY <1>1, Constants DEF RunType
<1>5. run'[r] \in RunType /\ run'[r].phase = phase /\ run'[r].next = run[r].end + 1
    BY <1>1, <1>2, <1>3, <1>4 DEF RunType, Running
<1>6. item'[r] \in [Items -> ItemType] /\ \A i \in Items : item'[r][i].at = "rest"
    BY <1>2, RestIsAnItem
<1> QED BY <1>5, <1>6, AtRest

LEMMA OthersMove ==
    ASSUME RunsInv, NEW r \in Runs,
           Pin(r) \/ Recheck(r) \/ Dropped(r) \/ GotHash(r) \/ GotCatalog(r)
    PROVE  Local(run'[r], item'[r])
<1>1. /\ Local(run[r], item[r]) /\ run[r] \in RunType /\ item[r] \in [Items -> ItemType]
      /\ run[r] \in RunType /\ origin \in OriginType
      /\ run \in [Runs -> RunType] /\ item \in [Runs -> [Items -> ItemType]]
    BY DEF RunsInv, Local
<1>2. Hash \in Items /\ Catalog \in Items /\ Hash # Catalog BY Constants
<1>3. \A i \in Items : [item[r][i] EXCEPT !.at = "ask"] \in ItemType
    BY <1>1 DEF ItemType
<1>4. \A i \in Items : [item[r][i] EXCEPT !.at = "rest"] \in ItemType
    BY <1>1 DEF ItemType
<1>5. CASE Pin(r)
    <2>1. \A i \in Items : item[r][i].at = "rest" BY <1>1, <1>5, Quiet DEF Pin
    <2>2. run'[r] \in RunType /\ run'[r].phase = IF HasHash THEN "hash" ELSE "catalog"
        <3>1. run'[r] = [run[r] EXCEPT !.phase = IF HasHash THEN "hash" ELSE "catalog",
                                       !.pin = origin.api]
            BY <1>1, <1>2, <1>5 DEF Pin, FirstRequest
        <3>2. origin.api \in Tokens \X Tokens BY <1>1 DEF OriginType
        <3> QED BY <1>1, <3>1, <3>2 DEF RunType, Running
    <2>3. FirstRequest = (IF HasHash THEN Hash ELSE Catalog) /\ FirstRequest \in Items
        BY <1>2 DEF FirstRequest
    <2>4. item'[r] = [item[r] EXCEPT ![FirstRequest].at = "ask"]
        BY <1>1, <1>5 DEF Pin
    <2>5. /\ item'[r] \in [Items -> ItemType]
          /\ item'[r][FirstRequest].at = "ask"
          /\ \A j \in Items \ {FirstRequest} : item'[r][j] = item[r][j]
        BY <1>1, <1>3, <2>3, <2>4 DEF ItemType
    <2>6. FirstRequest \in {Hash, Catalog} /\ \A j \in Items \ {FirstRequest} : item'[r][j].at = "rest"
        BY <2>1, <2>3, <2>5
    <2>7. \/ run'[r].phase = "catalog" /\ FirstRequest = Catalog
          \/ run'[r].phase \in {"hash", "rehash"} /\ FirstRequest = Hash /\ HasHash
        BY <2>2, <2>3
    <2>8. run'[r].phase # "rehash" BY <2>2
    <2> QED BY <2>2, <2>5, <2>6, <2>7, <2>8, OneAsks
<1>6. CASE Recheck(r)
    <2>1. \A i \in Items : item[r][i].at = "rest" BY <1>1, <1>6, Quiet DEF Recheck
    <2>2. run[r].next = N + 1 BY <1>1, <1>6 DEF Recheck, Local, Affordable
    <2>3. /\ run'[r] \in RunType /\ run'[r].next = N + 1
          /\ run'[r].phase = IF HasHash THEN "rehash" ELSE "publish"
        BY <1>1, <1>6, <2>2 DEF Recheck, RunType, Running
    <2>4. CASE HasHash
        <3>1. item'[r] = [item[r] EXCEPT ![Hash].at = "ask"] BY <1>1, <1>6, <2>4 DEF Recheck
        <3>2. /\ item'[r] \in [Items -> ItemType] /\ item'[r][Hash].at = "ask"
              /\ \A j \in Items \ {Hash} : item'[r][j] = item[r][j]
            BY <1>1, <1>2, <1>3, <3>1 DEF ItemType
        <3> QED BY <2>1, <2>3, <2>4, <3>2, OneAsks
    <2>5. CASE ~HasHash
        <3>1. item'[r] = item[r] BY <1>6, <2>5 DEF Recheck
        <3> QED BY <1>1, <2>1, <2>3, <2>5, <3>1, AtRest
    <2> QED BY <2>4, <2>5
<1>7. CASE Dropped(r)
    <2>1. /\ run'[r] = [run[r] EXCEPT !.phase = "failed"]
          /\ item'[r] = [x \in Items |-> Rest]
        BY <1>1, <1>7 DEF Dropped, To
    <2>2. run'[r] \in RunType /\ run'[r].phase = "failed" BY <1>1, <2>1 DEF RunType
    <2>3. item'[r] \in [Items -> ItemType] /\ \A i \in Items : item'[r][i].at = "rest"
        BY <2>1, RestIsAnItem
    <2> QED BY <2>2, <2>3, AtRest
<1>8. CASE GotHash(r)
    <2> DEFINE token == origin.token[run[r].pin[1]]
               first == run[r].phase = "hash"
    <2>1. token \in Tokens BY <1>1 DEF OriginType, RunType
    <2>2. item[r][Hash].at = "get" /\ run[r].phase \in {"hash", "rehash"}
        <3>1. item[r][Hash].at = "get" /\ run[r].phase # "dropping" BY <1>8 DEF GotHash, At
        <3> QED BY <1>1, <1>2, <3>1, Constants DEF Local, Placed
    <2>3. \A i \in Items \ {Hash} : item[r][i].at = "rest"
        BY <1>1, <2>2 DEF Local, Placed
    <2>4. run'[r] = [run[r] EXCEPT !.phase = IF first THEN "catalog" ELSE "publish", !.hash = token]
        BY <1>1, <1>8 DEF GotHash
    <2> HIDE DEF token
    <2>5. /\ run'[r] \in RunType /\ run'[r].next = run[r].next
          /\ run'[r].phase = IF first THEN "catalog" ELSE "publish"
        BY <1>1, <2>1, <2>4 DEF RunType, Running
    <2>6. ~first => run[r].next = N + 1
        BY <1>1, <2>2 DEF Local, Affordable
    <2>7. item'[r] = [item[r] EXCEPT ![Hash] = Rest, ![Catalog].at = IF first THEN "ask" ELSE "rest"]
        BY <1>1, <1>2, <1>8 DEF GotHash
    <2>8. /\ item'[r] \in [Items -> ItemType]
          /\ item'[r][Hash].at = "rest"
          /\ item'[r][Catalog].at = IF first THEN "ask" ELSE "rest"
          /\ \A i \in Items \ {Hash, Catalog} : item'[r][i] = item[r][i]
        <3> DEFINE c == [item[r][Catalog] EXCEPT !.at = IF first THEN "ask" ELSE "rest"]
        <3>1. item[r][Catalog] \in ItemType BY <1>1, <1>2
        <3>2. c \in ItemType /\ c.at = IF first THEN "ask" ELSE "rest" BY <3>1 DEF ItemType
        <3>3. item'[r] = [[item[r] EXCEPT ![Hash] = Rest] EXCEPT ![Catalog] = c]
            BY <1>1, <1>2, <2>7
        <3> HIDE DEF c
        <3> QED BY <1>1, <1>2, <3>2, <3>3, RestIsAnItem
    <2>9. CASE first
        <3>1. run'[r].phase = "catalog" /\ item'[r][Catalog].at = "ask" BY <2>5, <2>8, <2>9
        <3>2. \A j \in Items \ {Catalog} : item'[r][j].at = "rest" BY <2>3, <2>8
        <3> QED BY <2>5, <2>8, <3>1, <3>2, OneAsks
    <2>10. CASE ~first
        BY <1>2, <2>3, <2>5, <2>6, <2>8, <2>10, AtRest
    <2> QED BY <2>9, <2>10
<1>9. CASE GotCatalog(r)
    <2>1. item[r][Catalog].at = "get" /\ run[r].phase \in {"catalog"}
        <3>1. item[r][Catalog].at = "get" /\ run[r].phase # "dropping" BY <1>9 DEF GotCatalog, At
        <3> QED BY <1>1, <1>2, <3>1, Constants DEF Local, Placed
    <2>2. \A i \in Items \ {Catalog} : item[r][i].at = "rest"
        BY <1>1, <2>1 DEF Local, Placed
    <2>3. run'[r] = [run[r] EXCEPT !.phase = "plan", !.catalog = origin.token[run[r].pin[1]],
                                   !.arrived = origin.api]
        BY <1>1, <1>9 DEF GotCatalog
    <2>4. origin.token[run[r].pin[1]] \in Tokens /\ origin.api \in Tokens \X Tokens
        BY <1>1 DEF OriginType, RunType
    <2>5. run'[r] \in RunType /\ run'[r].phase = "plan"
        BY <1>1, <2>3, <2>4 DEF RunType, Running
    <2>6. item'[r] = [item[r] EXCEPT ![Catalog] = Rest] BY <1>1, <1>9 DEF GotCatalog
    <2>7. item'[r] \in [Items -> ItemType] /\ \A i \in Items : item'[r][i].at = "rest"
        BY <1>1, <1>2, <2>2, <2>6, RestIsAnItem
    <2> QED BY <2>5, <2>7, AtRest
<1> QED BY <1>5, <1>6, <1>7, <1>8, <1>9

LEMMA StepsKeepRuns ==
    ASSUME RunsInv, NEW r \in Runs, Step(r)
    PROVE  /\ OnlyOf(r) /\ Local(run'[r], item'[r]) /\ origin' = origin
           /\ \A q \in Runs \ {r} : run'[q] = run[q] /\ item'[q] = item[q]
           /\ RunsInv'
<1>1. OnlyOf(r) BY StepsAreLocal
<1>2. Local(run'[r], item'[r])
    BY PhasesMove, Planned, JoinedRests, OthersMove, RequestsGoOn, FilesGoOn DEF Step, Request
<1>3. origin' = origin
    BY DEF Step, Request, Begin, Pin, Plan, Joined, Recheck, Publish, Fail, Dropped, GotHash,
           GotCatalog, Admitted, TryAgain, BackedOff, GotFile, Restore, Prepared, Clear, Move
<1>4. \A q \in Runs \ {r} : run'[q] = run[q] /\ item'[q] = item[q]
    BY <1>1 DEF RunsInv, OnlyOf
<1>5. run' \in [Runs -> RunType] /\ item' \in [Runs -> [Items -> ItemType]]
    BY <1>1, <1>2 DEF RunsInv, OnlyOf, Local
<1>6. \A q \in Runs : Local(run'[q], item'[q])
    BY <1>2, <1>4 DEF RunsInv
<1>7. RunsInv'
    BY <1>3, <1>5, <1>6 DEF RunsInv
<1> QED BY <1>1, <1>2, <1>3, <1>4, <1>7

-----------------------------------------------------------------------------
(* The origin, and what a run has read of it.                              *)

(* Moments of the origin: both parts only grow.                            *)
Upto(a, b) == a[1] <= b[1] /\ a[2] <= b[2]

OriginInv ==
    /\ origin.version <= origin.changes
    /\ origin.token[origin.version] = origin.changes
    /\ \A v \in Tokens : origin.token[v] <= origin.changes
    /\ Upto(origin.api, <<origin.version, origin.changes>>)
    /\ origin.api[2] <= origin.token[origin.api[1]]
    /\ ~HasHash => origin.api[2] = origin.token[origin.api[1]]

(* The pinned moment is no later than that of the catalog, nor that of the *)
(* last file; in the end all of them are the same.                         *)
Dated(x, o) ==
    /\ Upto(x.pin, o.api)
    /\ x.pin[2] <= o.token[x.pin[1]]
    /\ x.phase \in {"catalog"} \cup Read =>
          IF HasHash THEN x.hash = x.pin[2] ELSE x.pin[2] = o.token[x.pin[1]]
    /\ x.phase \in Read =>
          /\ Upto(x.pin, x.arrived) /\ Upto(x.arrived, o.api)
          /\ x.pin[2] <= x.catalog /\ x.catalog <= o.token[x.pin[1]]
    /\ x.phase \in {"rehash", "publish", "published"} => x.arrived = x.pin
    /\ x.phase \in {"publish", "published"} => x.catalog = x.pin[2]

(* What the origin reports and holds only grows; a layout without a .hash  *)
(* never replaces the catalog of a version.                                *)
Grows ==
    /\ origin' \in OriginType
    /\ Upto(origin.api, origin'.api)
    /\ \A v \in Tokens : origin.token[v] <= origin'.token[v]
    /\ ~HasHash => \A v \in Tokens : v <= origin.version => origin'.token[v] = origin.token[v]

LEMMA OriginMoves ==
    ASSUME origin \in OriginType, OriginInv, Release \/ Report
    PROVE  Grows /\ OriginInv'
<1> DEFINE version == origin.version
           token == origin.token
           api == origin.api
           changes == origin.changes
<1>1. /\ version \in Tokens /\ changes \in Tokens /\ token \in [Tokens -> Tokens]
      /\ api \in Tokens \X Tokens /\ Changes \in Nat
      /\ origin = [version |-> version, api |-> api, changes |-> changes, token |-> token]
    BY Constants DEF OriginType
<1>2. /\ version <= changes /\ token[version] = changes
      /\ \A v \in Tokens : token[v] <= changes
      /\ api[1] <= version /\ api[2] <= changes
      /\ api[2] <= token[api[1]] /\ (~HasHash => api[2] = token[api[1]])
    BY DEF OriginInv, Upto
<1>3. api[1] \in Tokens /\ api[2] \in Tokens /\ api = <<api[1], api[2]>> BY <1>1
<1>4. /\ Tokens \subseteq Nat /\ \A n \in Nat : n \in Tokens <=> n <= Changes
    BY <1>1 DEF Tokens
<1>5. version \in Nat /\ changes \in Nat /\ \A w \in Tokens : token[w] \in Nat
    BY <1>1, <1>4
<1>6. CASE Release
    <2>1. PICK v :
              /\ v = version \/ v = version + 1
              /\ (v = version => HasHash) /\ changes + 1 <= Changes
              /\ origin' = [version |-> v, api |-> api, changes |-> changes + 1,
                            token |-> [token EXCEPT ![v] = changes + 1]]
        <3>1. CASE HasHash /\ origin' = [origin EXCEPT !.token[version] = changes + 1,
                                                      !.changes = changes + 1]
            BY <1>1, <1>6, <3>1 DEF Release
        <3>2. CASE origin' = [origin EXCEPT !.version = version + 1, !.changes = changes + 1,
                                            !.token[version + 1] = changes + 1]
            <4>1. changes + 1 <= Changes BY <1>6 DEF Release
            <4>2. origin' = [version |-> version + 1, api |-> api, changes |-> changes + 1,
                            token |-> [token EXCEPT ![version + 1] = changes + 1]]
                BY <1>1, <3>2
            <4>3. version + 1 # version BY <1>1 DEF Tokens
            <4> QED BY <4>1, <4>2, <4>3
        <3> QED BY <1>6, <3>1, <3>2 DEF Release
    <2> HIDE DEF version, token, api, changes
    <2>2. v \in Tokens /\ changes + 1 \in Tokens /\ v <= changes + 1
        <3>1. version \in Nat /\ changes \in Nat /\ version <= changes /\ changes + 1 <= Changes
            BY <1>1, <1>2, <2>1 DEF Tokens
        <3>2. v = version \/ v = version + 1 BY <2>1
        <3>3. v \in Nat /\ v <= changes + 1 /\ v <= Changes BY <3>1, <3>2, <1>5, Constants
        <3> QED BY <1>4, <1>5, <3>1, <3>3
    <2> DEFINE t == [token EXCEPT ![v] = changes + 1]
    <2>3. t \in [Tokens -> Tokens] /\ t[v] = changes + 1 /\ \A w \in Tokens \ {v} : t[w] = token[w]
        BY <1>1, <2>2
    <2>4. /\ origin'.version = v /\ origin'.api = api /\ origin'.changes = changes + 1
          /\ origin'.token = t
        BY <2>1
    <2>5. origin' \in OriginType BY <1>1, <2>1, <2>2, <2>3 DEF OriginType
    <2> HIDE DEF t
    <2>6. \A w \in Tokens : token[w] <= t[w] /\ t[w] <= changes + 1
        <3> SUFFICES ASSUME NEW w \in Tokens PROVE token[w] <= t[w] /\ t[w] <= changes + 1
            OBVIOUS
        <3>1. token[w] \in Nat /\ changes \in Nat /\ token[w] <= changes BY <1>2, <1>5
        <3>2. t[w] = changes + 1 \/ t[w] = token[w] BY <2>3
        <3> QED BY <3>1, <3>2
    <2>7. \A w \in Tokens : w <= version /\ ~HasHash => t[w] = token[w]
        BY <1>1, <2>1, <2>3 DEF Tokens
    <2>8. Upto(api, api) BY <1>3 DEF Upto, Tokens
    <2>9. Grows BY <2>4, <2>5, <2>6, <2>7, <2>8 DEF Grows, version, token, api
    <2>10. api[1] <= v /\ api[2] <= changes + 1 /\ api[2] <= t[api[1]]
        <3>1. /\ version \in Nat /\ changes \in Nat /\ api[1] \in Nat /\ api[2] \in Nat
              /\ token[api[1]] \in Nat /\ t[api[1]] \in Nat
            BY <1>1, <1>3, <2>3 DEF Tokens
        <3>2. v = version \/ v = version + 1 BY <2>1
        <3>3. api[1] <= v /\ api[2] <= changes + 1 BY <1>2, <3>1, <3>2
        <3>4. token[api[1]] <= t[api[1]] /\ api[2] <= token[api[1]] BY <1>2, <1>3, <2>6
        <3>5. api[2] <= t[api[1]] BY <3>1, <3>4
        <3> QED BY <3>3, <3>5
    <2>11. ~HasHash => api[2] = t[api[1]]
        BY <1>2, <1>3, <2>7
    <2>12. OriginInv' BY <2>2, <2>3, <2>4, <2>6, <2>10, <2>11 DEF OriginInv, Upto
    <2> QED BY <2>9, <2>12
<1>7. CASE Report
    <2>1. origin' = [version |-> version, api |-> <<version, token[version]>>, changes |-> changes,
                    token |-> token]
        BY <1>1, <1>7 DEF Report
    <2> HIDE DEF version, token, api, changes
    <2>2. /\ origin'.version = version /\ origin'.api = <<version, changes>>
          /\ origin'.changes = changes /\ origin'.token = token
        BY <1>2, <2>1
    <2>3. origin' \in OriginType BY <1>1, <2>1 DEF OriginType
    <2>4. Grows BY <1>1, <1>2, <2>2, <2>3 DEF Grows, Upto, Tokens, version, token, api
    <2>5. OriginInv' BY <1>1, <1>2, <2>2 DEF OriginInv, Upto, Tokens
    <2> QED BY <2>4, <2>5
<1> QED BY <1>6, <1>7

LEMMA DatesStay ==
    ASSUME origin \in OriginType, OriginInv, Grows, NEW x \in RunType, Dated(x, origin)
    PROVE  Dated(x, origin')
<1>1. /\ x.pin \in Tokens \X Tokens /\ x.pin[1] \in Tokens /\ x.pin[2] \in Tokens
      /\ x.arrived[1] \in Tokens /\ x.arrived[2] \in Tokens /\ x.catalog \in Tokens
    BY DEF RunType
<1>2. /\ origin.version \in Tokens /\ origin.api[1] \in Tokens /\ origin.api[2] \in Tokens
      /\ origin'.api[1] \in Tokens /\ origin'.api[2] \in Tokens
      /\ origin.token[x.pin[1]] \in Tokens /\ origin'.token[x.pin[1]] \in Tokens
    BY <1>1 DEF Grows, OriginType
<1>3. /\ origin.api[1] <= origin'.api[1] /\ origin.api[2] <= origin'.api[2]
      /\ origin.token[x.pin[1]] <= origin'.token[x.pin[1]]
    BY <1>1 DEF Grows, Upto
<1>4. /\ x.pin[1] <= origin.api[1] /\ x.pin[2] <= origin.api[2]
      /\ origin.api[1] <= origin.version
    BY DEF Dated, Upto, OriginInv
<1>5. ~HasHash => origin'.token[x.pin[1]] = origin.token[x.pin[1]]
    BY <1>1, <1>2, <1>4 DEF Grows, Tokens
<1> QED BY <1>1, <1>2, <1>3, <1>4, <1>5 DEF Dated, Upto, Tokens

(* What a step of a run reads of the origin, and how far it goes with it.  *)
Same(x, y) ==
    y.pin = x.pin /\ y.hash = x.hash /\ y.catalog = x.catalog /\ y.arrived = x.arrived

Reads(x, y) ==
    \/ /\ Same(x, y)
       /\ \/ y.phase \notin {"catalog"} \cup Read
          \/ x.phase \in Read /\ y.phase \in {"plan", "batch", "recheck"}
          \/ x.phase = "publish" /\ y.phase = "published"
    \/ y = x
    \/ y.pin = origin.api /\ y.phase = IF HasHash THEN "hash" ELSE "catalog"
    \/ /\ Same(x, y) /\ x.phase = "recheck" /\ origin.api = x.pin
       /\ y.phase = IF HasHash THEN "rehash" ELSE "publish"
    \/ /\ y.pin = x.pin /\ y.catalog = x.catalog /\ y.arrived = x.arrived
       /\ y.hash = origin.token[x.pin[1]] /\ HasHash
       /\ \/ x.phase = "hash" /\ y.phase = "catalog" /\ y.hash = x.pin[2]
          \/ x.phase = "rehash" /\ y.phase = "publish" /\ y.hash = x.hash
    \/ /\ y.pin = x.pin /\ y.hash = x.hash /\ y.arrived = origin.api
       /\ \/ x.phase = "catalog" /\ y.phase = "plan" /\ y.catalog = origin.token[x.pin[1]]
          \/ x.phase = "batch" /\ y.phase = "batch" /\ y.catalog = x.catalog

LEMMA ReadsAreDated ==
    ASSUME origin \in OriginType, OriginInv, NEW x \in RunType, NEW y, Dated(x, origin), Reads(x, y)
    PROVE  Dated(y, origin)
<1> DEFINE now == origin.token[x.pin[1]]
           api == origin.api
<1>1. Tokens \subseteq Nat BY Constants DEF Tokens
<1>2. /\ x.pin \in Tokens \X Tokens /\ x.arrived \in Tokens \X Tokens
      /\ api \in Tokens \X Tokens /\ x.catalog \in Tokens /\ x.hash \in Tokens
    BY DEF RunType, OriginType
<1>3. now \in Tokens BY <1>2 DEF OriginType
<1>4. /\ x.pin[1] \in Nat /\ x.pin[2] \in Nat /\ x.arrived[1] \in Nat /\ x.arrived[2] \in Nat
      /\ api[1] \in Nat /\ api[2] \in Nat /\ x.catalog \in Nat /\ now \in Nat
    BY <1>1, <1>2, <1>3
<1>5. Upto(x.pin, api) /\ x.pin[2] <= now BY DEF Dated
<1>6. Upto(api, api) /\ now <= now BY <1>4 DEF Upto
<1>7. CASE /\ Same(x, y)
           /\ \/ y.phase \notin {"catalog"} \cup Read
              \/ x.phase \in Read /\ y.phase \in {"plan", "batch", "recheck"}
              \/ x.phase = "publish" /\ y.phase = "published"
    BY <1>7 DEF Dated, Read, Same
<1>8. CASE y.pin = api /\ y.phase = IF HasHash THEN "hash" ELSE "catalog"
    BY <1>6, <1>8 DEF Dated, Read, OriginInv
<1>9. CASE /\ Same(x, y) /\ x.phase = "recheck" /\ api = x.pin
           /\ y.phase = IF HasHash THEN "rehash" ELSE "publish"
    <2>1. /\ Upto(x.pin, x.arrived) /\ Upto(x.arrived, api)
          /\ x.pin[2] <= x.catalog /\ x.catalog <= now
          /\ IF HasHash THEN x.hash = x.pin[2] ELSE x.pin[2] = now
        BY <1>9 DEF Dated, Read
    <2>2. x.arrived[1] = x.pin[1] /\ x.arrived[2] = x.pin[2]
        BY <1>4, <1>9, <2>1 DEF Upto
    <2>3. x.arrived = x.pin BY <1>2, <2>2
    <2>4. ~HasHash => x.catalog = x.pin[2] BY <1>4, <2>1
    <2> QED BY <1>5, <1>9, <2>1, <2>3, <2>4 DEF Dated, Read, Same
<1>10. CASE /\ y.pin = x.pin /\ y.catalog = x.catalog /\ y.arrived = x.arrived
            /\ y.hash = now /\ HasHash
            /\ \/ x.phase = "hash" /\ y.phase = "catalog" /\ y.hash = x.pin[2]
               \/ x.phase = "rehash" /\ y.phase = "publish" /\ y.hash = x.hash
    <2>1. x.phase = "rehash" =>
              /\ x.hash = x.pin[2] /\ x.arrived = x.pin
              /\ Upto(x.pin, x.arrived) /\ Upto(x.arrived, api)
              /\ x.pin[2] <= x.catalog /\ x.catalog <= now
        BY <1>10 DEF Dated, Read
    <2>2. x.phase = "rehash" => x.catalog = x.pin[2] BY <1>4, <1>10, <2>1
    <2> QED BY <1>5, <1>10, <2>1, <2>2 DEF Dated, Read
<1>11. CASE /\ y.pin = x.pin /\ y.hash = x.hash /\ y.arrived = api
            /\ \/ x.phase = "catalog" /\ y.phase = "plan" /\ y.catalog = now
               \/ x.phase = "batch" /\ y.phase = "batch" /\ y.catalog = x.catalog
    <2>1. IF HasHash THEN x.hash = x.pin[2] ELSE x.pin[2] = now
        BY <1>11 DEF Dated, Read
    <2>2. x.phase = "batch" => x.pin[2] <= x.catalog /\ x.catalog <= now
        BY DEF Dated, Read
    <2> QED BY <1>5, <1>6, <1>11, <2>1, <2>2 DEF Dated, Read
<1> QED BY <1>7, <1>8, <1>9, <1>10, <1>11 DEF Reads

LEMMA StepsRead ==
    ASSUME RunsInv, NEW r \in Runs, Step(r)
    PROVE  Reads(run[r], run'[r])
<1>1. /\ run[r] \in RunType /\ run \in [Runs -> RunType]
      /\ item \in [Runs -> [Items -> ItemType]] /\ Local(run[r], item[r])
    BY DEF RunsInv
<1>2. CASE Begin(r) \/ Publish(r) \/ Fail(r) \/ Dropped(r)
    <2>1. PICK phase \in {"failed", "pin", "published", "dropping"} :
              run'[r] = [run[r] EXCEPT !.phase = phase] /\ (phase = "published" => run[r].phase = "publish")
        BY <1>1, <1>2 DEF Begin, Publish, Fail, Dropped, To
    <2>2. Same(run[r], run'[r]) /\ run'[r].phase = phase
        BY <1>1, <2>1 DEF RunType, Same
    <2> QED BY <2>1, <2>2 DEF Reads, Read
<1>3. CASE Plan(r) \/ Joined(r)
    <2>1. Same(run[r], run'[r]) BY <1>1, <1>3 DEF Plan, Joined, RunType, Same
    <2>2. run[r].phase \in {"plan", "batch"} /\ run'[r].phase \in {"plan", "batch", "recheck"}
        BY <1>1, <1>3 DEF Plan, Joined, RunType
    <2> QED BY <2>1, <2>2 DEF Reads, Read
<1>4. CASE Pin(r)
    <2>1. FirstRequest = Hash <=> HasHash BY Constants DEF FirstRequest
    <2> QED BY <1>1, <1>4, <2>1 DEF Pin, RunType, Reads
<1>5. CASE Recheck(r)
    BY <1>1, <1>5 DEF Recheck, RunType, Same, Reads
<1>6. CASE GotHash(r)
    <2>1. run[r].phase \in {"hash", "rehash"} /\ HasHash
        <3>1. item[r][Hash].at # "rest" /\ run[r].phase # "dropping" BY <1>6 DEF GotHash, At
        <3> QED BY <1>1, <3>1, Constants DEF Local, Placed
    <2> DEFINE now == origin.token[run[r].pin[1]]
    <2>2. now = IF run[r].phase = "hash" THEN run[r].pin[2] ELSE run[r].hash
        BY <1>6 DEF GotHash
    <2>3. run'[r] = [run[r] EXCEPT !.phase = IF run[r].phase = "hash" THEN "catalog" ELSE "publish",
                                   !.hash = now]
        BY <1>1, <1>6 DEF GotHash
    <2> HIDE DEF now
    <2>4. /\ run'[r].phase = IF run[r].phase = "hash" THEN "catalog" ELSE "publish"
          /\ run'[r].hash = now /\ run'[r].pin = run[r].pin
          /\ run'[r].catalog = run[r].catalog /\ run'[r].arrived = run[r].arrived
        BY <1>1, <2>3 DEF RunType
    <2> QED BY <2>1, <2>2, <2>4 DEF Reads, now
<1>7. CASE GotCatalog(r)
    <2>1. run[r].phase = "catalog"
        <3>1. item[r][Catalog].at # "rest" /\ run[r].phase # "dropping" BY <1>7 DEF GotCatalog, At
        <3> QED BY <1>1, <3>1, Constants DEF Local, Placed
    <2> QED BY <1>1, <1>7, <2>1 DEF GotCatalog, RunType, Reads
<1>8. ASSUME NEW f \in Files, GotFile(r, f) PROVE Reads(run[r], run'[r])
    <2>1. run[r].phase = "batch"
        <3>1. item[r][f].at # "rest" /\ run[r].phase # "dropping" BY <1>8 DEF GotFile, At
        <3> QED BY <1>1, <3>1, Constants DEF Local, Placed
    <2> QED BY <1>1, <1>8, <2>1 DEF GotFile, RunType, Reads
<1>9. ASSUME NEW i \in Items, Admitted(r, i) \/ TryAgain(r, i) \/ BackedOff(r, i)
      PROVE  Reads(run[r], run'[r])
    BY <1>9 DEF Admitted, TryAgain, BackedOff, Reads
<1>10. ASSUME NEW f \in Files, Restore(r, f) \/ Prepared(r, f) \/ Clear(r, f) \/ Move(r, f)
       PROVE  Reads(run[r], run'[r])
    BY <1>10 DEF Restore, Prepared, Clear, Move, Reads
<1> QED BY <1>2, <1>3, <1>4, <1>5, <1>6, <1>7, <1>8, <1>9, <1>10 DEF Step, Request

LEMMA KillRests ==
    ASSUME RunsInv, Kill, NEW r \in Runs
    PROVE  /\ Local(run'[r], item'[r])
           /\ Same(run[r], run'[r])
           /\ run'[r].phase \in {run[r].phase, "killed"}
           /\ run'[r].phase \notin Holding
           /\ \A i \in Items : item'[r][i].at = "rest"
<1>1. /\ run[r] \in RunType /\ run \in [Runs -> RunType]
      /\ item \in [Runs -> [Items -> ItemType]] /\ Local(run[r], item[r])
    BY DEF RunsInv
<1>2. item'[r] \in [Items -> ItemType] /\ \A i \in Items : item'[r][i].at = "rest"
    BY <1>1, RestIsAnItem DEF Kill
<1>3. run'[r] = IF run[r].phase \in Holding THEN [run[r] EXCEPT !.phase = "killed"] ELSE run[r]
    BY DEF Kill, Holding
<1>4. CASE run[r].phase \in Holding
    <2>1. run'[r] \in RunType /\ run'[r].phase = "killed" /\ Same(run[r], run'[r])
        BY <1>1, <1>3, <1>4 DEF RunType, Same
    <2>2. Local(run'[r], item'[r]) BY <1>2, <2>1, AtRest
    <2> QED BY <1>2, <2>1, <2>2 DEF Holding, Running
<1>5. CASE run[r].phase \notin Holding
    <2>1. run'[r] = run[r] BY <1>3, <1>5
    <2>2. run[r].phase \in {"recheck", "publish", "published"} => run[r].next = N + 1
        BY <1>1 DEF Local, Affordable
    <2>3. Local(run[r], item'[r])
        BY <1>1, <1>2, <1>5, <2>2, AtRest DEF Holding, Running
    <2> QED BY <1>2, <1>5, <2>1, <2>3 DEF Same
<1> QED BY <1>4, <1>5

VersionInv == RunsInv /\ OriginInv /\ \A r \in Runs : Dated(run[r], origin)

LEMMA VersionStep ==
    ASSUME VersionInv, [Next]_vars
    PROVE  VersionInv'
<1> USE DEF VersionInv
<1>1. CASE UNCHANGED vars
    BY <1>1 DEF vars, RunsInv, OriginInv, Dated
<1>2. CASE Release \/ Report
    <2>1. run' = run /\ item' = item BY <1>2 DEF Release, Report
    <2>2. Grows /\ OriginInv' BY <1>2, OriginMoves DEF RunsInv
    <2>3. RunsInv' BY <2>1, <2>2 DEF RunsInv, Grows
    <2>4. ASSUME NEW r \in Runs PROVE Dated(run'[r], origin')
        <3>1. run[r] \in RunType /\ Dated(run[r], origin) BY DEF RunsInv
        <3>2. Dated(run[r], origin') BY <2>2, <3>1, DatesStay DEF RunsInv
        <3> QED BY <2>1, <3>2
    <2> QED BY <2>2, <2>3, <2>4
<1>3. CASE Kill
    <2>1. origin' = origin BY <1>3 DEF Kill
    <2>2. RunsInv'
        <3>1. item' \in [Runs -> [Items -> ItemType]] BY <1>3, RestIsAnItem DEF Kill
        <3>2. \A r \in Runs : Local(run'[r], item'[r]) BY <1>3, KillRests
        <3>3. run' \in [Runs -> RunType] BY <1>3, <3>2 DEF Kill, Local
        <3> QED BY <2>1, <3>1, <3>2, <3>3 DEF RunsInv
    <2>3. ASSUME NEW r \in Runs PROVE Dated(run'[r], origin')
        <3>1. Same(run[r], run'[r]) /\ run'[r].phase \in {run[r].phase, "killed"}
            BY <1>3, KillRests
        <3>2. Dated(run[r], origin) OBVIOUS
        <3> QED BY <2>1, <3>1, <3>2 DEF Dated, Same, Read
    <2> QED BY <2>1, <2>2, <2>3 DEF OriginInv
<1>4. ASSUME NEW id \in DOMAIN entry, Damage(id) \/ LateRemoval(id) PROVE VersionInv'
    <2>1. run' = run /\ item' = item /\ origin' = origin BY <1>4 DEF Damage, LateRemoval
    <2> QED BY <2>1 DEF RunsInv, OriginInv, Dated
<1>5. ASSUME NEW r \in Runs, Step(r) PROVE VersionInv'
    <2>1. RunsInv' /\ origin' = origin /\ \A q \in Runs \ {r} : run'[q] = run[q]
        BY <1>5, StepsKeepRuns
    <2>2. Dated(run'[r], origin)
        BY <1>5, StepsRead, ReadsAreDated DEF RunsInv
    <2>3. \A q \in Runs : Dated(run'[q], origin) BY <2>1, <2>2
    <2> QED BY <2>1, <2>3 DEF OriginInv, Dated
<1> QED BY <1>1, <1>2, <1>3, <1>4, <1>5 DEF Next, Outside

LEMMA VersionInit ==
    ASSUME Init
    PROVE  VersionInv
<1>1. 0 \in Tokens /\ <<0, 0>> \in Tokens \X Tokens BY Constants DEF Tokens
<1>2. Idle \in RunType /\ Idle.phase = "idle" /\ Idle.pin = <<0, 0>>
    BY <1>1, Constants DEF Idle, RunType
<1>3. origin \in OriginType BY <1>1 DEF Init, OriginType
<1>4. OriginInv BY <1>1 DEF Init, OriginInv, Upto
<1>5. ASSUME NEW r \in Runs
      PROVE  Local(run[r], item[r]) /\ Dated(run[r], origin)
    <2>1. run[r] = Idle /\ item[r] = [x \in Items |-> Rest] BY DEF Init
    <2>2. Local(run[r], item[r]) BY <1>2, <2>1, RestIsAnItem, AtRest
    <2>3. Dated(run[r], origin) BY <1>1, <1>2, <2>1 DEF Init, Dated, Upto, Read
    <2> QED BY <2>2, <2>3
<1>6. run \in [Runs -> RunType] /\ item \in [Runs -> [Items -> ItemType]]
    BY <1>2, RestIsAnItem DEF Init
<1> QED BY <1>3, <1>4, <1>5, <1>6 DEF VersionInv, RunsInv

(* What is published has every file, the version that the API still        *)
(* reported when the last of them arrived, and the catalog whose token the *)
(* receipt names (lib.rs fetch, readiness.rs revalidate), however often    *)
(* the origin changes and whatever else runs.                              *)
THEOREM SnapshotsAreConsistent == Spec => []Published
<1>1. Init => VersionInv BY VersionInit
<1>2. VersionInv /\ [Next]_vars => VersionInv' BY VersionStep
<1>3. VersionInv => Published
    <2> SUFFICES ASSUME VersionInv, NEW r \in Runs, run[r].phase = "published"
                 PROVE  /\ run[r].next = N + 1 /\ run[r].arrived = run[r].pin
                        /\ run[r].catalog = run[r].pin[2] /\ (HasHash => run[r].hash = run[r].catalog)
        BY DEF Published, PublishedWasCurrent, OneCatalog
    <2>1. Dated(run[r], origin) /\ Local(run[r], item[r]) BY DEF VersionInv, RunsInv
    <2> QED BY <2>1 DEF Dated, Local, Affordable, Read
<1> QED BY <1>1, <1>2, <1>3, PTL DEF Spec

-----------------------------------------------------------------------------
(* The budget.                                                             *)

LEMMA FilesAreFinite == IsFiniteSet(Files) /\ IsFiniteSet(Items)
<1>1. IsFiniteSet(Files) BY FS_Interval, Constants DEF Files
<1>2. IsFiniteSet(Files \cup {Hash}) BY <1>1, FS_AddElement
<1>3. IsFiniteSet((Files \cup {Hash}) \cup {Catalog}) BY <1>2, FS_AddElement
<1>4. Items = (Files \cup {Hash}) \cup {Catalog} BY DEF Items
<1> QED BY <1>1, <1>3, <1>4

LEMMA StoredFits ==
    ASSUME RunsInv, NEW r \in Runs
    PROVE  run[r].total + SumFunctionOnSet([f \in Files |-> Written(r, f)], Files) <= MaxTotal
<1> DEFINE W == [f \in Files |-> Written(r, f)]
           B == Batch(r)
<1>1. /\ run[r] \in RunType /\ item[r] \in [Items -> ItemType]
      /\ Affordable(run[r], item[r]) /\ Placed(run[r], item[r])
    BY DEF RunsInv, Local
<1>2. /\ run[r].total \in Nat /\ run[r].total <= MaxTotal /\ run[r].limit \in Nat
      /\ run[r].next \in 1 .. N + 1 /\ run[r].end \in 0 .. N
    BY <1>1, Constants DEF RunType
<1>3. \A f \in Files :
         /\ W[f] \in Nat
         /\ item[r][f].at = "rest" => W[f] = 0
         /\ item[r][f].at # "rest" => f \in B /\ W[f] <= run[r].limit
    <2> SUFFICES ASSUME NEW f \in Files
                 PROVE  /\ W[f] \in Nat
                        /\ item[r][f].at = "rest" => W[f] = 0
                        /\ item[r][f].at # "rest" => f \in B /\ W[f] <= run[r].limit
        OBVIOUS
    <2>1. W[f] = Written(r, f) OBVIOUS
    <2>2. Size(f) \in Nat BY Constants
    <2>3. CASE item[r][f].at = "rest"
        BY <2>1, <2>3 DEF Written
    <2>4. CASE item[r][f].at \in Storing \cup {"done"}
        <3>1. W[f] = Size(f) BY <2>1, <2>4 DEF Written, Storing
        <3>2. Size(f) <= run[r].limit BY <1>1, <2>4 DEF Affordable
        <3>3. item[r][f].at # "rest" BY <2>4 DEF Storing
        <3>4. f \in B BY <1>1, <3>3 DEF Affordable, Batch
        <3> QED BY <2>2, <3>1, <3>2, <3>3, <3>4
    <2>5. CASE item[r][f].at \notin {"rest", "done"} \cup Storing
        <3>1. W[f] = run[r].limit BY <2>1, <2>5 DEF Written, Storing
        <3>2. f \in B BY <1>1, <2>5 DEF Affordable, Batch
        <3> QED BY <1>2, <2>5, <3>1, <3>2
    <2> QED BY <2>3, <2>4, <2>5 DEF Storing
<1> HIDE DEF W
<1>4. CASE ~Loading(run[r], item[r])
    <2>1. \A f \in Files : W[f] = 0 BY <1>3, <1>4 DEF Loading
    <2>2. SumFunctionOnSet(W, Files) = SumFunctionOnSet(W, {})
        <3>1. {} \in SUBSET Files OBVIOUS
        <3> QED BY <2>1, <3>1, FilesAreFinite, SumZeros
    <2>3. SumFunctionOnSet(W, Files) = 0 BY <2>2, SumEmpty, Zenon
    <2> QED BY <1>2, <2>3, Constants DEF W
<1>5. CASE Loading(run[r], item[r])
    <2>1. /\ run[r].next <= run[r].end
          /\ run[r].total + (run[r].end - run[r].next + 1) * run[r].limit <= MaxTotal
        BY <1>1, <1>5 DEF Affordable
    <2>2. B \in SUBSET Files BY <1>2, Constants DEF Batch, Files
    <2>3. IsFiniteSet(B) BY <2>2, FilesAreFinite, FS_Subset
    <2>4. Cardinality(B) = run[r].end - run[r].next + 1
        <3>1. run[r].next \in Int /\ run[r].end \in Int BY <1>2, Constants
        <3> DEFINE S == run[r].next .. run[r].end
        <3>2. Cardinality(S) = IF run[r].next > run[r].end THEN 0 ELSE run[r].end - run[r].next + 1
            BY <3>1, FS_Interval
        <3>3. B = S BY DEF Batch
        <3> HIDE DEF S, B
        <3>4. Cardinality(S) = run[r].end - run[r].next + 1 BY <2>1, <3>1, <3>2
        <3> QED BY <3>3, <3>4
    <2> HIDE DEF B
    <2>5. \A f \in Files \ B : W[f] = 0 BY <1>3
    <2>6. SumFunctionOnSet(W, Files) = SumFunctionOnSet(W, B)
        BY <1>3, <2>2, <2>5, FilesAreFinite, SumZeros
    <2>7. \A f \in B : W[f] \in Nat /\ W[f] <= run[r].limit
        BY <1>2, <1>3, <2>2
    <2>8. SumFunctionOnSet(W, B) <= Cardinality(B) * run[r].limit
        BY <1>2, <2>3, <2>7, SumBound
    <2>9. SumFunctionOnSet(W, B) \in Nat BY <2>3, <2>7, SumNat
    <2> DEFINE room == (run[r].end - run[r].next + 1) * run[r].limit
               sum == SumFunctionOnSet(W, Files)
    <2>10. sum <= room /\ sum \in Nat BY <2>4, <2>6, <2>8, <2>9
    <2>11. room \in Int /\ run[r].total + room <= MaxTotal BY <1>2, <2>1, Constants
    <2> HIDE DEF room, sum
    <2>12. run[r].total + sum <= MaxTotal BY <1>2, <2>10, <2>11, Constants
    <2> QED BY <2>12 DEF sum, W
<1> QED BY <1>4, <1>5

-----------------------------------------------------------------------------
(* The permits of the service.                                             *)

(* The requests of a run that are on the wire.                             *)
OnWire(x, y) == {i \in Items : x.phase \in Running /\ y[i].at = "get"}

Admissions == {p \in Runs \X Items : p[2] \in OnWire(run[p[1]], item[p[1]])}

LEMMA PermitsAreAdmissions ==
    PermitsExact <=> permits <= MaxDownloads /\ permits = Cardinality(Admissions)
<1>1. Admissions = {p \in Runs \X Items : run[p[1]].phase \in Running /\ item[p[1]][p[2]].at = "get"}
    BY DEF Admissions, OnWire
<1> QED BY <1>1 DEF PermitsExact

LEMMA AdmissionsAreFinite == IsFiniteSet(Admissions) /\ Cardinality(Admissions) \in Nat
<1>1. IsFiniteSet(Runs \X Items)
    BY FilesAreFinite, FS_Product, DownloadAssumption
<1>2. Admissions \in SUBSET (Runs \X Items) BY DEF Admissions
<1>3. IsFiniteSet(Admissions) BY <1>1, <1>2, FS_Subset
<1> QED BY <1>3, FS_CardinalityType

(* How a step of a run changes what is on the wire, its permits with it.   *)
Wires(old, new) ==
    \/ new = old /\ permits' = permits
    \/ /\ permits < MaxDownloads /\ permits' = permits + 1
       /\ \E i \in Items \ old : new = old \cup {i}
    \/ permits' = permits - 1 /\ \E i \in old : new = old \ {i}
    \/ permits' = permits - Cardinality(old) /\ new = {}

LEMMA WireMoves ==
    ASSUME RunsInv, NEW r \in Runs, Step(r)
    PROVE  Wires(OnWire(run[r], item[r]), OnWire(run'[r], item'[r]))
<1> DEFINE old == OnWire(run[r], item[r])
           new == OnWire(run'[r], item'[r])
<1> USE DEF Wires
<1>1. /\ Local(run[r], item[r]) /\ Local(run'[r], item'[r]) /\ run \in [Runs -> RunType]
      /\ item \in [Runs -> [Items -> ItemType]] /\ item[r] \in [Items -> ItemType]
    BY StepsKeepRuns DEF RunsInv
<1>2. CASE /\ permits' = permits
           /\ run[r].phase \notin {"hash", "rehash", "catalog", "batch"}
           /\ run'[r].phase \notin {"hash", "rehash", "catalog", "batch"}
    <2>1. \A x, y : Local(x, y) /\ x.phase \notin {"hash", "rehash", "catalog", "batch"} => OnWire(x, y) = {}
        BY DEF Local, Placed, OnWire, Running
    <2> QED BY <1>1, <1>2, <2>1
<1>3. CASE Begin(r) \/ Publish(r) \/ Dropped(r)
    <2>1. permits' = permits /\ run[r].phase \in {"idle", "publish", "dropping"}
        BY <1>3 DEF Begin, Publish, Dropped
    <2>2. run'[r].phase \in {"failed", "pin", "published"}
        BY <1>1, <1>3 DEF Begin, Publish, Dropped, To, RunType
    <2> QED BY <1>2, <2>1, <2>2
<1>4. CASE Pin(r) \/ Recheck(r) \/ Plan(r) \/ Joined(r)
    <2>1. permits' = permits BY <1>4 DEF Pin, Recheck, Plan, Joined
    <2>2. old = {}
        <3>1. CASE Joined(r)
            <4>1. \A f \in Files : item[r][f].at # "get"
                <5> SUFFICES ASSUME NEW f \in Files, item[r][f].at = "get" PROVE FALSE
                    OBVIOUS
                <5>1. f \in Batch(r) BY <1>1 DEF Local, Affordable, Batch
                <5> QED BY <3>1, <5>1 DEF Joined
            <4>2. run[r].phase = "batch" BY <3>1 DEF Joined
            <4> QED BY <1>1, <4>1, <4>2 DEF Local, Placed, OnWire
        <3>2. CASE Pin(r) \/ Recheck(r) \/ Plan(r)
            <4>1. run[r].phase \in {"pin", "recheck", "plan"} BY <3>2 DEF Pin, Recheck, Plan
            <4> QED BY <1>1, <4>1, Quiet DEF OnWire
        <3> QED BY <1>4, <3>1, <3>2
    <2>3. \A i \in Items : item'[r][i].at # "get"
        <3>1. CASE Joined(r) BY <1>1, <3>1, RestIsAnItem DEF Joined
        <3>2. CASE Plan(r) BY <1>1, <3>2, RestIsAnItem DEF Plan
        <3>3. CASE Pin(r)
            <4>1. \A i \in Items : item[r][i].at = "rest" /\ item[r][i] \in ItemType
                BY <1>1, <3>3, Quiet DEF Pin
            <4>2. \A i \in Items : [item[r][i] EXCEPT !.at = "ask"].at = "ask"
                BY <4>1 DEF ItemType
            <4> QED BY <1>1, <3>3, <4>1, <4>2 DEF Pin
        <3>4. CASE Recheck(r)
            <4>1. \A i \in Items : item[r][i].at = "rest" /\ item[r][i] \in ItemType
                BY <1>1, <3>4, Quiet DEF Recheck
            <4>2. \A i \in Items : [item[r][i] EXCEPT !.at = "ask"].at = "ask"
                BY <4>1 DEF ItemType
            <4> QED BY <1>1, <3>4, <4>1, <4>2 DEF Recheck
        <3> QED BY <1>4, <3>1, <3>2, <3>3, <3>4
    <2>4. new = {} BY <2>3 DEF OnWire
    <2> QED BY <2>1, <2>2, <2>4
<1>5. CASE Fail(r)
    <2>1. run[r].phase \in Running /\ permits' = permits - Cardinality(Getting(r))
        BY <1>5 DEF Fail
    <2>2. old = Getting(r) BY <2>1 DEF OnWire, Getting
    <2>3. run'[r].phase = "dropping" BY <1>1, <1>5 DEF Fail, To, RunType
    <2>4. new = {} BY <2>3 DEF OnWire, Running
    <2> QED BY <2>1, <2>2, <2>4
<1>6. ASSUME NEW i \in Items, run[r].phase \in Running, run'[r].phase \in Running,
             \A j \in Items \ {i} : item'[r][j] = item[r][j]
      PROVE  /\ (item[r][i].at = "get" <=> item'[r][i].at = "get") => new = old
             /\ item[r][i].at # "get" /\ item'[r][i].at = "get" => i \in Items \ old /\ new = old \cup {i}
             /\ item[r][i].at = "get" /\ item'[r][i].at # "get" => i \in old /\ new = old \ {i}
    BY <1>6 DEF OnWire
<1>7. ASSUME NEW i \in Items, Admitted(r, i) \/ TryAgain(r, i) \/ BackedOff(r, i) PROVE Wires(old, new)
    <2>1. run[r].phase \in Running /\ run' = run BY <1>7 DEF Admitted, TryAgain, BackedOff, At, Running
    <2>2. \A j \in Items \ {i} : item'[r][j] = item[r][j]
        BY <1>1, <1>7 DEF Admitted, TryAgain, BackedOff, Put
    <2>3. item[r][i] \in ItemType BY <1>1
    <2>4. CASE Admitted(r, i)
        <3>1. item[r][i].at # "get" /\ item'[r][i].at = "get"
            BY <1>1, <2>3, <2>4 DEF Admitted, At, Put, ItemType
        <3>2. permits < MaxDownloads /\ permits' = permits + 1 BY <2>4 DEF Admitted
        <3> QED BY <1>6, <2>1, <2>2, <3>1, <3>2
    <2>5. CASE TryAgain(r, i)
        <3>1. item'[r][i].at = "back" BY <1>1, <2>5 DEF TryAgain
        <3>2. permits' = IF item[r][i].at = "get" THEN permits - 1 ELSE permits BY <2>5 DEF TryAgain
        <3> QED BY <1>6, <2>1, <2>2, <3>1, <3>2
    <2>6. CASE BackedOff(r, i)
        <3>1. item[r][i].at # "get" /\ item'[r][i].at # "get"
            BY <1>1, <2>3, <2>6 DEF BackedOff, At, Put, ItemType
        <3>2. permits' = permits BY <2>6 DEF BackedOff
        <3> QED BY <1>6, <2>1, <2>2, <3>1, <3>2
    <2> QED BY <1>7, <2>4, <2>5, <2>6
<1>8. ASSUME NEW f \in Files, GotFile(r, f) PROVE Wires(old, new)
    <2>1. f \in Items /\ item[r][f] \in ItemType BY <1>1, Constants
    <2>2. run[r].phase \in Running /\ item[r][f].at = "get" /\ permits' = permits - 1
        BY <1>8 DEF GotFile, At, Running
    <2>3. run'[r].phase = run[r].phase BY <1>1, <1>8 DEF GotFile, RunType
    <2>4. \A j \in Items \ {f} : item'[r][j] = item[r][j]
        BY <1>1, <1>8, <2>1 DEF GotFile
    <2>5. item'[r][f].at # "get"
        BY <1>1, <1>8, <2>1 DEF GotFile, ItemType
    <2> QED BY <1>6, <2>1, <2>2, <2>3, <2>4, <2>5
<1>9. ASSUME NEW f \in Files, Restore(r, f) \/ Prepared(r, f) \/ Clear(r, f) \/ Move(r, f) PROVE Wires(old, new)
    <2>1. f \in Items /\ item[r][f] \in ItemType BY <1>1, Constants
    <2>2. /\ run[r].phase \in Running /\ run' = run /\ item[r][f].at # "get"
          /\ permits' = permits
        BY <1>9 DEF Restore, Prepared, Clear, Move, At, Running
    <2>3. \A j \in Items \ {f} : item'[r][j] = item[r][j]
        BY <1>1, <1>9, <2>1 DEF Restore, Prepared, Clear, Move, Put
    <2>4. item'[r][f].at # "get"
        BY <1>1, <1>9, <2>1 DEF Restore, Prepared, Clear, Move, Put, ItemType
    <2> QED BY <1>6, <2>1, <2>2, <2>3, <2>4
<1>10. CASE GotCatalog(r)
    <2>1. Catalog \in Items BY Constants
    <2>2. run[r].phase \in Running /\ item[r][Catalog].at = "get" /\ permits' = permits - 1
        BY <1>10 DEF GotCatalog, At, Running
    <2>3. run'[r].phase = "plan" BY <1>1, <1>10 DEF GotCatalog, RunType
    <2>4. item'[r] = [item[r] EXCEPT ![Catalog] = Rest] BY <1>1, <1>10 DEF GotCatalog
    <2>5. item'[r][Catalog].at # "get" /\ \A j \in Items \ {Catalog} : item'[r][j] = item[r][j]
        BY <1>1, <2>1, <2>4, RestIsAnItem
    <2>6. run'[r].phase \in Running BY <2>3 DEF Running
    <2> QED BY <1>6, <2>1, <2>2, <2>5, <2>6
<1>11. CASE GotHash(r)
    <2>1. Hash \in Items /\ Catalog \in Items /\ Hash # Catalog BY Constants
    <2>2. run[r].phase \in Running /\ item[r][Hash].at = "get" /\ permits' = permits - 1
        BY <1>11 DEF GotHash, At, Running
    <2>3. run[r].phase \in {"hash", "rehash"}
        <3>1. run[r].phase # "dropping" BY <1>11 DEF GotHash, At
        <3> QED BY <1>1, <2>1, <2>2, <3>1, Constants DEF Local, Placed
    <2>4. \A i \in Items \ {Hash} : item[r][i].at = "rest" BY <1>1, <2>3 DEF Local, Placed
    <2>5. old = {Hash} BY <2>1, <2>2, <2>4 DEF OnWire
    <2>6. \A i \in Items : item'[r][i].at # "get"
        <3> SUFFICES ASSUME NEW i \in Items, item'[r][i].at = "get" PROVE FALSE
            OBVIOUS
        <3>1. item'[r][Hash] = Rest
            BY <1>1, <1>11, <2>1 DEF GotHash
        <3>2. CASE i = Catalog
            <4>1. item[r][Catalog] \in ItemType BY <1>1, <2>1
            <4> QED BY <1>1, <1>11, <2>1, <3>2, <4>1 DEF GotHash, ItemType
        <3>3. CASE i # Catalog /\ i # Hash
            BY <1>1, <1>11, <2>1, <2>4, <3>3 DEF GotHash
        <3> QED BY <3>1, <3>2, <3>3, RestIsAnItem
    <2>7. new = {} BY <2>6 DEF OnWire
    <2> QED BY <2>2, <2>5, <2>7
<1> QED
    BY <1>3, <1>4, <1>5, <1>7, <1>8, <1>9, <1>10, <1>11 DEF Step, Request

LEMMA PermitStep ==
    ASSUME RunsInv, PermitsExact, [Next]_vars
    PROVE  PermitsExact'
<1>1. permits <= MaxDownloads /\ permits = Cardinality(Admissions)
    BY PermitsAreAdmissions
<1>2. IsFiniteSet(Admissions) /\ permits \in Nat /\ MaxDownloads \in Nat
    BY <1>1, AdmissionsAreFinite, Constants
<1>3. SUFFICES permits' <= MaxDownloads /\ permits' = Cardinality(Admissions')
    <2>1. Admissions' = {p \in Runs \X Items :
                           run'[p[1]].phase \in Running /\ item'[p[1]][p[2]].at = "get"}
        BY DEF Admissions, OnWire
    <2> QED BY <2>1 DEF PermitsExact
<1>4. CASE UNCHANGED <<run, item, permits>>
    BY <1>1, <1>4 DEF Admissions, OnWire
<1>5. CASE Kill
    <2>1. \A r \in Runs, i \in Items : item'[r][i].at # "get"
        BY <1>5, KillRests
    <2>2. Admissions' = {} BY <2>1 DEF Admissions, OnWire
    <2>3. permits' = 0 BY <1>5 DEF Kill
    <2> QED BY <1>2, <2>2, <2>3, FS_EmptySet
<1>6. ASSUME NEW r \in Runs, Step(r)
      PROVE  permits' <= MaxDownloads /\ permits' = Cardinality(Admissions')
    <2> DEFINE old == OnWire(run[r], item[r])
               new == OnWire(run'[r], item'[r])
    <2>1. \A q \in Runs \ {r} : run'[q] = run[q] /\ item'[q] = item[q]
        BY <1>6, StepsKeepRuns
    <2>2. Admissions' = {p \in Runs \X Items : p[2] \in OnWire(run'[p[1]], item'[p[1]])}
        BY DEF Admissions, OnWire
    <2>3. old \subseteq Items /\ new \subseteq Items BY DEF OnWire
    <2>4. \A p \in Runs \X Items :
             /\ p \in Admissions <=> p[2] \in OnWire(run[p[1]], item[p[1]])
             /\ p \in Admissions' <=> p[2] \in OnWire(run'[p[1]], item'[p[1]])
             /\ p[1] # r => (p \in Admissions' <=> p \in Admissions)
        BY <2>1, <2>2 DEF Admissions
    <2>5. \A i \in Items : /\ <<r, i>> \in Admissions <=> i \in old
                           /\ <<r, i>> \in Admissions' <=> i \in new
        BY <2>4
    <2>6. Admissions \subseteq Runs \X Items /\ Admissions' \subseteq Runs \X Items
        BY <2>2 DEF Admissions
    <2>7. \/ new = old /\ permits' = permits
          \/ /\ permits < MaxDownloads /\ permits' = permits + 1
             /\ \E i \in Items \ old : new = old \cup {i}
          \/ permits' = permits - 1 /\ \E i \in old : new = old \ {i}
          \/ permits' = permits - Cardinality(old) /\ new = {}
        BY <1>6, WireMoves DEF Wires
    <2> HIDE DEF old, new
    <2>8. CASE new = old /\ permits' = permits
        <3>1. Admissions' = Admissions
            <4>1. \A p \in Runs \X Items : p \in Admissions' <=> p \in Admissions
                <5> SUFFICES ASSUME NEW q \in Runs, NEW i \in Items
                             PROVE  <<q, i>> \in Admissions' <=> <<q, i>> \in Admissions
                    OBVIOUS
                <5>1. CASE q = r BY <2>5, <2>8, <5>1
                <5>2. CASE q # r BY <2>4, <5>2
                <5> QED BY <5>1, <5>2
            <4> QED BY <2>6, <4>1
        <3> QED BY <1>1, <2>8, <3>1
    <2>9. ASSUME NEW i \in Items \ old, new = old \cup {i},
                 permits < MaxDownloads, permits' = permits + 1
          PROVE  permits' <= MaxDownloads /\ permits' = Cardinality(Admissions')
        <3>1. Admissions' = Admissions \cup {<<r, i>>}
            <4>1. \A p \in Runs \X Items : p \in Admissions' <=> p \in Admissions \/ p = <<r, i>>
                <5> SUFFICES ASSUME NEW q \in Runs, NEW j \in Items
                             PROVE  <<q, j>> \in Admissions' <=> <<q, j>> \in Admissions \/ <<q, j>> = <<r, i>>
                    OBVIOUS
                <5>1. CASE q = r BY <2>5, <2>9, <5>1
                <5>2. CASE q # r BY <2>4, <5>2
                <5> QED BY <5>1, <5>2
            <4> QED BY <2>6, <4>1
        <3>2. <<r, i>> \notin Admissions BY <2>5
        <3>3. Cardinality(Admissions') = Cardinality(Admissions) + 1
            BY <1>2, <3>1, <3>2, FS_AddElement
        <3> QED BY <1>1, <1>2, <2>9, <3>3
    <2>10. ASSUME NEW i \in old, new = old \ {i}, permits' = permits - 1
           PROVE  permits' <= MaxDownloads /\ permits' = Cardinality(Admissions')
        <3>1. Admissions' = Admissions \ {<<r, i>>}
            <4>1. \A p \in Runs \X Items : p \in Admissions' <=> p \in Admissions /\ p # <<r, i>>
                <5> SUFFICES ASSUME NEW q \in Runs, NEW j \in Items
                             PROVE  <<q, j>> \in Admissions' <=> <<q, j>> \in Admissions /\ <<q, j>> # <<r, i>>
                    OBVIOUS
                <5>1. CASE q = r BY <2>5, <2>10, <5>1
                <5>2. CASE q # r BY <2>4, <5>2
                <5> QED BY <5>1, <5>2
            <4> QED BY <2>6, <4>1
        <3>2. <<r, i>> \in Admissions BY <2>3, <2>5
        <3>3. Cardinality(Admissions') = Cardinality(Admissions) - 1
            BY <1>2, <3>1, <3>2, FS_RemoveElement
        <3> QED BY <1>1, <1>2, <2>10, <3>3
    <2>11. CASE permits' = permits - Cardinality(old) /\ new = {}
        <3> DEFINE gone == {r} \X old
        <3>1. Admissions' = Admissions \ gone
            <4>1. \A p \in Runs \X Items : p \in Admissions' <=> p \in Admissions /\ p \notin gone
                <5> SUFFICES ASSUME NEW q \in Runs, NEW j \in Items
                             PROVE  <<q, j>> \in Admissions' <=> <<q, j>> \in Admissions /\ <<q, j>> \notin gone
                    OBVIOUS
                <5>1. CASE q = r BY <2>5, <2>11, <5>1
                <5>2. CASE q # r BY <2>4, <5>2
                <5> QED BY <5>1, <5>2
            <4> QED BY <2>6, <4>1
        <3>2. gone \subseteq Admissions BY <2>3, <2>5
        <3>3. IsFiniteSet(old) /\ IsFiniteSet({r}) /\ Cardinality({r}) = 1
            BY <2>3, FilesAreFinite, FS_Subset, FS_Singleton
        <3>4. Cardinality(old) \in Nat BY <3>3, FS_CardinalityType
        <3>5. Cardinality(gone) = 1 * Cardinality(old)
            <4>1. Cardinality(gone) = Cardinality({r}) * Cardinality(old)
                BY <3>3, FS_Product
            <4> QED BY <3>3, <4>1
        <3>6. Admissions \cap gone = gone BY <3>2
        <3> HIDE DEF gone
        <3>7. Cardinality(Admissions') = Cardinality(Admissions) - Cardinality(gone)
            BY <1>2, <3>1, <3>6, FS_Difference
        <3> QED BY <1>1, <1>2, <2>11, <3>4, <3>5, <3>7
    <2> QED BY <2>7, <2>8, <2>9, <2>10, <2>11
<1>7. CASE Release \/ Report \/ UNCHANGED vars
    BY <1>4, <1>7 DEF Release, Report, vars
<1>8. ASSUME NEW id \in DOMAIN entry, Damage(id) \/ LateRemoval(id)
      PROVE  permits' <= MaxDownloads /\ permits' = Cardinality(Admissions')
    BY <1>4, <1>8 DEF Damage, LateRemoval
<1> QED BY <1>5, <1>6, <1>7, <1>8 DEF Next, Outside

-----------------------------------------------------------------------------
(* The cache directory.                                                    *)

CacheType ==
    /\ owner \in Runs \cup {Nobody}
    /\ entry \in [Tokens \X Files -> {"none", "whole", "bad"}]
    /\ pending \in [Runs -> SUBSET (Tokens \X Files)]
    /\ stray \subseteq Tokens \X Files

(* Who works in the cache owns it.                                         *)
OwnersWork ==
    /\ ~Cached => owner = Nobody
    /\ Cached => \A r \in Runs : run[r].phase \in Holding => owner = r

(* No whole entry is in the way of what a run asks for or stores, unless   *)
(* the file is too large for the batch.                                    *)
NothingInTheWay ==
    Cached => \A r \in Runs, f \in Files :
        item[r][f].at \in Asking \cup Storing /\ entry[Id(r, f)] = "whole" => Size(f) > run[r].limit

CacheInv == CacheType /\ OwnersWork /\ NothingInTheWay /\ OwnPendingStays /\ OthersReaped

LEMMA IdsAreEntries ==
    ASSUME RunsInv, NEW r \in Runs
    PROVE  /\ \A f \in Files : Id(r, f) \in Tokens \X Files
           /\ \A f, g \in Files : Id(r, f) = Id(r, g) => f = g
<1>1. run[r].catalog \in Tokens BY DEF RunsInv, RunType
<1> QED BY <1>1 DEF Id

LEMMA CacheTypeStep ==
    ASSUME RunsInv, CacheType, [Next]_vars
    PROVE  CacheType'
<1> USE DEF CacheType
<1>1. CASE UNCHANGED cacheVars BY <1>1 DEF cacheVars
<1>2. CASE UNCHANGED vars BY <1>2 DEF vars
<1>3. CASE Release \/ Report BY <1>1, <1>3 DEF Release, Report
<1>4. CASE Kill BY <1>4 DEF Kill
<1>5. ASSUME NEW id \in DOMAIN entry, Damage(id) \/ LateRemoval(id) PROVE CacheType'
    BY <1>5 DEF Damage, LateRemoval
<1>6. ASSUME NEW r \in Runs, Step(r) PROVE CacheType'
    <2>1. CASE Begin(r) BY <2>1 DEF Begin
    <2>2. CASE Publish(r) BY <2>2 DEF Publish
    <2>3. CASE Pin(r) \/ Plan(r) \/ Joined(r) \/ Recheck(r) \/ Fail(r) \/ GotHash(r) \/ GotCatalog(r)
        BY <1>1, <2>3 DEF Pin, Plan, Joined, Recheck, Fail, GotHash, GotCatalog
    <2>4. CASE Dropped(r)
        <3> DEFINE at(p) == {Id(r, f) : f \in {g \in Files : item[r][g].at = p}}
        <3>1. \A p : at(p) \subseteq Tokens \X Files BY IdsAreEntries
        <3>2. /\ \E kept \in SUBSET at("copy"), late \in SUBSET at("clear") :
                    pending' = [pending EXCEPT ![r] = kept] /\ stray' = stray \cup late
              /\ \E moved \in [at("move") -> {"none", "whole", "bad"}] :
                    entry' = [id \in DOMAIN entry |-> IF id \in at("move") THEN moved[id] ELSE entry[id]]
              /\ owner' = IF owner = r THEN Nobody ELSE owner
            BY <2>4 DEF Dropped
        <3> HIDE DEF at
        <3>3. pending' \in [Runs -> SUBSET (Tokens \X Files)] /\ stray' \subseteq Tokens \X Files
            BY <3>1, <3>2
        <3>4. entry' \in [Tokens \X Files -> {"none", "whole", "bad"}]
            BY <3>2
        <3> QED BY <3>2, <3>3, <3>4
    <2>5. ASSUME NEW i \in Items, Admitted(r, i) \/ TryAgain(r, i) \/ BackedOff(r, i) PROVE CacheType'
        BY <1>1, <2>5 DEF Admitted, TryAgain, BackedOff
    <2>6. ASSUME NEW f \in Files, Restore(r, f) \/ Prepared(r, f) PROVE CacheType'
        BY <1>1, <2>6 DEF Restore, Prepared
    <2>7. ASSUME NEW f \in Files, GotFile(r, f) \/ Clear(r, f) \/ Move(r, f) PROVE CacheType'
        <3>1. Id(r, f) \in Tokens \X Files BY IdsAreEntries
        <3> QED BY <2>7, <3>1 DEF GotFile, Clear, Move
    <2> QED BY <1>6, <2>1, <2>2, <2>3, <2>4, <2>5, <2>6, <2>7 DEF Step, Request
<1> QED BY <1>2, <1>3, <1>4, <1>5, <1>6 DEF Next, Outside

(* What a step does to the lock: it is taken where nobody has it, and goes *)
(* with the phases that hold it.                                           *)
LEMMA LockMoves ==
    ASSUME RunsInv, OwnersWork, NEW r \in Runs, Step(r)
    PROVE  \/ /\ Cached /\ owner = Nobody /\ owner' = r /\ Begin(r)
              /\ pending' = [q \in Runs |-> {}] /\ run'[r].phase = "pin"
           \/ owner' = owner /\ run'[r].phase \in Holding /\ run[r].phase \in Holding
           \/ owner' = owner /\ run'[r].phase \in Holding /\ Begin(r) /\ ~Cached
           \/ owner' = owner /\ run'[r].phase = "failed" /\ Begin(r) /\ Cached
           \/ /\ owner' = (IF owner = r THEN Nobody ELSE owner) /\ run'[r].phase \notin Holding
              /\ run[r].phase \in Holding /\ (Publish(r) \/ Dropped(r))
<1>1. /\ run \in [Runs -> RunType] /\ run[r] \in RunType BY DEF RunsInv
<1>2. CASE Begin(r)
    <2>1. run'[r].phase = IF Cached /\ owner # Nobody THEN "failed" ELSE "pin"
        BY <1>1, <1>2 DEF Begin, To, RunType
    <2>2. Cached \in BOOLEAN BY DownloadAssumption
    <2> QED BY <1>2, <2>1, <2>2 DEF Begin, OwnersWork, Holding, Running
<1>3. CASE Publish(r) \/ Dropped(r)
    <2>1. run'[r].phase \in {"published", "failed"} /\ run[r].phase \in {"publish", "dropping"}
        BY <1>1, <1>3 DEF Publish, Dropped, To, RunType
    <2> QED BY <1>3, <2>1 DEF Publish, Dropped, Holding, Running
<1>4. CASE Pin(r) \/ Plan(r) \/ Joined(r) \/ Recheck(r) \/ Fail(r)
    <2>1. owner' = owner BY <1>4 DEF Pin, Plan, Joined, Recheck, Fail, cacheVars
    <2>2. run[r].phase \in Holding
        BY <1>4 DEF Pin, Plan, Joined, Recheck, Fail, Holding, Running
    <2>3. run'[r].phase \in {"hash", "catalog", "batch", "recheck", "plan", "rehash", "publish", "dropping"}
        BY <1>1, <1>4 DEF Pin, Plan, Joined, Recheck, Fail, To, RunType
    <2> QED BY <2>1, <2>2, <2>3 DEF Holding, Running
<1>5. CASE Request(r)
    <2>1. owner' = owner
        BY <1>5 DEF Request, Admitted, TryAgain, BackedOff, GotHash, GotCatalog, GotFile, Restore,
                    Prepared, Clear, Move, cacheVars
    <2>2. run[r].phase \in {"hash", "catalog", "batch", "rehash"}
        BY <1>5 DEF Request, Admitted, TryAgain, BackedOff, GotHash, GotCatalog, GotFile, Restore,
                    Prepared, Clear, Move, At
    <2>3. run'[r].phase \in {"hash", "catalog", "batch", "rehash", "publish", "plan"}
        <3>1. CASE GotHash(r) \/ GotCatalog(r)
            BY <1>1, <3>1 DEF GotHash, GotCatalog, RunType
        <3>2. ASSUME NEW f \in Files, GotFile(r, f) PROVE run'[r].phase = run[r].phase
            BY <1>1, <3>2 DEF GotFile, RunType
        <3>3. CASE run' = run BY <2>2, <3>3
        <3> QED BY <1>5, <2>2, <3>1, <3>2, <3>3
                DEF Request, Admitted, TryAgain, BackedOff, Restore, Prepared, Clear, Move
    <2> QED BY <2>1, <2>2, <2>3 DEF Holding, Running
<1> QED BY <1>2, <1>3, <1>4, <1>5 DEF Step

LEMMA OwnersStep ==
    ASSUME RunsInv, OwnersWork, [Next]_vars
    PROVE  OwnersWork'
<1>1. Nobody \notin Runs BY DownloadAssumption
<1>2. CASE UNCHANGED <<run, owner>> BY <1>2 DEF OwnersWork
<1>3. CASE Kill
    <2>1. \A r \in Runs : run'[r].phase \notin Holding BY <1>3, KillRests
    <2> QED BY <1>3, <2>1 DEF Kill, OwnersWork
<1>4. ASSUME NEW r \in Runs, Step(r) PROVE OwnersWork'
    <2>1. \A q \in Runs \ {r} : run'[q] = run[q] BY <1>4, StepsKeepRuns
    <2>2. \/ Cached /\ owner = Nobody /\ owner' = r
          \/ owner' = owner /\ run[r].phase \in Holding
          \/ owner' = owner /\ ~Cached
          \/ owner' = owner /\ run'[r].phase = "failed" /\ Cached
          \/ /\ owner' = (IF owner = r THEN Nobody ELSE owner) /\ run'[r].phase \notin Holding
             /\ run[r].phase \in Holding
        BY <1>4, LockMoves
    <2>3. "failed" \notin Holding BY DEF Holding, Running
    <2> QED BY <1>1, <2>1, <2>2, <2>3 DEF OwnersWork
<1>5. CASE Release \/ Report \/ UNCHANGED vars
    BY <1>2, <1>5 DEF Release, Report, vars, cacheVars
<1>6. ASSUME NEW id \in DOMAIN entry, Damage(id) \/ LateRemoval(id) PROVE OwnersWork'
    BY <1>2, <1>6 DEF Damage, LateRemoval
<1> QED BY <1>3, <1>4, <1>5, <1>6 DEF Next, Outside

(* Files are only dealt with by a run that holds the lock of its cache.    *)
LEMMA FilesAreHeld ==
    ASSUME RunsInv, NEW r \in Runs, NEW f \in Files, item[r][f].at # "rest"
    PROVE  run[r].phase \in {"batch", "dropping"} /\ run[r].phase \in Holding
BY Constants DEF RunsInv, Local, Placed, Holding, Running

(* Entries only become whole by a rename, and only of the run itself.      *)
LEMMA EntriesMove ==
    ASSUME RunsInv, CacheType, NEW r \in Runs, Step(r), NEW id \in Tokens \X Files,
           entry'[id] # entry[id]
    PROVE  \/ /\ Dropped(r)
              /\ \E f \in Files : id = Id(r, f) /\ item[r][f].at = "move"
           \/ \E f \in Files : Clear(r, f) /\ id = Id(r, f) /\ entry'[id] = "none"
           \/ \E f \in Files : Move(r, f) /\ id = Id(r, f)
<1>1. entry \in [Tokens \X Files -> {"none", "whole", "bad"}] BY DEF CacheType
<1>2. \A f \in Files : Id(r, f) \in Tokens \X Files BY IdsAreEntries
<1>3. entry' # entry OBVIOUS
<1>4. Dropped(r) \/ \E f \in Files : Clear(r, f) \/ Move(r, f)
    BY <1>3 DEF Step, Request, Begin, Pin, Plan, Joined, Recheck, Publish, Fail, GotHash, GotCatalog,
                Admitted, TryAgain, BackedOff, GotFile, Restore, Prepared, cacheVars
<1>5. CASE Dropped(r)
    <2> DEFINE at(p) == {Id(r, f) : f \in {g \in Files : item[r][g].at = p}}
    <2>1. \E moved \in [at("move") -> {"none", "whole", "bad"}] :
             entry' = [i \in DOMAIN entry |-> IF i \in at("move") THEN moved[i] ELSE entry[i]]
        BY <1>5 DEF Dropped
    <2> HIDE DEF at
    <2>2. id \in at("move") BY <1>1, <2>1
    <2> QED BY <1>5, <2>2 DEF at
<1>6. ASSUME NEW f \in Files, Clear(r, f) PROVE id = Id(r, f) /\ entry'[id] = "none"
    BY <1>1, <1>2, <1>6 DEF Clear
<1>7. ASSUME NEW f \in Files, Move(r, f) PROVE id = Id(r, f)
    BY <1>1, <1>2, <1>7 DEF Move
<1> QED BY <1>4, <1>5, <1>6, <1>7

(* How a file of a run comes to be asked for or stored: it was already, or *)
(* the cache had no whole entry that fits; and what is being stored has    *)
(* its temporary directory.                                                *)
Approaches(r, f) ==
    /\ run'[r].catalog = run[r].catalog /\ run'[r].limit = run[r].limit
    /\ ~Dropped(r) /\ ~Move(r, f)
    /\ \/ item[r][f].at \in Asking \cup Storing
       \/ item[r][f].at = "look" /\ ~(entry[Id(r, f)] = "whole" /\ Size(f) <= run[r].limit)
    /\ item'[r][f].at \in Storing /\ run'[r].phase = "batch" =>
          /\ run[r].phase = "batch"
          /\ \/ Id(r, f) \in pending'[r]
             \/ item[r][f].at \in Storing /\ (Id(r, f) \in pending[r] => Id(r, f) \in pending'[r])

LEMMA FilesMove ==
    ASSUME RunsInv, CacheType, Cached, NEW r \in Runs, Step(r), NEW f \in Files,
           item'[r][f].at \in Asking \cup Storing
    PROVE  Approaches(r, f)
<1> USE DEF Approaches
<1>1. /\ run \in [Runs -> RunType] /\ run[r] \in RunType
      /\ item \in [Runs -> [Items -> ItemType]] /\ item[r] \in [Items -> ItemType]
      /\ f \in Items /\ item[r][f] \in ItemType
      /\ Local(run[r], item[r]) /\ Local(run'[r], item'[r])
    BY StepsKeepRuns, Constants DEF RunsInv
<1>2. run'[r].phase \in {"batch", "dropping"}
    BY <1>1, Constants DEF Local, Placed, Asking, Storing
<1>3. \A p \in {"look", "done", "rest"} : item'[r][f].at # p
    BY DEF Asking, Storing
<1>4. CASE /\ run'[r].catalog = run[r].catalog /\ run'[r].limit = run[r].limit
           /\ item'[r][f].at = item[r][f].at /\ (run'[r].phase = "batch" => run[r].phase = "batch")
           /\ Id(r, f) \in pending[r] => Id(r, f) \in pending'[r]
    <2>1. ~Dropped(r) BY <1>1, <1>2 DEF Dropped, To, RunType
    <2>2. ~Move(r, f)
        <3> SUFFICES ASSUME Move(r, f) PROVE FALSE OBVIOUS
        <3>1. item'[r][f].at = "done" BY <1>1 DEF Move, Put, ItemType
        <3> QED BY <1>3, <3>1
    <2> QED BY <1>4, <2>1, <2>2
<1>5. ~Begin(r) /\ ~Pin(r) /\ ~Joined(r) /\ ~Recheck(r) /\ ~Publish(r) /\ ~Dropped(r)
      /\ ~GotHash(r) /\ ~GotCatalog(r)
    BY <1>1, <1>2 DEF Begin, Pin, Joined, Recheck, Publish, Dropped, GotHash, GotCatalog, To, RunType
<1>6. ~Plan(r)
    <2> SUFFICES ASSUME Plan(r) PROVE FALSE OBVIOUS
    <2>1. item'[r][f].at \in {"look", "rest"} BY <1>1, RestIsAnItem DEF Plan
    <2> QED BY <1>3, <2>1
<1>7. CASE Fail(r)
    BY <1>1, <1>4, <1>7 DEF Fail, To, RunType, cacheVars
<1>8. ASSUME NEW i \in Items, Admitted(r, i) \/ TryAgain(r, i) \/ BackedOff(r, i) PROVE Approaches(r, f)
    <2>1. run' = run /\ pending' = pending
        BY <1>8 DEF Admitted, TryAgain, BackedOff, cacheVars
    <2>2. CASE i # f
        <3>1. item'[r][f] = item[r][f]
            BY <1>1, <1>8, <2>2 DEF Admitted, TryAgain, BackedOff, Put
        <3> QED BY <1>4, <2>1, <3>1
    <2>3. CASE i = f
        <3>1. item[r][f].at \in Asking BY <1>8, <2>3 DEF Admitted, TryAgain, BackedOff, At, Asking
        <3>2. item'[r][f].at \in Asking
            BY <1>1, <1>8, <2>3 DEF Admitted, TryAgain, BackedOff, Put, ItemType, Asking
        <3>3. ~Move(r, f) BY <3>1 DEF Move, At, Asking
        <3>4. item'[r][f].at \notin Storing BY <3>2 DEF Asking, Storing
        <3> QED BY <1>5, <2>1, <3>1, <3>3, <3>4
    <2> QED BY <2>2, <2>3
<1>9. ASSUME NEW g \in Files, g # f,
             GotFile(r, g) \/ Restore(r, g) \/ Prepared(r, g) \/ Clear(r, g) \/ Move(r, g)
      PROVE  Approaches(r, f)
    <2>1. g \in Items BY Constants
    <2>2. item'[r][f] = item[r][f]
        BY <1>1, <1>9, <2>1 DEF GotFile, Restore, Prepared, Clear, Move, Put
    <2>3. /\ run'[r].catalog = run[r].catalog /\ run'[r].limit = run[r].limit
          /\ run'[r].phase = run[r].phase
        BY <1>1, <1>9 DEF GotFile, Restore, Prepared, Clear, Move, RunType
    <2>4. Id(r, f) # Id(r, g) BY <1>9, IdsAreEntries
    <2>5. Id(r, f) \in pending[r] => Id(r, f) \in pending'[r]
        BY <1>9, <2>4 DEF GotFile, Restore, Prepared, Clear, Move, CacheType, cacheVars
    <2> QED BY <1>4, <2>2, <2>3, <2>5
<1>10. CASE GotFile(r, f)
    <2>1. item[r][f].at = "get" BY <1>10 DEF GotFile, At
    <2>2. run'[r].catalog = run[r].catalog /\ run'[r].limit = run[r].limit /\ run'[r].phase = run[r].phase
        BY <1>1, <1>10 DEF GotFile, RunType
    <2>3. Id(r, f) \in pending'[r] BY <1>10 DEF GotFile, CacheType
    <2>4. ~Move(r, f) BY <2>1 DEF Move, At
    <2> QED BY <1>5, <2>1, <2>2, <2>3, <2>4 DEF Asking
<1>11. CASE Restore(r, f)
    <2>1. run' = run /\ item[r][f].at = "look" BY <1>11 DEF Restore, At
    <2>2. item'[r][f].at = IF entry[Id(r, f)] = "whole" /\ Size(f) <= run[r].limit THEN "done" ELSE "ask"
        BY <1>1, <1>11 DEF Restore, Put, ItemType
    <2>3. ~Move(r, f) BY <2>1 DEF Move, At
    <2> QED BY <1>3, <1>5, <2>1, <2>2, <2>3 DEF Storing
<1>12. CASE Prepared(r, f) \/ Clear(r, f)
    <2>1. run' = run /\ item[r][f].at \in {"copy", "clear"} /\ pending' = pending
        BY <1>12 DEF Prepared, Clear, At, cacheVars
    <2>2. ~Move(r, f) BY <2>1 DEF Move, At
    <2> QED BY <1>5, <2>1, <2>2 DEF Storing
<1>13. ~Move(r, f)
    <2> SUFFICES ASSUME Move(r, f) PROVE FALSE OBVIOUS
    <2>1. item'[r][f].at = "done" BY <1>1 DEF Move, Put, ItemType
    <2> QED BY <1>3, <2>1
<1> QED
    BY <1>5, <1>6, <1>7, <1>8, <1>9, <1>10, <1>11, <1>12, <1>13 DEF Step, Request

LEMMA InTheWayStep ==
    ASSUME RunsInv, CacheType, OwnersWork, NothingInTheWay, [Next]_vars
    PROVE  NothingInTheWay'
<1>1. SUFFICES ASSUME Cached, NEW q \in Runs, NEW f \in Files,
                      item'[q][f].at \in Asking \cup Storing,
                      entry'[<<run'[q].catalog, f>>] = "whole"
               PROVE  Size(f) > run'[q].limit
    BY DEF NothingInTheWay, Id
<1>2. item'[q][f].at # "rest" BY <1>1 DEF Asking, Storing
<1>3. Id(q, f) = <<run[q].catalog, f>> /\ Id(q, f) \in Tokens \X Files
    BY IdsAreEntries DEF Id
<1>4. CASE item' = item /\ run' = run /\ (entry[Id(q, f)] = "whole" \/ entry' = entry)
    BY <1>1, <1>3, <1>4 DEF NothingInTheWay
<1>5. CASE Release \/ Report \/ UNCHANGED vars
    BY <1>4, <1>5 DEF Release, Report, vars, cacheVars
<1>6. CASE Kill
    BY <1>2, <1>6, KillRests, Constants
<1>7. ASSUME NEW id \in DOMAIN entry, Damage(id) \/ LateRemoval(id) PROVE Size(f) > run'[q].limit
    <2>1. run' = run /\ item' = item BY <1>7 DEF Damage, LateRemoval
    <2>2. entry'[Id(q, f)] = "whole" => entry[Id(q, f)] = "whole"
        BY <1>3, <1>7 DEF Damage, LateRemoval, CacheType
    <2> QED BY <1>1, <1>3, <1>4, <2>1, <2>2
<1>8. ASSUME NEW r \in Runs, Step(r) PROVE Size(f) > run'[q].limit
    <2>1. CASE q # r
        <3>1. run'[q] = run[q] /\ item'[q] = item[q] BY <1>8, <2>1, StepsKeepRuns
        <3>2. run[q].phase \in Holding BY <1>2, <3>1, FilesAreHeld
        <3>3. run[r].phase \notin Holding BY <1>1, <2>1, <3>2 DEF OwnersWork
        <3>4. entry'[Id(q, f)] = entry[Id(q, f)]
            <4> SUFFICES ASSUME entry'[Id(q, f)] # entry[Id(q, f)] PROVE FALSE
                OBVIOUS
            <4>1. Dropped(r) \/ \E g \in Files : Clear(r, g) \/ Move(r, g)
                BY <1>3, <1>8, EntriesMove
            <4> QED BY <3>3, <4>1 DEF Dropped, Clear, Move, At, Holding, Running
        <3> QED BY <1>1, <1>3, <3>1, <3>4 DEF NothingInTheWay
    <2>2. CASE q = r
        <3>1. /\ run'[r].catalog = run[r].catalog /\ run'[r].limit = run[r].limit
              /\ ~Dropped(r) /\ ~Move(r, f)
              /\ \/ item[r][f].at \in Asking \cup Storing
                 \/ item[r][f].at = "look" /\ ~(entry[Id(r, f)] = "whole" /\ Size(f) <= run[r].limit)
            BY <1>1, <1>8, <2>2, FilesMove DEF Approaches
        <3>2. entry'[Id(r, f)] = "whole" BY <1>1, <1>3, <2>2, <3>1
        <3>3. entry[Id(r, f)] = "whole"
            <4> SUFFICES ASSUME entry[Id(r, f)] # "whole" PROVE FALSE
                OBVIOUS
            <4>1. \E g \in Files : Move(r, g) /\ Id(r, f) = Id(r, g)
                BY <1>3, <1>8, <2>2, <3>1, <3>2, EntriesMove
            <4> QED BY <3>1, <4>1, IdsAreEntries
        <3>4. run[r].limit \in Nat /\ Size(f) \in Nat
            BY Constants DEF RunsInv, RunType
        <3> QED BY <1>1, <2>2, <3>1, <3>3, <3>4 DEF NothingInTheWay
    <2> QED BY <2>1, <2>2
<1> QED BY <1>5, <1>6, <1>7, <1>8 DEF Next, Outside

LEMMA PendingMoves ==
    ASSUME RunsInv, CacheType, OwnersWork, NEW r \in Runs, Step(r)
    PROVE  \/ /\ Begin(r) /\ Cached /\ owner = Nobody /\ owner' = r
              /\ pending' = [q \in Runs |-> {}]
           \/ pending' = pending
           \/ run[r].phase \in Holding /\ \A q \in Runs \ {r} : pending'[q] = pending[q]
<1>1. CASE Begin(r) BY <1>1 DEF Begin
<1>2. CASE Pin(r) \/ Plan(r) \/ Joined(r) \/ Recheck(r) \/ Publish(r) \/ Fail(r)
    BY <1>2 DEF Pin, Plan, Joined, Recheck, Publish, Fail, cacheVars
<1>3. CASE Dropped(r)
    BY <1>3 DEF Dropped, Holding, CacheType
<1>4. CASE Request(r)
    <2>1. run[r].phase \in Holding
        BY <1>4 DEF Request, Admitted, TryAgain, BackedOff, GotHash, GotCatalog, GotFile, Restore,
                    Prepared, Clear, Move, At, Holding, Running
    <2>2. \A q \in Runs \ {r} : pending'[q] = pending[q]
        BY <1>4 DEF Request, Admitted, TryAgain, BackedOff, GotHash, GotCatalog, GotFile, Restore,
                    Prepared, Clear, Move, cacheVars, CacheType
    <2> QED BY <2>1, <2>2
<1> QED BY <1>1, <1>2, <1>3, <1>4 DEF Step

LEMMA OwnPendingStep ==
    ASSUME RunsInv, CacheType, OwnersWork, OwnPendingStays, [Next]_vars
    PROVE  OwnPendingStays'
<1>1. \A q \in Runs, f \in Files :
         run[q].phase = "batch" /\ item[q][f].at \in Storing => Id(q, f) \in pending[q]
    BY DEF OwnPendingStays, Committing, Storing
<1>2. SUFFICES ASSUME NEW q \in Runs, NEW f \in Files, run'[q].phase = "batch",
                      item'[q][f].at \in Storing
               PROVE  <<run'[q].catalog, f>> \in pending'[q]
    BY DEF OwnPendingStays, Committing, Storing, Id
<1>3. item'[q][f].at # "rest" BY <1>2 DEF Storing
<1>4. Id(q, f) = <<run[q].catalog, f>> BY DEF Id
<1>5. CASE UNCHANGED <<run, item, pending>>
    BY <1>1, <1>2, <1>4, <1>5
<1>6. CASE Kill BY <1>3, <1>6, KillRests, Constants
<1>7. CASE Release \/ Report \/ UNCHANGED vars
    BY <1>5, <1>7 DEF Release, Report, vars, cacheVars
<1>8. ASSUME NEW id \in DOMAIN entry, Damage(id) \/ LateRemoval(id)
      PROVE  <<run'[q].catalog, f>> \in pending'[q]
    BY <1>5, <1>8 DEF Damage, LateRemoval
<1>9. ASSUME NEW r \in Runs, Step(r) PROVE <<run'[q].catalog, f>> \in pending'[q]
    <2>1. CASE q # r
        <3>1. run'[q] = run[q] /\ item'[q] = item[q] BY <1>9, <2>1, StepsKeepRuns
        <3>2. run[q].phase \in Holding BY <1>3, <3>1, FilesAreHeld
        <3>3. ~(Cached /\ owner = Nobody)
            BY <3>2, DownloadAssumption DEF OwnersWork
        <3>4. pending'[q] = pending[q] BY <1>9, <2>1, <3>3, PendingMoves
        <3> QED BY <1>1, <1>2, <1>4, <3>1, <3>4
    <2>2. CASE q = r
        <3>1. Cached
            <4>1. Local(run'[r], item'[r]) BY <1>9, StepsKeepRuns
            <4> QED BY <1>2, <2>2, <4>1, Constants DEF Local, Placed, Storing
        <3>2. item'[r][f].at \in Asking \cup Storing BY <1>2, <2>2
        <3>3. /\ run'[r].catalog = run[r].catalog
              /\ run[r].phase = "batch"
              /\ \/ Id(r, f) \in pending'[r]
                 \/ item[r][f].at \in Storing /\ (Id(r, f) \in pending[r] => Id(r, f) \in pending'[r])
            BY <1>2, <1>9, <2>2, <3>1, <3>2, FilesMove DEF Approaches
        <3>4. Id(r, f) \in pending'[r] BY <1>1, <3>3
        <3> QED BY <1>4, <2>2, <3>3, <3>4
    <2> QED BY <2>1, <2>2
<1> QED BY <1>6, <1>7, <1>8, <1>9 DEF Next, Outside

LEMMA ReapedStep ==
    ASSUME RunsInv, CacheType, OwnersWork, OthersReaped, [Next]_vars
    PROVE  OthersReaped'
<1>1. Nobody \notin Runs BY DownloadAssumption
<1>2. CASE UNCHANGED <<run, owner, pending>> BY <1>2 DEF OthersReaped
<1>3. CASE Kill BY <1>1, <1>3 DEF Kill, OthersReaped
<1>4. CASE Release \/ Report \/ UNCHANGED vars
    BY <1>2, <1>4 DEF Release, Report, vars, cacheVars
<1>5. ASSUME NEW id \in DOMAIN entry, Damage(id) \/ LateRemoval(id) PROVE OthersReaped'
    BY <1>2, <1>5 DEF Damage, LateRemoval
<1>6. ASSUME NEW r \in Runs, Step(r), NEW q \in Runs, owner' = q, run'[q].phase \in Running,
             NEW p \in Runs \ {q}
      PROVE  pending'[p] = {}
    <2>1. \A o \in Runs \ {r} : run'[o] = run[o] BY <1>6, StepsKeepRuns
    <2>2. CASE pending' = [o \in Runs |-> {}] BY <2>2
    <2>3. CASE pending' # [o \in Runs |-> {}]
        <3>1. \/ owner' = owner /\ run[r].phase \in Holding
              \/ owner' = owner /\ (~Cached \/ run'[r].phase = "failed") /\ Begin(r)
              \/ owner' = (IF owner = r THEN Nobody ELSE owner) /\ run[r].phase \in Holding
                 /\ run'[r].phase \notin Holding
            BY <1>6, <2>3, LockMoves
        <3>2. owner = q BY <1>1, <1>6, <3>1
        <3>3. Cached BY <1>1, <3>2 DEF OwnersWork
        <3>4. run[r].phase \in Holding => r = q BY <3>2, <3>3 DEF OwnersWork
        <3>5. pending' = pending \/ (run[r].phase \in Holding /\ \A o \in Runs \ {r} : pending'[o] = pending[o])
            BY <1>6, <2>3, PendingMoves
        <3>6. pending'[p] = pending[p] BY <3>4, <3>5
        <3>7. run[q].phase \in Running
            <4>1. CASE q # r BY <1>6, <2>1, <4>1
            <4>2. CASE q = r
                <5>1. run[r].phase \in Holding
                    <6>1. "failed" \notin Running BY DEF Running
                    <6> QED BY <1>6, <3>1, <3>3, <4>2, <6>1
                <5>2. ~Dropped(r)
                    <6> SUFFICES ASSUME Dropped(r) PROVE FALSE OBVIOUS
                    <6>1. run'[r].phase = "failed" BY DEF Dropped, To, RunsInv, RunType
                    <6> QED BY <1>6, <4>2, <6>1 DEF Running
                <5>3. run[r].phase # "dropping"
                    BY <1>6, <5>2 DEF Step, Request, Begin, Pin, Plan, Joined, Recheck, Publish, Fail,
                       GotHash, GotCatalog, Admitted, TryAgain, BackedOff, GotFile, Restore, Prepared,
                       Clear, Move, At, Running
                <5> QED BY <4>2, <5>1, <5>3 DEF Holding
            <4> QED BY <4>1, <4>2
        <3> QED BY <3>2, <3>6, <3>7 DEF OthersReaped
    <2> QED BY <2>2, <2>3
<1>7. ASSUME NEW r \in Runs, Step(r) PROVE OthersReaped'
    BY <1>6, <1>7 DEF OthersReaped
<1> QED BY <1>3, <1>4, <1>5, <1>7 DEF Next, Outside

-----------------------------------------------------------------------------
(* The inductive invariant of everything that runs share.                  *)
IInv == VersionInv /\ PermitsExact /\ CacheInv

LEMMA InductiveStep ==
    ASSUME IInv, [Next]_vars
    PROVE  IInv'
<1>1. VersionInv' BY VersionStep DEF IInv
<1>2. PermitsExact' BY PermitStep DEF IInv, VersionInv
<1>3. CacheInv'
    BY CacheTypeStep, OwnersStep, InTheWayStep, OwnPendingStep, ReapedStep DEF IInv, VersionInv, CacheInv
<1> QED BY <1>1, <1>2, <1>3 DEF IInv

LEMMA InductiveInit ==
    ASSUME Init
    PROVE  IInv
<1>1. VersionInv BY VersionInit
<1>2. \A r \in Runs : run[r].phase = "idle" /\ \A i \in Items : item[r][i].at = "rest"
    BY RestIsAnItem DEF Init, Idle
<1>3. PermitsExact
    <2>1. Admissions = {} BY <1>2 DEF Admissions, OnWire
    <2>2. permits = 0 BY DEF Init
    <2> QED BY <2>1, <2>2, FS_EmptySet, PermitsAreAdmissions, Constants
<1>4. Nobody \notin Runs BY DownloadAssumption
<1>5. CacheType BY DEF Init, CacheType
<1>6. OwnersWork BY <1>2, <1>4 DEF Init, OwnersWork, Holding, Running
<1>7. NothingInTheWay /\ OwnPendingStays /\ OthersReaped
    BY <1>2, <1>4, Constants DEF Init, NothingInTheWay, OwnPendingStays, Committing, OthersReaped, Asking, Storing
<1> QED BY <1>1, <1>3, <1>5, <1>6, <1>7 DEF IInv, CacheInv

(* At every moment of runs that share the permits of the service, the      *)
(* cache and the disk: the budget of each is kept, a permit is held by a   *)
(* request on the wire and by nothing else, a run keeps the temporary      *)
(* directory it is about to rename, and finds none of others that are gone *)
(* (update.rs, cache.rs, lib.rs), for any sizes and limits.                *)
THEOREM RunsShareSafely == Spec => []Inv
<1>1. Init => IInv BY InductiveInit
<1>2. IInv /\ [Next]_vars => IInv' BY InductiveStep
<1>3. IInv => Inv
    <2> SUFFICES ASSUME IInv PROVE Inv OBVIOUS
    <2>1. BudgetHolds BY StoredFits DEF IInv, VersionInv, BudgetHolds
    <2>2. permits \in Nat BY AdmissionsAreFinite, PermitsAreAdmissions DEF IInv
    <2>3. TypeOK BY <2>2 DEF TypeOK, IInv, VersionInv, RunsInv, CacheInv, CacheType
    <2> QED BY <2>1, <2>3 DEF Inv, IInv, CacheInv
<1> QED BY <1>1, <1>2, <1>3, PTL DEF Spec

(* docs/NETWORK.md "verified cache entries survive": no step of a run, nor *)
(* its end or that of the process, takes a whole entry away.               *)
THEOREM EntriesAreKept == Spec => EntriesSurvive
<1> DEFINE Keeps == \A id \in DOMAIN entry :
                       entry[id] = "whole" /\ entry'[id] # "whole" => Damage(id) \/ LateRemoval(id)
<1>1. Init => IInv BY InductiveInit
<1>2. IInv /\ [Next]_vars => IInv' BY InductiveStep
<1>3. IInv /\ [Next]_vars => [Keeps]_vars
    <2> SUFFICES ASSUME IInv, [Next]_vars, NEW id \in DOMAIN entry,
                        entry[id] = "whole", entry'[id] # "whole"
                 PROVE  Damage(id) \/ LateRemoval(id)
        OBVIOUS
    <2>1. /\ RunsInv /\ CacheType /\ OwnersWork /\ NothingInTheWay
          /\ entry \in [Tokens \X Files -> {"none", "whole", "bad"}] /\ id \in Tokens \X Files
        BY DEF IInv, VersionInv, CacheInv, CacheType
    <2>2. CASE Release \/ Report \/ Kill \/ UNCHANGED vars
        BY <2>2 DEF Release, Report, Kill, vars, cacheVars
    <2>3. ASSUME NEW i \in DOMAIN entry, Damage(i) \/ LateRemoval(i) PROVE i = id
        BY <2>1, <2>3 DEF Damage, LateRemoval
    <2>4. ASSUME NEW r \in Runs, Step(r) PROVE FALSE
        <3>1. PICK f \in Files : id = Id(r, f) /\ item[r][f].at \in Storing
            <4>1. \/ \E f \in Files : id = Id(r, f) /\ item[r][f].at = "move"
                  \/ \E f \in Files : Clear(r, f) /\ id = Id(r, f)
                  \/ \E f \in Files : Move(r, f) /\ id = Id(r, f)
                BY <2>1, <2>4, EntriesMove
            <4> QED BY <4>1 DEF Clear, Move, At, Storing
        <3>2. Cached /\ Size(f) <= run[r].limit
            BY <2>1, <3>1, Constants DEF RunsInv, Local, Placed, Affordable, Storing
        <3>3. Size(f) > run[r].limit BY <2>1, <3>1, <3>2 DEF NothingInTheWay
        <3>4. run[r].limit \in Nat /\ Size(f) \in Nat BY <2>1, Constants DEF RunsInv, RunType
        <3> QED BY <3>2, <3>3, <3>4
    <2> QED BY <2>2, <2>3, <2>4 DEF Next, Outside
<1> QED BY <1>1, <1>2, <1>3, PTL DEF Spec, EntriesSurvive
=============================================================================
