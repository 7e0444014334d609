-------------------------- MODULE Admission_proofs --------------------------
(***************************************************************************)
(* What work has to wait for.  Permits, for any number of workers and      *)
(* jobs, every set of limits and resources of every size: counters are     *)
(* what the workers hold, limits hold, and no workers wait for each other  *)
(* in a circle.  Then the CPU throttle, for any number of threads and      *)
(* processes: its samples are sound.                                       *)
(***************************************************************************)
EXTENDS Admission, CpuThrottle, Sums

(* The order in which every worker takes permits, whatever sections it is  *)
(* in.                                                                     *)
Rank(k) ==
    CASE k = "bundle" -> 1
      [] k = "allBundle" -> 2
      [] k \in {"acb", "usm"} -> 3
      [] k \in {"image", "hca", "audio", "video"} -> 4
      [] k = "media" -> 5
      [] k = "allMedia" -> 6
      [] k = "cpu" -> 7
      [] OTHER -> 8

Parts(s) == {Chain(s)[n] : n \in DOMAIN Chain(s)}

WorkerType ==
    [scope: Seq(SectionNames), want: SUBSET Kinds, held: SUBSET Kinds, failing: BOOLEAN,
     bytes: Bytes \cup {0}, left: 0 .. Resources, sections: 0 .. Sections]

(* A worker in no section has nothing; what another one holds belongs to a *)
(* section it is in.                                                       *)
HeldInSections(x) ==
    /\ x.scope = <<>> => x.want = {} /\ x.held = {} /\ ~x.failing
    /\ \A k \in x.held : \E n \in DOMAIN x.scope : k \in Permits(x.scope[n])
    /\ x.want # {} => x.want \subseteq Permits(x.scope[Len(x.scope)])

(* Sections nest in the order of their permits.                            *)
Nested(scope) ==
    \A m, n \in DOMAIN scope :
        m < n => \A k \in Parts(scope[m]), l \in Parts(scope[n]) : Rank(k) < Rank(l)

(* So what a worker waits for comes after all that it holds.               *)
WantsLater(x) == \A k \in x.held, l \in x.want : Rank(k) < Rank(l)

Sound(x) == x \in WorkerType /\ HeldInSections(x) /\ Nested(x.scope) /\ WantsLater(x)

IInv ==
    /\ used \in [Kinds -> [Owners -> Nat]]
    /\ worker \in [Workers -> WorkerType]
    /\ \A w \in Workers : Sound(worker[w])
    /\ cancelled \subseteq Jobs
    /\ CountersExact
    /\ LimitsHold

-----------------------------------------------------------------------------
(* Sections and their permits *)

LEMMA ChainShape ==
    ASSUME NEW s \in SectionNames
    PROVE  /\ Parts(s) \subseteq Kinds
           /\ Parts(s) # {}
           /\ \E len \in 1 .. 4 : DOMAIN Chain(s) = 1 .. len
           /\ \A m, n \in DOMAIN Chain(s) : m < n => Rank(Chain(s)[m]) < Rank(Chain(s)[n])
<1>1. CASE s = "resource"
    BY <1>1 DEF Chain, Parts, Kinds, Budgets, Rank
<1>2. CASE s = "media"
    BY <1>2 DEF Chain, Parts, Kinds, Budgets, Rank
<1>3. CASE s = "cpu"
    BY <1>3 DEF Chain, Parts, Kinds, Budgets, Rank
<1>4. CASE s \in {"image", "acb", "usm", "hca", "audio", "video"}
    <2>1. Chain(s) = <<s>> BY <1>4 DEF Chain
    <2> QED BY <1>4, <2>1 DEF Parts, Kinds
<1> QED BY <1>1, <1>2, <1>3, <1>4 DEF SectionNames

LEMMA InnerLater ==
    ASSUME NEW s \in SectionNames, NEW t \in Inner(s)
    PROVE  t \in SectionNames /\ \A k \in Parts(s), l \in Parts(t) : Rank(k) < Rank(l)
<1> USE DEF Parts, Rank, SectionNames
<1>1. Chain("resource") = <<"bundle", "allBundle">> /\ Chain("cpu") = <<"cpu", "allCpu">>
      /\ Chain("media") = <<"media", "allMedia", "cpu", "allCpu">>
    BY DEF Chain
<1>2. \A x \in {"image", "acb", "usm", "hca", "audio", "video"} : Chain(x) = <<x>>
    BY DEF Chain
<1>3. CASE s = "resource"
    <2>1. t \in {"cpu", "image", "acb", "usm"} BY <1>3 DEF Inner
    <2> QED BY <1>1, <1>2, <1>3, <2>1
<1>4. CASE s = "image"
    <2>1. t \in {"cpu", "media"} BY <1>4 DEF Inner
    <2> QED BY <1>1, <1>2, <1>4, <2>1
<1>5. CASE s = "acb"
    <2>1. t \in {"cpu", "hca", "audio", "media"} BY <1>5 DEF Inner
    <2> QED BY <1>1, <1>2, <1>5, <2>1
<1>6. CASE s = "usm"
    <2>1. t \in {"cpu", "hca", "audio", "video", "media"} BY <1>6 DEF Inner
    <2> QED BY <1>1, <1>2, <1>6, <2>1
<1>7. CASE s = "hca"
    <2>1. t = "cpu" BY <1>7 DEF Inner
    <2> QED BY <1>1, <1>2, <1>7, <2>1
<1>8. CASE s \in {"audio", "video"}
    <2>1. t = "media" BY <1>8 DEF Inner
    <2> QED BY <1>1, <1>2, <1>8, <2>1
<1>9. CASE s \in {"media", "cpu"}
    BY <1>9 DEF Inner
<1> QED BY <1>3, <1>4, <1>5, <1>6, <1>7, <1>8, <1>9

LEMMA PermitsShape ==
    ASSUME NEW s
    PROVE  Permits(s) = Present \cap Parts(s)
BY DEF Permits, Parts

(* Who waits for any of a section's permits waits for one of them, and the *)
(* others come later.                                                      *)
LEMMA LeadExists ==
    ASSUME NEW s \in SectionNames, NEW S \in SUBSET Permits(s), S # {}
    PROVE  \E k \in S : Leads(Chain(s), S, k)
<1> DEFINE Found == {n \in DOMAIN Chain(s) : Chain(s)[n] \in S}
<1>1. PICK len \in 1 .. 4 : DOMAIN Chain(s) = 1 .. len
    BY ChainShape
<1>2. Found \in SUBSET Nat /\ Found # {}
    BY <1>1, PermitsShape DEF Parts
<1>3. PICK n \in Found : \A m \in Found : n <= m
    <2> HIDE DEF Found
    <2> QED BY <1>2, LeastNumber
<1>4. \A m \in 1 .. n - 1 : Chain(s)[m] \notin S
    BY <1>1, <1>3
<1> QED BY <1>3, <1>4 DEF Leads

LEMMA LeadFirst ==
    ASSUME NEW s \in SectionNames, NEW S \in SUBSET Permits(s), NEW k, Leads(Chain(s), S, k),
           NEW l \in S, l # k
    PROVE  Rank(k) < Rank(l)
<1>1. PICK len \in 1 .. 4 : DOMAIN Chain(s) = 1 .. len
    BY ChainShape
<1>2. PICK n \in DOMAIN Chain(s) : Chain(s)[n] = k /\ \A m \in 1 .. n - 1 : Chain(s)[m] \notin S
    BY DEF Leads
<1>3. PICK m \in DOMAIN Chain(s) : Chain(s)[m] = l
    BY PermitsShape DEF Parts
<1>4. n < m
    BY <1>1, <1>2, <1>3
<1> QED BY <1>2, <1>3, <1>4, ChainShape

LEMMA WeightShape ==
    ASSUME AdmissionAssumption, NEW b \in Bytes \cup {0}, NEW k \in Kinds
    PROVE  /\ Weight(b, k) \in Nat \ {0}
           /\ Weight(b, k) <= Limit(k)
           /\ k \in Budgets /\ b >= Limit(k) => Weight(b, k) = Limit(k)
<1>1. Limit(k) \in Nat \ {0} /\ b \in Nat
    BY DEF AdmissionAssumption
<1> QED BY <1>1 DEF Weight

-----------------------------------------------------------------------------
(* What becomes of one worker *)

LEMMA InnermostShape ==
    ASSUME NEW x, Sound(x), x.scope # <<>>
    PROVE  /\ Len(x.scope) \in DOMAIN x.scope
           /\ x.scope[Len(x.scope)] \in SectionNames
           /\ \A n \in DOMAIN x.scope : x.scope[n] \in SectionNames
BY DEF Sound, WorkerType

LEMMA FailSound ==
    ASSUME NEW x, Sound(x), x.scope # <<>>,
           NEW y, y = [x EXCEPT !.want = {}, !.failing = TRUE]
    PROVE  Sound(y)
<1>1. /\ y \in WorkerType /\ y.scope = x.scope /\ y.held = x.held /\ y.want = {}
    BY DEF Sound, WorkerType
<1> QED BY <1>1 DEF Sound, HeldInSections, WantsLater

LEMMA StartSound ==
    ASSUME AdmissionAssumption, NEW x, Sound(x), x.scope = <<>>, x.left > 0, NEW b \in Bytes,
           NEW y, y = [x EXCEPT !.scope = <<"resource">>, !.want = Permits("resource"),
                                !.bytes = b, !.left = @ - 1, !.sections = 0]
    PROVE  Sound(y)
<1>1. "resource" \in SectionNames BY DEF SectionNames
<1>2. Permits("resource") \in SUBSET Kinds
    BY <1>1, PermitsShape, ChainShape
<1>3. y \in WorkerType
    <2>1. x \in WorkerType BY DEF Sound
    <2>2. x.left - 1 \in 0 .. Resources /\ 0 \in 0 .. Sections
        BY <2>1 DEF WorkerType, AdmissionAssumption
    <2>3. <<"resource">> \in Seq(SectionNames) BY <1>1
    <2> QED BY <1>2, <2>1, <2>2, <2>3 DEF WorkerType
<1>4. /\ y.scope = <<"resource">> /\ y.want = Permits("resource") /\ y.held = {}
    BY DEF Sound, WorkerType, HeldInSections
<1> QED BY <1>3, <1>4 DEF Sound, HeldInSections, WantsLater, Nested

LEMMA EnterSound ==
    ASSUME AdmissionAssumption, NEW x, Sound(x), x.scope # <<>>, x.want = {},
           NEW s \in Inner(x.scope[Len(x.scope)]), x.sections < Sections,
           NEW y, y = [x EXCEPT !.scope = Append(@, s), !.want = Permits(s), !.sections = @ + 1]
    PROVE  Sound(y)
<1> DEFINE last == x.scope[Len(x.scope)]
<1>1. /\ x.scope \in Seq(SectionNames) /\ Len(x.scope) \in Nat
      /\ last \in SectionNames /\ Len(x.scope) \in DOMAIN x.scope
    BY InnermostShape DEF Sound, WorkerType
<1>2. s \in SectionNames /\ \A k \in Parts(last), l \in Parts(s) : Rank(k) < Rank(l)
    BY <1>1, InnerLater
<1>3. Permits(s) \in SUBSET Kinds
    BY <1>2, PermitsShape, ChainShape
<1>4. /\ y.scope = Append(x.scope, s) /\ y.want = Permits(s) /\ y.held = x.held
      /\ Len(y.scope) = Len(x.scope) + 1 /\ y.scope[Len(y.scope)] = s
      /\ DOMAIN y.scope = DOMAIN x.scope \cup {Len(x.scope) + 1}
      /\ \A n \in DOMAIN x.scope : y.scope[n] = x.scope[n]
    BY <1>1 DEF Sound, WorkerType
<1>5. y \in WorkerType
    <2>1. x \in WorkerType BY DEF Sound
    <2>2. x.sections + 1 \in 0 .. Sections
        BY <2>1 DEF WorkerType, AdmissionAssumption
    <2>3. Append(x.scope, s) \in Seq(SectionNames) BY <1>1, <1>2
    <2> QED BY <1>3, <2>1, <2>2, <2>3 DEF WorkerType
<1>6. ASSUME NEW n \in DOMAIN x.scope, NEW k \in Parts(x.scope[n]), NEW l \in Parts(s)
      PROVE  Rank(k) < Rank(l)
    <2>1. CASE n = Len(x.scope)
        BY <1>2, <1>6, <2>1
    <2>2. CASE n # Len(x.scope)
        <3>1. n < Len(x.scope) BY <1>1, <2>2
        <3>2. PICK j \in Parts(last) : TRUE BY <1>1, ChainShape
        <3>3. Rank(k) < Rank(j) BY <1>1, <1>6, <3>1 DEF Sound, Nested
        <3>4. Rank(j) < Rank(l) BY <1>2
        <3>5. Rank(k) \in Nat /\ Rank(j) \in Nat /\ Rank(l) \in Nat BY DEF Rank
        <3> QED BY <3>3, <3>4, <3>5
    <2> QED BY <2>1, <2>2
<1>7. Nested(y.scope)
    <2> SUFFICES ASSUME NEW m \in DOMAIN y.scope, NEW n \in DOMAIN y.scope, m < n,
                        NEW k \in Parts(y.scope[m]), NEW l \in Parts(y.scope[n])
                 PROVE  Rank(k) < Rank(l)
        BY DEF Nested
    <2>1. m \in DOMAIN x.scope BY <1>1, <1>4
    <2>2. CASE n \in DOMAIN x.scope
        BY <1>4, <2>1, <2>2 DEF Sound, Nested
    <2>3. CASE n = Len(x.scope) + 1
        BY <1>4, <1>6, <2>1, <2>3
    <2> QED BY <1>4, <2>2, <2>3
<1>8. HeldInSections(y)
    <2>1. y.scope # <<>> BY <1>1, <1>4
    <2> QED BY <2>1, <1>4 DEF Sound, HeldInSections
<1>9. WantsLater(y)
    <2> SUFFICES ASSUME NEW k \in x.held, NEW l \in Permits(s) PROVE Rank(k) < Rank(l)
        BY <1>4 DEF WantsLater
    <2>1. PICK n \in DOMAIN x.scope : k \in Permits(x.scope[n])
        BY DEF Sound, HeldInSections
    <2> QED BY <2>1, <1>6, PermitsShape
<1> QED BY <1>5, <1>7, <1>8, <1>9 DEF Sound

LEMMA AcquireSound ==
    ASSUME NEW x, Sound(x), NEW k, Leads(Chain(x.scope[Len(x.scope)]), x.want, k),
           NEW y, y = [x EXCEPT !.held = @ \cup {k}, !.want = @ \ {k}]
    PROVE  Sound(y) /\ x.scope # <<>> /\ k \notin x.held /\ k \in Present
<1>1. k \in x.want /\ x.scope # <<>> /\ x.want \subseteq Permits(x.scope[Len(x.scope)])
    BY DEF Leads, Sound, HeldInSections
<1>2. x.scope[Len(x.scope)] \in SectionNames /\ Len(x.scope) \in DOMAIN x.scope
    BY <1>1, InnermostShape
<1>3. /\ y.scope = x.scope /\ y.held = x.held \cup {k} /\ y.want = x.want \ {k}
      /\ y \in WorkerType
    BY <1>1 DEF Sound, WorkerType
<1>4. HeldInSections(y)
    BY <1>1, <1>2, <1>3 DEF Sound, HeldInSections
<1>5. \A l \in y.want : Rank(k) < Rank(l)
    BY <1>1, <1>2, <1>3, LeadFirst
<1>6. WantsLater(y)
    BY <1>3, <1>5 DEF Sound, WantsLater
<1>7. k \notin x.held
    <2>1. Rank(k) \in Nat BY DEF Rank
    <2> QED BY <1>1, <2>1 DEF Sound, WantsLater
<1>8. k \in Present
    BY <1>1, PermitsShape
<1> QED BY <1>1, <1>3, <1>4, <1>6, <1>7, <1>8 DEF Sound

LEMMA ReleaseSound ==
    ASSUME NEW x, Sound(x), x.scope # <<>>, x.want = {},
           NEW k, NEW y, y = [x EXCEPT !.held = @ \ {k}]
    PROVE  Sound(y)
<1>1. /\ y.scope = x.scope /\ y.held = x.held \ {k} /\ y.want = {} /\ y \in WorkerType
    BY DEF Sound, WorkerType
<1> QED BY <1>1 DEF Sound, HeldInSections, WantsLater

LEMMA LeaveSound ==
    ASSUME NEW x, Sound(x), x.scope # <<>>, x.want = {},
           Permits(x.scope[Len(x.scope)]) \cap x.held = {},
           NEW fails \in BOOLEAN,
           NEW y, y = [x EXCEPT !.scope = SubSeq(@, 1, Len(@) - 1),
                                !.failing = x.failing /\ fails /\ Len(x.scope) > 1]
    PROVE  Sound(y)
<1>1. x.scope \in Seq(SectionNames) /\ Len(x.scope) \in Nat /\ Len(x.scope) > 0
    BY InnermostShape DEF Sound, WorkerType
<1>2. /\ y.scope = SubSeq(x.scope, 1, Len(x.scope) - 1) /\ y.held = x.held /\ y.want = {}
      /\ y.failing = (x.failing /\ fails /\ Len(x.scope) > 1)
    BY DEF Sound, WorkerType
<1>3. /\ y.scope \in Seq(SectionNames) /\ Len(y.scope) = Len(x.scope) - 1
      /\ DOMAIN y.scope = 1 .. Len(x.scope) - 1
      /\ \A n \in DOMAIN y.scope : y.scope[n] = x.scope[n] /\ n \in DOMAIN x.scope
    BY <1>1, <1>2
<1>4. y \in WorkerType
    BY <1>2, <1>3 DEF Sound, WorkerType
<1>5. \A k \in x.held : \E n \in DOMAIN y.scope : k \in Permits(x.scope[n])
    <2> SUFFICES ASSUME NEW k \in x.held
                 PROVE  \E n \in DOMAIN y.scope : k \in Permits(x.scope[n])
        OBVIOUS
    <2>1. PICK n \in DOMAIN x.scope : k \in Permits(x.scope[n])
        BY DEF Sound, HeldInSections
    <2>2. n # Len(x.scope) BY <2>1
    <2>3. n \in 1 .. Len(x.scope) - 1 BY <1>1, <2>1, <2>2
    <2> QED BY <1>3, <2>1, <2>3
<1>6. ASSUME y.scope = <<>> PROVE y.held = {} /\ ~y.failing
    <2>1. Len(y.scope) = 0 BY <1>6
    <2>2. Len(x.scope) = 1
        <3> DEFINE n == Len(x.scope)
        <3>1. n \in Nat /\ n > 0 BY <1>1
        <3>2. n - 1 = 0 BY <1>3, <2>1
        <3> HIDE DEF n
        <3>3. n = 1 BY <3>1, <3>2
        <3> QED BY <3>3 DEF n
    <2>3. ~(Len(x.scope) > 1) BY <2>2
    <2>4. ~y.failing BY <1>2, <2>3
    <2>5. DOMAIN y.scope = {} BY <1>3, <2>2
    <2>6. y.held = {} BY <1>2, <1>5, <2>5
    <2> QED BY <2>4, <2>6
<1>7. HeldInSections(y)
    BY <1>2, <1>3, <1>5, <1>6 DEF HeldInSections
<1>8. Nested(y.scope)
    BY <1>3 DEF Sound, Nested
<1> QED BY <1>2, <1>4, <1>7, <1>8 DEF Sound, WantsLater
-----------------------------------------------------------------------------
(* What becomes of the counters *)

LEMMA HoldersFinite ==
    ASSUME AdmissionAssumption, NEW k, NEW o
    PROVE  IsFiniteSet(Holders(k, o))
<1>1. Holders(k, o) \subseteq Workers BY DEF Holders
<1> QED BY <1>1, FS_Subset DEF AdmissionAssumption

LEMMA OwnerShape ==
    ASSUME AdmissionAssumption, NEW w \in Workers, NEW k
    PROVE  Owner(w, k) \in Owners
BY DEF Owner, Owners, AdmissionAssumption

LEMMA UnitsShape ==
    ASSUME AdmissionAssumption, IInv, NEW k \in Kinds, NEW w \in Workers
    PROVE  /\ Units(k)[w] = Weight(worker[w].bytes, k)
           /\ Units(k)[w] \in Nat \ {0}
           /\ Units(k)[w] <= Limit(k)
<1>1. worker[w].bytes \in Bytes \cup {0} BY DEF IInv, WorkerType
<1> QED BY <1>1, WeightShape DEF Units

(* Counters and what the workers hold stay as they are.                    *)
LEMMA KeepCounters ==
    ASSUME AdmissionAssumption, IInv, UNCHANGED used,
           \A w \in Workers : worker'[w].held = worker[w].held,
           \A w \in Workers : worker[w].held # {} => worker'[w].bytes = worker[w].bytes
    PROVE  CountersExact' /\ LimitsHold'
<1>1. ASSUME NEW k \in Kinds, NEW o \in Owners
      PROVE  used'[k][o] = SumFunctionOnSet(Units(k)', Holders(k, o)')
    <2>1. Holders(k, o)' = Holders(k, o)
        BY DEF Holders, Owner
    <2>2. \A w \in Holders(k, o) : Units(k)[w] = Units(k)'[w]
        BY DEF Holders, Units
    <2>3. SumFunctionOnSet(Units(k), Holders(k, o)) = SumFunctionOnSet(Units(k)', Holders(k, o))
        BY <2>2, HoldersFinite, SumSame
    <2>4. used'[k][o] = SumFunctionOnSet(Units(k), Holders(k, o))
        BY DEF IInv, CountersExact
    <2> QED BY <2>1, <2>3, <2>4, Zenon
<1>2. LimitsHold'
    BY DEF IInv, LimitsHold
<1> QED BY <1>1, <1>2 DEF CountersExact

LEMMA InitIInv == ASSUME AdmissionAssumption, AdmissionInit PROVE IInv
<1>1. used \in [Kinds -> [Owners -> Nat]] BY DEF AdmissionInit
<1>2. \A w \in Workers : worker[w] \in WorkerType
    <2>1. <<>> \in Seq(SectionNames) OBVIOUS
    <2>2. Resources \in 0 .. Resources /\ 0 \in 0 .. Sections BY DEF AdmissionAssumption
    <2> QED BY <2>1, <2>2 DEF AdmissionInit, WorkerType
<1>3. \A w \in Workers : Sound(worker[w])
    <2> SUFFICES ASSUME NEW w \in Workers PROVE Sound(worker[w])
        OBVIOUS
    <2>1. /\ worker[w].scope = <<>> /\ worker[w].want = {} /\ worker[w].held = {}
          /\ worker[w].failing = FALSE
        BY DEF AdmissionInit
    <2>2. HeldInSections(worker[w]) /\ WantsLater(worker[w])
        BY <2>1 DEF HeldInSections, WantsLater
    <2>3. Nested(worker[w].scope)
        BY <2>1 DEF Nested
    <2> QED BY <1>2, <2>2, <2>3 DEF Sound
<1>4. CountersExact
    <2>1. \A k \in Kinds, o \in Owners : Holders(k, o) = {} BY DEF Holders, AdmissionInit
    <2>2. \A k \in Kinds, o \in Owners : used[k][o] = 0 BY DEF AdmissionInit
    <2> QED BY <2>1, <2>2, SumEmpty DEF CountersExact
<1>5. LimitsHold
    BY DEF AdmissionInit, LimitsHold, AdmissionAssumption
<1>6. worker \in [Workers -> WorkerType] BY <1>2 DEF AdmissionInit
<1> QED BY <1>1, <1>3, <1>4, <1>5, <1>6 DEF IInv, AdmissionInit

(* One worker moves, and holds what it held.                               *)
LEMMA MoveKeeps ==
    ASSUME AdmissionAssumption, IInv, NEW w \in Workers, NEW y, Sound(y),
           worker' = [worker EXCEPT ![w] = y], UNCHANGED used, cancelled' \subseteq Jobs,
           y.held = worker[w].held, worker[w].held # {} => y.bytes = worker[w].bytes
    PROVE  IInv'
<1>1. /\ worker' \in [Workers -> WorkerType]
      /\ worker'[w] = y
      /\ \A v \in Workers : v # w => worker'[v] = worker[v]
    BY DEF IInv, Sound
<1>2. \A v \in Workers : Sound(worker'[v])
    BY <1>1 DEF IInv
<1>3. CountersExact' /\ LimitsHold'
    <2>1. \A v \in Workers : worker'[v].held = worker[v].held BY <1>1
    <2>2. \A v \in Workers : worker[v].held # {} => worker'[v].bytes = worker[v].bytes BY <1>1
    <2> QED BY <2>1, <2>2, KeepCounters
<1> QED BY <1>1, <1>2, <1>3 DEF IInv

-----------------------------------------------------------------------------
(* Steps *)

LEMMA StepStart ==
    ASSUME AdmissionAssumption, IInv, NEW w \in Workers, NEW b \in Bytes, Start(w, b)
    PROVE  IInv'
<1> DEFINE x == worker[w]
           y == [x EXCEPT !.scope = <<"resource">>, !.want = Permits("resource"),
                          !.bytes = b, !.left = @ - 1, !.sections = 0]
<1>1. Sound(x) /\ x.scope = <<>> /\ x.left > 0 /\ x.held = {}
    BY DEF Start, Idle, IInv, Sound, HeldInSections
<1>2. Sound(y)
    <2> HIDE DEF x
    <2> QED BY <1>1, StartSound
<1>3. worker' = [worker EXCEPT ![w] = y] BY DEF Start, IInv
<1>4. y.held = x.held BY <1>1 DEF Sound, WorkerType
<1>5. UNCHANGED used /\ cancelled' \subseteq Jobs BY DEF Start, IInv
<1> QED
    <2> HIDE DEF y
    <2> QED BY <1>1, <1>2, <1>3, <1>4, <1>5, MoveKeeps

LEMMA StepEnter ==
    ASSUME AdmissionAssumption, IInv, NEW w \in Workers, NEW s, Enter(w, s)
    PROVE  IInv'
<1> DEFINE x == worker[w]
           y == [x EXCEPT !.scope = Append(@, s), !.want = Permits(s), !.sections = @ + 1]
<1>1. /\ Sound(x) /\ x.scope # <<>> /\ x.want = {} /\ x.sections < Sections
      /\ s \in Inner(x.scope[Len(x.scope)])
    BY DEF Enter, Idle, Waiting, Innermost, IInv
<1>2. Sound(y)
    <2> HIDE DEF x
    <2> QED BY <1>1, EnterSound
<1>3. worker' = [worker EXCEPT ![w] = y] BY DEF Enter, IInv
<1>4. y.held = x.held /\ y.bytes = x.bytes BY <1>1 DEF Sound, WorkerType
<1>5. UNCHANGED used /\ cancelled' \subseteq Jobs BY DEF Enter, IInv
<1> QED
    <2> HIDE DEF y
    <2> QED BY <1>2, <1>3, <1>4, <1>5, MoveKeeps

LEMMA StepFails ==
    ASSUME AdmissionAssumption, IInv, NEW w \in Workers, ~Idle(w), worker' = Failing(w),
           UNCHANGED <<used, cancelled>>
    PROVE  IInv'
<1> DEFINE x == worker[w]
           y == [x EXCEPT !.want = {}, !.failing = TRUE]
<1>1. Sound(x) /\ x.scope # <<>> BY DEF Idle, IInv
<1>2. Sound(y)
    <2> HIDE DEF x
    <2> QED BY <1>1, FailSound
<1>3. worker' = [worker EXCEPT ![w] = y] BY DEF Failing, IInv
<1>4. y.held = x.held /\ y.bytes = x.bytes BY <1>1 DEF Sound, WorkerType
<1>5. UNCHANGED used /\ cancelled' \subseteq Jobs BY DEF IInv
<1> QED
    <2> HIDE DEF y
    <2> QED BY <1>2, <1>3, <1>4, <1>5, MoveKeeps

LEMMA StepLeave ==
    ASSUME AdmissionAssumption, IInv, NEW w \in Workers, Leave(w)
    PROVE  IInv'
<1>0. PICK fails \in BOOLEAN :
          worker' = [worker EXCEPT ![w].scope = SubSeq(@, 1, Len(@) - 1),
                                   ![w].failing = worker[w].failing /\ fails
                                                      /\ Len(worker[w].scope) > 1]
    BY DEF Leave
<1> DEFINE x == worker[w]
           y == [x EXCEPT !.scope = SubSeq(@, 1, Len(@) - 1),
                          !.failing = x.failing /\ fails /\ Len(x.scope) > 1]
<1>1. /\ Sound(x) /\ x.scope # <<>> /\ x.want = {}
      /\ Permits(x.scope[Len(x.scope)]) \cap x.held = {}
    BY DEF Leave, Idle, Waiting, Innermost, Own, IInv
<1>2. Sound(y)
    <2> HIDE DEF x
    <2> QED BY <1>1, LeaveSound
<1>3. worker' = [worker EXCEPT ![w] = y] BY <1>0 DEF IInv
<1>4. y.held = x.held /\ y.bytes = x.bytes BY <1>1 DEF Sound, WorkerType
<1>5. UNCHANGED used /\ cancelled' \subseteq Jobs BY DEF Leave, IInv
<1> QED
    <2> HIDE DEF y
    <2> QED BY <1>2, <1>3, <1>4, <1>5, MoveKeeps

(* Who waits is in a section.                                              *)
LEMMA WaitsInside ==
    ASSUME IInv, NEW w \in Workers, Waiting(w) PROVE ~Idle(w)
BY DEF IInv, Sound, HeldInSections, Waiting, Idle

LEMMA StepAcquire ==
    ASSUME AdmissionAssumption, IInv, NEW w \in Workers, NEW k, Acquire(w, k)
    PROVE  IInv'
<1> DEFINE x == worker[w]
           y == [x EXCEPT !.held = @ \cup {k}, !.want = @ \ {k}]
           o == Owner(w, k)
           u == Weight(x.bytes, k)
<1>1. Sound(x) /\ Leads(Chain(x.scope[Len(x.scope)]), x.want, k)
    BY DEF Acquire, WaitsFor, Innermost, IInv
<1>2. Sound(y) /\ k \notin x.held /\ k \in Kinds
    <2>1. Sound(y) /\ k \notin x.held /\ k \in Present
        <3> HIDE DEF x
        <3> QED BY <1>1, AcquireSound
    <2> QED BY <2>1 DEF AdmissionAssumption
<1>3. worker' = [worker EXCEPT ![w] = y] BY DEF Acquire, IInv
<1>4. y.held = x.held \cup {k} /\ y.bytes = x.bytes BY <1>1 DEF Sound, WorkerType
<1>5. /\ worker'[w] = y /\ worker' \in [Workers -> WorkerType]
      /\ \A v \in Workers : v # w => worker'[v] = worker[v]
    <2> HIDE DEF y
    <2> QED BY <1>2, <1>3 DEF IInv, Sound
<1> HIDE DEF y
<1>6. \A v \in Workers : worker'[v].bytes = worker[v].bytes
    BY <1>4, <1>5
<1>7. o \in Owners /\ u \in Nat \ {0} /\ u = Units(k)[w]
    BY <1>2, OwnerShape, UnitsShape
<1>8. /\ used' = [used EXCEPT ![k][o] = @ + u]
      /\ used[k][o] + u <= Limit(k)
    BY DEF Acquire
<1> HIDE DEF u, x
<1>9. used' \in [Kinds -> [Owners -> Nat]]
    BY <1>2, <1>7, <1>8 DEF IInv
<1>10. \A l \in Kinds, p \in Owners :
          used'[l][p] = IF l = k /\ p = o THEN used[k][o] + u ELSE used[l][p]
    BY <1>2, <1>7, <1>8 DEF IInv
<1>11. \A l \in Kinds, p \in Owners :
          Holders(l, p)' = IF l = k /\ p = o THEN Holders(k, o) \cup {w} ELSE Holders(l, p)
    BY <1>2, <1>4, <1>5 DEF Holders, Owner, x
<1>12. CountersExact'
    <2> SUFFICES ASSUME NEW l \in Kinds, NEW p \in Owners
                 PROVE  used'[l][p] = SumFunctionOnSet(Units(l)', Holders(l, p)')
        BY DEF CountersExact
    <2>1. Units(l)' = Units(l) BY <1>6 DEF Units
    <2>2. used[l][p] = SumFunctionOnSet(Units(l), Holders(l, p))
        BY DEF IInv, CountersExact
    <2>3. CASE l = k /\ p = o
        <3>1. w \notin Holders(k, o) BY <1>2 DEF Holders, x
        <3>2. Holders(k, o) \subseteq Workers BY DEF Holders
        <3>3. \A v \in Holders(k, o) \cup {w} : Units(k)[v] \in Int
            BY <1>2, <3>2, UnitsShape
        <3>4. SumFunctionOnSet(Units(k), Holders(k, o) \cup {w}) =
                  SumFunctionOnSet(Units(k), Holders(k, o)) + Units(k)[w]
            BY <3>1, <3>3, HoldersFinite, SumAdd
        <3>5. used'[l][p] = SumFunctionOnSet(Units(k), Holders(k, o)) + Units(k)[w]
            BY <1>7, <1>10, <2>2, <2>3
        <3>6. Holders(l, p)' = Holders(k, o) \cup {w} BY <1>11, <2>3
        <3> QED BY <2>1, <2>3, <3>4, <3>5, <3>6, Zenon
    <2>4. CASE ~(l = k /\ p = o)
        <3>1. used'[l][p] = used[l][p] /\ Holders(l, p)' = Holders(l, p)
            BY <1>10, <1>11, <2>4
        <3> QED BY <2>1, <2>2, <3>1, Zenon
    <2> QED BY <2>3, <2>4
<1>13. LimitsHold'
    BY <1>8, <1>10 DEF IInv, LimitsHold
<1>14. cancelled' \subseteq Jobs BY DEF Acquire, IInv
<1>15. \A v \in Workers : Sound(worker'[v])
    BY <1>2, <1>5 DEF IInv
<1> QED BY <1>5, <1>9, <1>12, <1>13, <1>14, <1>15 DEF IInv

LEMMA StepRelease ==
    ASSUME AdmissionAssumption, IInv, NEW w \in Workers, NEW k, Release(w, k)
    PROVE  IInv'
<1> DEFINE x == worker[w]
           y == [x EXCEPT !.held = @ \ {k}]
           o == Owner(w, k)
           u == Weight(x.bytes, k)
<1>1. Sound(x) /\ x.scope # <<>> /\ x.want = {} /\ k \in x.held
    BY DEF Release, GivesUp, Leads, Own, Idle, Waiting, IInv
<1>2. Sound(y) /\ k \in Kinds
    <2>1. Sound(y)
        <3> HIDE DEF x
        <3> QED BY <1>1, ReleaseSound
    <2> QED BY <1>1, <2>1 DEF Sound, WorkerType
<1>3. worker' = [worker EXCEPT ![w] = y] BY DEF Release, IInv
<1>4. y.held = x.held \ {k} /\ y.bytes = x.bytes BY <1>1 DEF Sound, WorkerType
<1>5. /\ worker'[w] = y /\ worker' \in [Workers -> WorkerType]
      /\ \A v \in Workers : v # w => worker'[v] = worker[v]
    <2> HIDE DEF y
    <2> QED BY <1>2, <1>3 DEF IInv, Sound
<1> HIDE DEF y
<1>6. \A v \in Workers : worker'[v].bytes = worker[v].bytes
    BY <1>4, <1>5
<1>7. o \in Owners /\ u \in Nat \ {0} /\ u = Units(k)[w] /\ w \in Holders(k, o)
    BY <1>1, <1>2, OwnerShape, UnitsShape DEF Holders
<1>8. used' = [used EXCEPT ![k][o] = GivenBack(k, @, u)]
    BY DEF Release
<1> HIDE DEF u, x
(* Nothing is given back that the counter does not show.                   *)
<1>9. u <= used[k][o]
    <2>1. \A v \in Holders(k, o) : Units(k)[v] \in Nat
        BY <1>2, UnitsShape DEF Holders
    <2>2. Units(k)[w] <= SumFunctionOnSet(Units(k), Holders(k, o))
        BY <1>7, <2>1, HoldersFinite, SumCovers
    <2> QED BY <1>2, <1>7, <2>2 DEF IInv, CountersExact
<1>10. used[k][o] \in Nat /\ used[k][o] - u \in Nat /\ GivenBack(k, used[k][o], u) = used[k][o] - u
    BY <1>2, <1>7, <1>9 DEF IInv, GivenBack
<1>11. used' = [used EXCEPT ![k][o] = used[k][o] - u]
    BY <1>8, <1>10
<1>12. used' \in [Kinds -> [Owners -> Nat]]
    BY <1>2, <1>7, <1>10, <1>11 DEF IInv
<1>13. \A l \in Kinds, p \in Owners :
          used'[l][p] = IF l = k /\ p = o THEN used[k][o] - u ELSE used[l][p]
    BY <1>2, <1>7, <1>11 DEF IInv
<1>14. \A l \in Kinds, p \in Owners :
          Holders(l, p)' = IF l = k /\ p = o THEN Holders(k, o) \ {w} ELSE Holders(l, p)
    BY <1>2, <1>4, <1>5 DEF Holders, Owner, x
<1>15. CountersExact'
    <2> SUFFICES ASSUME NEW l \in Kinds, NEW p \in Owners
                 PROVE  used'[l][p] = SumFunctionOnSet(Units(l)', Holders(l, p)')
        BY DEF CountersExact
    <2>1. Units(l)' = Units(l) BY <1>6 DEF Units
    <2>2. used[l][p] = SumFunctionOnSet(Units(l), Holders(l, p))
        BY DEF IInv, CountersExact
    <2>3. CASE l = k /\ p = o
        <3>1. \A v \in Holders(k, o) : Units(k)[v] \in Int
            BY <1>2, UnitsShape DEF Holders
        <3>2. SumFunctionOnSet(Units(k), Holders(k, o)) =
                  Units(k)[w] + SumFunctionOnSet(Units(k), Holders(k, o) \ {w})
            BY <1>7, <3>1, HoldersFinite, SumRemove
        <3>3. SumFunctionOnSet(Units(k), Holders(k, o) \ {w}) \in Int
            <4>1. IsFiniteSet(Holders(k, o) \ {w}) BY HoldersFinite, FS_RemoveElement
            <4> QED BY <3>1, <4>1, SumRemove
        <3>4. used'[l][p] = SumFunctionOnSet(Units(k), Holders(k, o) \ {w})
            BY <1>7, <1>10, <1>13, <2>2, <2>3, <3>2, <3>3
        <3>5. Holders(l, p)' = Holders(k, o) \ {w} BY <1>14, <2>3
        <3> QED BY <2>1, <2>3, <3>4, <3>5, Zenon
    <2>4. CASE ~(l = k /\ p = o)
        <3>1. used'[l][p] = used[l][p] /\ Holders(l, p)' = Holders(l, p)
            BY <1>13, <1>14, <2>4
        <3> QED BY <2>1, <2>2, <3>1, Zenon
    <2> QED BY <2>3, <2>4
<1>16. LimitsHold'
    <2>1. \A l \in Kinds, p \in Owners : used'[l][p] <= used[l][p]
        BY <1>2, <1>7, <1>10, <1>13 DEF IInv
    <2>2. \A l \in Kinds, p \in Owners : /\ used'[l][p] \in Nat /\ used[l][p] \in Nat
                                         /\ Limit(l) \in Nat /\ used[l][p] <= Limit(l)
        BY <1>12 DEF IInv, LimitsHold, AdmissionAssumption
    <2> QED BY <2>1, <2>2 DEF LimitsHold
<1>17. cancelled' \subseteq Jobs BY DEF Release, IInv
<1>18. \A v \in Workers : Sound(worker'[v])
    BY <1>2, <1>5 DEF IInv
<1> QED BY <1>5, <1>12, <1>15, <1>16, <1>17, <1>18 DEF IInv

LEMMA StepIInv == ASSUME AdmissionAssumption, IInv, [AdmissionNext]_admissionVars PROVE IInv'
<1>1. ASSUME NEW w \in Workers, NEW b \in Bytes, Start(w, b) PROVE IInv'
    BY <1>1, StepStart
<1>2. ASSUME NEW w \in Workers, NEW s \in Entered, Enter(w, s) PROVE IInv'
    BY <1>2, StepEnter
<1>3. ASSUME NEW w \in Workers, NEW k \in Present, Acquire(w, k) PROVE IInv'
    BY <1>3, StepAcquire
<1>4. ASSUME NEW w \in Workers, NEW k \in Present, Release(w, k) PROVE IInv'
    BY <1>4, StepRelease
<1>5. ASSUME NEW w \in Workers, TimeOut(w) PROVE IInv'
    <2>1. Waiting(w) BY <1>5 DEF TimeOut, WaitsFor, Leads, Waiting
    <2> QED BY <1>5, <2>1, WaitsInside, StepFails DEF TimeOut
<1>6. ASSUME NEW w \in Workers, SeeCancel(w) PROVE IInv'
    BY <1>6, WaitsInside, StepFails DEF SeeCancel
<1>7. ASSUME NEW w \in Workers, SectionFails(w) PROVE IInv'
    BY <1>7, StepFails DEF SectionFails
<1>8. ASSUME NEW w \in Workers, Leave(w) PROVE IInv'
    BY <1>8, StepLeave
<1>9. ASSUME UNCHANGED <<used, worker>>, cancelled' \subseteq Jobs PROVE IInv'
    <2>1. CountersExact' /\ LimitsHold' BY <1>9, KeepCounters
    <2> QED BY <1>9, <2>1 DEF IInv
<1>10. ASSUME NEW j \in Jobs, CancelExport(j) PROVE IInv'
    BY <1>9, <1>10 DEF CancelExport, IInv
<1>11. ASSUME UNCHANGED admissionVars PROVE IInv'
    BY <1>9, <1>11 DEF admissionVars, IInv
<1> QED BY <1>1, <1>2, <1>3, <1>4, <1>5, <1>6, <1>7, <1>8, <1>10, <1>11 DEF AdmissionNext, Step

LEMMA IInvHolds == ASSUME AdmissionAssumption PROVE AdmissionSpec => []IInv
<1>1. AdmissionInit => IInv BY InitIInv
<1>2. IInv /\ [AdmissionNext]_admissionVars => IInv' BY StepIInv
<1> QED BY <1>1, <1>2, PTL DEF AdmissionSpec

-----------------------------------------------------------------------------
(* What follows *)

(* Every counter is exactly what workers hold of it, whichever errors,     *)
(* timeouts and cancellations interrupt them (the drops of Permit,         *)
(* resource_budget.rs, media_gate.rs and stage_limits.rs).                 *)
THEOREM CountersAreWhatIsHeld == AdmissionSpec => []CountersExact
<1>1. IInv => CountersExact BY DEF IInv
<1> QED BY <1>1, IInvHolds, AdmissionAssumption, PTL

LEMMA Alone == ASSUME AdmissionAssumption, IInv PROVE OversizedAlone
<1> SUFFICES ASSUME NEW k \in Budgets, NEW o \in Owners, NEW w \in Holders(k, o),
                    worker[w].bytes >= Limit(k), NEW v \in Holders(k, o), v # w
             PROVE  FALSE
    BY DEF OversizedAlone
<1>1. k \in Kinds /\ w \in Workers /\ v \in Workers /\ worker[w].bytes \in Bytes \cup {0}
    BY DEF Kinds, Holders, IInv, WorkerType
<1>2. \A x \in Holders(k, o) : Units(k)[x] \in Nat \ {0}
    BY <1>1, UnitsShape DEF Holders
<1>3. Units(k)[w] = Limit(k) BY <1>1, WeightShape DEF Units
<1>4. Units(k)[w] + Units(k)[v] <= SumFunctionOnSet(Units(k), Holders(k, o))
    BY <1>2, HoldersFinite, SumCovers
<1>5. SumFunctionOnSet(Units(k), Holders(k, o)) <= Limit(k)
    <2>1. used[k][o] <= Limit(k) /\ used[k][o] = SumFunctionOnSet(Units(k), Holders(k, o))
        BY <1>1 DEF IInv, LimitsHold, CountersExact
    <2> QED BY <2>1
<1>6. Limit(k) \in Nat /\ Units(k)[v] \in Nat \ {0} /\ used[k][o] \in Nat
      /\ used[k][o] = SumFunctionOnSet(Units(k), Holders(k, o))
    BY <1>1, <1>2 DEF IInv, AdmissionAssumption, CountersExact
<1> QED BY <1>3, <1>4, <1>5, <1>6

(* No counter passes its limit, and a resource that is larger than a       *)
(* budget has it for itself (resource_budget.rs:32).                       *)
THEOREM LimitsAreKept == AdmissionSpec => []AdmissionInv
<1>1. ASSUME IInv PROVE AdmissionInv
    <2>1. AdmissionType /\ LimitsHold BY <1>1 DEF IInv, AdmissionType, WorkerType
    <2> QED BY <1>1, <2>1, Alone, AdmissionAssumption DEF AdmissionInv
<1> QED BY <1>1, IInvHolds, AdmissionAssumption, PTL

LEMMA NoCircleStep == ASSUME AdmissionAssumption, IInv PROVE NoCircle
<1> DEFINE Alive == {w \in Workers : Waiting(w) /\ ~IsCancelled(w)}
           Left == {8 - Rank(k) : k \in {l \in Kinds : \E w \in Alive : WaitsFor(w, l)}}
<1>1. SUFFICES ASSUME NEW w0 \in Alive,
                      \A w \in Workers :
                          ~Idle(w) => Waiting(w) /\ ~IsCancelled(w) /\ ~Served(w)
               PROVE  FALSE
    BY DEF NoCircle
<1>2. \A k : Rank(k) \in 1 .. 8 BY DEF Rank
<1>3. ASSUME NEW w \in Alive PROVE \E k \in Kinds : WaitsFor(w, k)
    <2> DEFINE x == worker[w]
    <2>1. Sound(x) /\ x.want # {} BY DEF Waiting, IInv
    <2>2. /\ x.scope # <<>> /\ x.want \subseteq Permits(x.scope[Len(x.scope)])
          /\ x.want \subseteq Kinds
        BY <2>1 DEF Sound, HeldInSections, WorkerType
    <2>3. x.scope[Len(x.scope)] \in SectionNames
        <3> HIDE DEF x
        <3> QED BY <2>1, <2>2, InnermostShape
    <2>4. \E k \in x.want : Leads(Chain(x.scope[Len(x.scope)]), x.want, k)
        <3> HIDE DEF x
        <3> QED BY <2>1, <2>2, <2>3, LeadExists
    <2> QED BY <2>2, <2>4 DEF WaitsFor, Innermost
<1>4. Left \in SUBSET Nat /\ Left # {}
    BY <1>2, <1>3
<1>5. PICK w \in Alive, k \in Kinds :
          WaitsFor(w, k) /\ \A v \in Alive, l \in Kinds : WaitsFor(v, l) => Rank(l) <= Rank(k)
    <2>1. PICK n \in Left : \A m \in Left : n <= m
        <3> HIDE DEF Left
        <3> QED BY <1>4, LeastNumber
    <2>2. PICK w \in Alive, k \in Kinds : WaitsFor(w, k) /\ n = 8 - Rank(k)
        OBVIOUS
    <2>3. ASSUME NEW v \in Alive, NEW l \in Kinds, WaitsFor(v, l) PROVE Rank(l) <= Rank(k)
        <3>1. 8 - Rank(k) <= 8 - Rank(l) BY <2>1, <2>2, <2>3
        <3> QED BY <1>2, <3>1
    <2> QED BY <2>2, <2>3
<1> DEFINE o == Owner(w, k)
<1>6. k \in Present /\ ~Served(w)
    <2>1. ~Idle(w) BY WaitsInside
    <2>2. k \in Present
        <3>1. k \in worker[w].want BY <1>5 DEF WaitsFor, Leads
        <3>2. worker[w].want \subseteq Permits(Innermost(w))
            BY <3>1 DEF IInv, Sound, HeldInSections, Innermost
        <3> QED BY <3>1, <3>2 DEF Permits
    <2> QED BY <1>1, <2>1, <2>2
<1>7. o \in Owners /\ Units(k)[w] \in Nat /\ Units(k)[w] <= Limit(k)
      /\ Units(k)[w] = Weight(worker[w].bytes, k)
    BY OwnerShape, UnitsShape
<1>8. used[k][o] # 0
    <2>1. ~(used[k][o] + Units(k)[w] <= Limit(k))
        BY <1>5, <1>6, <1>7 DEF Served
    <2> QED BY <1>7, <2>1 DEF IInv, AdmissionAssumption
<1>9. PICK v \in Holders(k, o) : TRUE
    <2> HIDE DEF o
    <2>1. used[k][o] = SumFunctionOnSet(Units(k), Holders(k, o))
        BY <1>7 DEF IInv, CountersExact
    <2> QED BY <1>8, <2>1, SumEmpty
<1>10. v \in Workers /\ k \in worker[v].held /\ ~Idle(v)
    BY DEF Holders, IInv, Sound, HeldInSections, Idle
<1>11. v \in Alive BY <1>1, <1>10
<1>12. PICK l \in Kinds : WaitsFor(v, l) BY <1>3, <1>11
<1>13. Rank(k) < Rank(l)
    BY <1>10, <1>12 DEF WaitsFor, Leads, IInv, Sound, WantsLater
<1>14. Rank(l) <= Rank(k) BY <1>5, <1>11, <1>12
<1> QED BY <1>2, <1>13, <1>14

(* Workers never wait for each other in a circle: every one takes its      *)
(* permits in the order of Rank (the nesting of the sections of export.rs).*)
THEOREM WaitsEnd == AdmissionSpec => []NoCircle
<1>1. IInv => NoCircle BY NoCircleStep, AdmissionAssumption
<1> QED BY <1>1, IInvHolds, AdmissionAssumption, PTL

-----------------------------------------------------------------------------
(* The throttle: the invariant.                                            *)

(* Tables of processes: of /proc, and of what a scan keeps.                *)
Row == [parent : Pids \cup {0}, start : Nat, ticks : Nat]
Table(rows, R) == DOMAIN rows \subseteq Pids /\ rows \in [DOMAIN rows -> R]

(* Types; the clock does not run back.                                     *)
ThrottleState ==
    /\ clock \in Nat /\ births \in Nat
    /\ Table(procs, Row) /\ Table(scan, Row)
    /\ waiter \in [Threads -> [at : Places, until : Nat]]
    /\ owner \in Threads \cup {Nobody}
    /\ sampler \in [last : Nat, usage : [ticks : Nat, time : Nat],
                    previous : {sampler.previous}]
    /\ Table(sampler.previous, [start : Nat, ticks : Nat])
    /\ sampler.last <= clock
    /\ burnt \in [previous : Nat, current : Nat, mark : Nat, between : [Pids -> Nat],
                  low : Nat, high : Nat, orphans : BOOLEAN]

(* Who holds the sampler is who reads.                                     *)
OneScans ==
    /\ \A t \in Threads : At(t, "scanning") <=> owner = t
    /\ owner = Nobody => scan = <<>>

(* Starts number the processes, this one with 0: one that is born now is   *)
(* none of those that were read.                                           *)
StartsKnown ==
    /\ Self \in DOMAIN procs /\ procs[Self].parent = 0 /\ procs[Self].start = 0
    /\ \A p \in DOMAIN procs : procs[p].start <= births
    /\ \A p \in DOMAIN scan : scan[p].start <= births
    /\ \A p \in DOMAIN sampler.previous : sampler.previous[p].start <= births
    /\ burnt.mark <= births

(* The process whose row was read has not ended.                           *)
StillRuns(p) == p \in DOMAIN scan /\ p \in DOMAIN procs /\ scan[p].start = procs[p].start

(* Its ticks go on from those that were read; its parent changes only when *)
(* that one ends.                                                          *)
RowsFollow ==
    \A p \in DOMAIN scan : StillRuns(p) =>
        /\ scan[p].ticks <= procs[p].ticks
        /\ ~burnt.orphans => scan[p].parent = procs[p].parent

(* Ticks never run back.                                                   *)
Follows(previous, rows, p) ==
    p \in DOMAIN previous /\ previous[p].start = rows[p].start =>
        previous[p].ticks <= rows[p].ticks

(* What a process used between the scans will be counted from its row.     *)
Counts(rows) ==
    \A p \in DOMAIN rows : /\ Follows(sampler.previous, rows, p)
                           /\ burnt.between[p] <= Delta(sampler.previous, rows, p)

(* Nothing is missed, whether its row was read or is still to be read.     *)
NothingMissed ==
    /\ Counts(procs) /\ Counts(scan)
    /\ \A p \in Pids \ DOMAIN procs : burnt.between[p] = 0

(* A process that runs since before the scan has been read once its number *)
(* is past.                                                                *)
RowsRead ==
    owner # Nobody =>
        \A p \in DOMAIN procs \ Missing : procs[p].start <= burnt.mark => StillRuns(p)

(* Rows that say whose child they are, and this process.                   *)
Ours(rows) == {p \in DOMAIN rows : p = Self \/ rows[p].parent # 0}

(* Without orphans a parent runs, is older and has a parent as well.       *)
Family ==
    ~burnt.orphans => \A p \in DOMAIN procs : procs[p].parent # 0 =>
        /\ procs[p].parent \in Ours(procs)
        /\ procs[procs[p].parent].start < procs[p].start

(* What the sample will count of each number: of the process that has it,  *)
(* and of one that was read and has ended.                                 *)
Used == [p \in Pids |->
    (IF p \in Ours(procs) THEN Delta(sampler.previous, procs, p) ELSE 0)
  + (IF p \in Ours(scan) /\ ~StillRuns(p) THEN Delta(sampler.previous, scan, p) ELSE 0)]

(* What each process has used since the scan began, as far as it can count *)
(* in the sample after.                                                    *)
Since == [p \in Pids |->
    IF p \notin Ours(procs) THEN 0
    ELSE IF procs[p].start > burnt.mark THEN procs[p].ticks
    ELSE IF StillRuns(p) THEN Beyond(scan[p].ticks, procs[p].ticks)
    ELSE 0]

(* Both were burnt since.                                                  *)
Bounded ==
    ~burnt.orphans =>
        /\ SumFunctionOnSet(Used, Pids) <= burnt.previous
        /\ owner # Nobody => SumFunctionOnSet(Since, Pids) <= burnt.current

(* The inductive invariant of the throttle.                                *)
ThrottleIInv ==
    /\ ThrottleState /\ OneScans /\ StartsKnown /\ RowsFollow /\ NothingMissed /\ RowsRead
    /\ Family /\ Bounded /\ SampleSound

-----------------------------------------------------------------------------
(* Operators *)

LEMMA NothingThere == ASSUME NEW R PROVE DOMAIN <<>> = {} /\ Table(<<>>, R)
<1>1. DOMAIN <<>> = {} OBVIOUS
<1>2. <<>> \in [{} -> R] OBVIOUS
<1> QED BY <1>1, <1>2 DEF Table

LEMMA MinOfTwo == ASSUME NEW a \in Nat, NEW b \in Nat PROVE Min({a, b}) \in Nat
<1>1. \E x \in {a, b} : \A y \in {a, b} : x =< y
    <2>1. CASE a <= b BY <2>1
    <2>2. CASE b <= a BY <2>2
    <2> QED BY <2>1, <2>2
<1>2. Min({a, b}) \in {a, b} BY <1>1 DEF Min
<1> QED BY <1>2

(* Descendants are closed, and everything that is closed holds them.       *)
LEMMA DescendantsClosed ==
    ASSUME NEW rows
    PROVE  Self \in Descendants(rows) /\ Closed(rows, Descendants(rows))
BY DEF Descendants, Closed

LEMMA DescendantsLeast ==
    ASSUME NEW rows, NEW pids, pids \subseteq DOMAIN rows \cup {Self}, Closed(rows, pids)
    PROVE  Descendants(rows) \subseteq pids
BY DEF Descendants

(* Only who has a parent descends.                                         *)
LEMMA DescendantsHaveParents ==
    ASSUME NEW rows, Table(rows, Row)
    PROVE  Descendants(rows) \subseteq Ours(rows) \cup {Self}
<1> DEFINE pids == Ours(rows) \cup {Self}
<1>1. pids \subseteq DOMAIN rows \cup {Self} BY DEF Ours
<1>2. ASSUME NEW p \in DOMAIN rows, rows[p].parent \in pids PROVE p \in pids
    <2>1. rows[p].parent # 0
        BY <1>2, ThrottleAssumption DEF Ours, Table, Self
    <2> QED BY <2>1 DEF Ours
<1>3. Closed(rows, pids) BY <1>2 DEF Closed
<1> QED BY <1>1, <1>3, DescendantsLeast

(* Rows whose parents are older, among them, up to this process, descend.  *)
LEMMA OlderParents ==
    ASSUME NEW rows, NEW family, family \subseteq DOMAIN rows, NEW age,
           \A p \in family : age[p] \in Nat,
           \A p \in family : p # Self =>
               rows[p].parent \in family /\ age[rows[p].parent] < age[p]
    PROVE  family \subseteq Descendants(rows)
<1> DEFINE rest == family \ Descendants(rows)
           ages == {age[p] : p \in rest}
<1>1. SUFFICES ASSUME rest # {} PROVE FALSE
    OBVIOUS
<1>2. PICK n \in ages : \A m \in ages : n <= m
    <2>1. ages \in SUBSET Nat /\ ages # {} BY <1>1
    <2> HIDE DEF ages
    <2> QED BY <2>1, LeastNumber
<1>3. PICK p \in rest : n = age[p] BY <1>2
<1>4. p # Self BY DescendantsClosed
<1>5. rows[p].parent \in family /\ age[rows[p].parent] < age[p] BY <1>3, <1>4
<1>6. rows[p].parent \notin Descendants(rows)
    BY <1>3, DescendantsClosed DEF Closed
<1>7. age[rows[p].parent] \in ages BY <1>5, <1>6
<1>8. n <= age[rows[p].parent] BY <1>2, <1>7
<1> QED BY <1>3, <1>5, <1>8

LEMMA TreeIsTable ==
    ASSUME Table(scan, Row), Self \in DOMAIN scan
    PROVE  /\ DOMAIN TreeTicks(scan) = Descendants(scan)
           /\ Descendants(scan) \subseteq DOMAIN scan
           /\ Table(TreeTicks(scan), [start : Nat, ticks : Nat])
           /\ \A p \in Descendants(scan) :
                 /\ TreeTicks(scan)[p].start = scan[p].start
                 /\ TreeTicks(scan)[p].ticks = scan[p].ticks
<1>1. Descendants(scan) \subseteq DOMAIN scan BY DEF Descendants
<1>2. DOMAIN TreeTicks(scan) = Descendants(scan) BY DEF TreeTicks
<1>3. ASSUME NEW p \in Descendants(scan)
      PROVE  /\ TreeTicks(scan)[p] = [start |-> scan[p].start, ticks |-> scan[p].ticks]
             /\ scan[p].start \in Nat /\ scan[p].ticks \in Nat
    BY <1>1 DEF TreeTicks, Table, Row
<1>4. Table(TreeTicks(scan), [start : Nat, ticks : Nat])
    <2>1. ASSUME NEW p \in Descendants(scan)
          PROVE  TreeTicks(scan)[p] \in [start : Nat, ticks : Nat]
        <3>1. /\ TreeTicks(scan)[p] = [start |-> scan[p].start, ticks |-> scan[p].ticks]
              /\ scan[p].start \in Nat /\ scan[p].ticks \in Nat
            BY <1>3
        <3> QED BY <3>1
    <2>2. TreeTicks(scan) = [p \in Descendants(scan) |-> TreeTicks(scan)[p]]
        BY DEF TreeTicks
    <2> QED BY <1>1, <1>2, <2>1, <2>2 DEF Table
<1>5. ASSUME NEW p \in Descendants(scan)
      PROVE  /\ TreeTicks(scan)[p].start = scan[p].start
             /\ TreeTicks(scan)[p].ticks = scan[p].ticks
    <2>1. TreeTicks(scan)[p] = [start |-> scan[p].start, ticks |-> scan[p].ticks] BY <1>3
    <2> QED BY <2>1
<1> QED BY <1>1, <1>2, <1>4, <1>5

LEMMA DeltaType ==
    ASSUME NEW previous, Table(previous, [start : Nat, ticks : Nat]),
           NEW rows, NEW p \in DOMAIN rows, rows[p].ticks \in Nat
    PROVE  Delta(previous, rows, p) \in Nat /\ Delta(previous, rows, p) <= rows[p].ticks
<1>1. CASE p \in DOMAIN previous
    <2>1. previous[p].ticks \in Nat BY <1>1 DEF Table
    <2> QED BY <2>1 DEF Delta, Beyond
<1>2. CASE p \notin DOMAIN previous
    BY <1>2 DEF Delta
<1> QED BY <1>1, <1>2

-----------------------------------------------------------------------------
(* Steps of the threads *)

Amounts == \A p \in Pids : Used[p] \in Nat /\ Since[p] \in Nat

LEMMA AmountsAreNumbers == ThrottleState => Amounts
<1> SUFFICES ASSUME ThrottleState, NEW p \in Pids PROVE Used[p] \in Nat /\ Since[p] \in Nat
    BY DEF Amounts
<1>1. Table(sampler.previous, [start : Nat, ticks : Nat]) BY DEF ThrottleState
<1>2. ASSUME NEW rows, Table(rows, Row), p \in DOMAIN rows
      PROVE  Delta(sampler.previous, rows, p) \in Nat
    <2>1. rows[p].ticks \in Nat BY <1>2 DEF Table, Row
    <2> QED BY <1>1, <1>2, <2>1, DeltaType
<1>3. Table(procs, Row) /\ Table(scan, Row) BY DEF ThrottleState
<1>4. Used[p] \in Nat BY <1>2, <1>3 DEF Used, Ours
<1>5. Since[p] \in Nat
    <2>1. CASE p \notin Ours(procs) BY <2>1 DEF Since
    <2>2. CASE p \in Ours(procs)
        <3>1. procs[p].ticks \in Nat BY <1>3, <2>2 DEF Table, Row, Ours
        <3>2. StillRuns(p) => scan[p].ticks \in Nat BY <1>3 DEF StillRuns, Table, Row
        <3> QED BY <3>1, <3>2 DEF Since, Beyond
    <2> QED BY <2>1, <2>2
<1> QED BY <1>4, <1>5

(* All that does not depend on what the threads do.                        *)
Facts ==
    /\ StartsKnown /\ RowsFollow /\ NothingMissed /\ RowsRead
    /\ Family /\ Bounded /\ SampleSound

LEMMA Untouched ==
    ASSUME ThrottleIInv, UNCHANGED <<procs, births, scan, sampler, burnt, owner>>
    PROVE  Facts'
<1>1. StartsKnown' BY DEF ThrottleIInv, StartsKnown
<1>2. RowsFollow' BY DEF ThrottleIInv, RowsFollow, StillRuns
<1>3. NothingMissed' BY DEF ThrottleIInv, NothingMissed, Counts, Follows, Delta
<1>4. RowsRead' BY DEF ThrottleIInv, RowsRead, Missing, StillRuns
<1>5. Family' BY DEF ThrottleIInv, Family
<1>6. Used' = Used /\ Since' = Since
    BY DEF Used, Since, Ours, StillRuns, Delta
<1>7. Bounded' BY <1>6 DEF ThrottleIInv, Bounded
<1>8. SampleSound' BY DEF ThrottleIInv, SampleSound
<1> QED BY <1>1, <1>2, <1>3, <1>4, <1>5, <1>7, <1>8 DEF Facts

(* A scan that is given up leaves no trace.                                *)
LEMMA ScanDropped ==
    ASSUME ThrottleIInv, UNCHANGED <<procs, births, sampler, burnt>>,
           scan' = <<>>, owner' = Nobody, ThrottleState'
    PROVE  Facts'
<1>1. DOMAIN scan' = {} OBVIOUS
<1>2. StartsKnown' BY <1>1 DEF ThrottleIInv, StartsKnown
<1>3. RowsFollow' BY <1>1 DEF RowsFollow
<1>4. NothingMissed' BY <1>1 DEF ThrottleIInv, NothingMissed, Counts, Follows, Delta
<1>5. RowsRead' BY DEF RowsRead
<1>6. Family' BY DEF ThrottleIInv, Family
<1>7. ASSUME NEW p \in Pids PROVE Used'[p] <= Used[p] /\ Used[p] \in Nat /\ Used'[p] \in Nat
    <2>1. Used[p] \in Nat /\ Used'[p] \in Nat
        <3>1. Amounts BY AmountsAreNumbers DEF ThrottleIInv
        <3>2. Amounts' BY AmountsAreNumbers, PTL
        <3> QED BY <3>1, <3>2 DEF Amounts
    <2> DEFINE own == IF p \in Ours(procs) THEN Delta(sampler.previous, procs, p) ELSE 0
               gone == IF p \in Ours(scan) /\ ~StillRuns(p) THEN Delta(sampler.previous, scan, p) ELSE 0
    <2>2. Used[p] = own + gone BY DEF Used
    <2>3. Used'[p] = own + 0 BY <1>1 DEF Used, Ours, Delta
    <2>4. own \in Nat /\ gone \in Nat
        <3>1. p \in Ours(procs) => Delta(sampler.previous, procs, p) \in Nat
            BY DeltaType DEF ThrottleIInv, ThrottleState, Ours, Table, Row
        <3>2. p \in Ours(scan) => Delta(sampler.previous, scan, p) \in Nat
            BY DeltaType DEF ThrottleIInv, ThrottleState, Ours, Table, Row
        <3> QED BY <3>1, <3>2
    <2> HIDE DEF own, gone
    <2> QED BY <2>1, <2>2, <2>3, <2>4
<1>8. SumFunctionOnSet(Used', Pids) <= SumFunctionOnSet(Used, Pids)
      /\ SumFunctionOnSet(Used', Pids) \in Nat /\ SumFunctionOnSet(Used, Pids) \in Nat
    BY <1>7, SumMonotone, SumNat, ThrottleAssumption
<1>9. Bounded' BY <1>8 DEF ThrottleIInv, Bounded, ThrottleState
<1>10. SampleSound' BY DEF ThrottleIInv, SampleSound
<1> QED BY <1>2, <1>3, <1>4, <1>5, <1>6, <1>9, <1>10 DEF Facts

LEMMA GoesOn ==
    ASSUME ThrottleIInv, NEW t \in Threads, NEW at \in Places, Goes(t, at)
    PROVE  /\ waiter' \in [Threads -> [at : Places, until : Nat]]
           /\ waiter'[t].at = at
           /\ \A u \in Threads : u # t => waiter'[u] = waiter[u]
<1>1. waiter \in [Threads -> [at : Places, until : Nat]] BY DEF ThrottleIInv, ThrottleState
<1> QED BY <1>1 DEF Goes

LEMMA JudgedOnce ==
    ASSUME ThrottleIInv, NEW t \in Threads, NEW usage, Judged(t, usage)
    PROVE  /\ waiter' \in [Threads -> [at : Places, until : Nat]]
           /\ waiter'[t].at # "scanning"
           /\ \A u \in Threads : u # t => waiter'[u] = waiter[u]
<1>1. waiter \in [Threads -> [at : Places, until : Nat]] BY DEF ThrottleIInv, ThrottleState
<1> DEFINE x == IF Due(t) THEN [waiter[t] EXCEPT !.at = "refused"]
                ELSE IF usage.ticks < Max({Budget, 1}) * usage.time
                     THEN [waiter[t] EXCEPT !.at = "admitted"]
                ELSE [at |-> "paused", until |-> Min({clock + Interval, Deadline[t]})]
<1>2. waiter' = [waiter EXCEPT ![t] = x] BY <1>1 DEF Judged
<1>3. Min({clock + Interval, Deadline[t]}) \in Nat
    <2>1. clock + Interval \in Nat /\ Deadline[t] \in Nat
        BY ThrottleAssumption DEF ThrottleIInv, ThrottleState
    <2> QED BY <2>1, MinOfTwo
<1>4. waiter[t] \in [at : Places, until : Nat] BY <1>1
<1>5. x \in [at : Places, until : Nat] /\ x.at # "scanning"
    <2>1. CASE Due(t) BY <1>4, <2>1 DEF Places
    <2>2. CASE ~Due(t) /\ usage.ticks < Max({Budget, 1}) * usage.time
        BY <1>4, <2>2 DEF Places
    <2>3. CASE ~Due(t) /\ ~(usage.ticks < Max({Budget, 1}) * usage.time)
        <3>1. x = [at |-> "paused", until |-> Min({clock + Interval, Deadline[t]})] BY <2>3
        <3> HIDE DEF x
        <3> QED BY <3>1, <1>3 DEF Places
    <2> QED BY <2>1, <2>2, <2>3
<1> HIDE DEF x
<1> QED BY <1>1, <1>2, <1>5

(* A thread that was not reading and does not begin to.                    *)
LEMMA ElsewhereKeeps ==
    ASSUME ThrottleIInv, NEW t \in Threads, ~At(t, "scanning"),
           waiter' \in [Threads -> [at : Places, until : Nat]],
           waiter'[t].at # "scanning", \A u \in Threads : u # t => waiter'[u] = waiter[u],
           UNCHANGED <<Environment, owner, scan, sampler, burnt>>
    PROVE  ThrottleIInv'
<1>1. ThrottleState' BY DEF ThrottleIInv, ThrottleState, Environment, Table
<1>2. OneScans' BY DEF ThrottleIInv, OneScans, At
<1>3. Facts' BY Untouched DEF Environment
<1> QED BY <1>1, <1>2, <1>3 DEF ThrottleIInv, Facts

(* A thread that was reading, or nobody, gives the sampler back.           *)
LEMMA LetGoKeeps ==
    ASSUME ThrottleIInv, NEW t \in Threads, owner = t,
           waiter' \in [Threads -> [at : Places, until : Nat]],
           waiter'[t].at # "scanning", \A u \in Threads : u # t => waiter'[u] = waiter[u],
           UNCHANGED <<Environment, sampler, burnt>>, owner' = Nobody, scan' = <<>>
    PROVE  ThrottleIInv'
<1>1. ThrottleState'
    BY NothingThere DEF ThrottleIInv, ThrottleState, Environment, Table
<1>2. OneScans' BY ThrottleAssumption DEF ThrottleIInv, OneScans, At
<1>3. Facts' BY <1>1, ScanDropped DEF Environment
<1> QED BY <1>1, <1>2, <1>3 DEF ThrottleIInv, Facts

LEMMA ScanFailsKeeps ==
    ASSUME ThrottleIInv, NEW t \in Threads, ScanFails(t) PROVE ThrottleIInv'
<1>1. owner = t BY DEF ThrottleIInv, OneScans, ScanFails
<1>2. "refused" \in Places BY DEF Places
<1> QED BY <1>1, <1>2, GoesOn, LetGoKeeps DEF ScanFails

LEMMA ResumeKeeps ==
    ASSUME ThrottleIInv, NEW t \in Threads, Resume(t) PROVE ThrottleIInv'
<1>1. "sampling" \in Places /\ ~At(t, "scanning") BY DEF Places, Resume, At
<1> QED BY <1>1, GoesOn, ElsewhereKeeps DEF Resume

LEMMA RefuseKeeps ==
    ASSUME ThrottleIInv, NEW t \in Threads, Refuse(t) PROVE ThrottleIInv'
<1>1. "refused" \in Places BY DEF Places
<1>2. CASE owner = t BY <1>1, <1>2, GoesOn, LetGoKeeps DEF Refuse
<1>3. CASE owner # t
    <2>1. ~At(t, "scanning") BY <1>3 DEF ThrottleIInv, OneScans
    <2> QED BY <1>1, <1>3, <2>1, GoesOn, ElsewhereKeeps DEF Refuse
<1> QED BY <1>2, <1>3

(* Who waited goes on to read.                                             *)
LEMMA ScanBegins ==
    ASSUME ThrottleIInv, NEW t \in Threads, At(t, "sampling"), owner = Nobody,
           Goes(t, "scanning"), owner' = t, scan' = <<>>,
           burnt' = [burnt EXCEPT !.current = 0, !.mark = births],
           UNCHANGED <<Environment, sampler>>
    PROVE  ThrottleIInv'
<1>1. "scanning" \in Places BY DEF Places
<1>2. /\ waiter' \in [Threads -> [at : Places, until : Nat]]
      /\ waiter'[t].at = "scanning"
      /\ \A u \in Threads : u # t => waiter'[u] = waiter[u]
    BY <1>1, GoesOn
<1>3. /\ burnt'.current = 0 /\ burnt'.mark = births /\ burnt'.previous = burnt.previous
      /\ burnt'.between = burnt.between /\ burnt'.low = burnt.low /\ burnt'.high = burnt.high
      /\ burnt'.orphans = burnt.orphans
      /\ burnt' \in [previous : Nat, current : Nat, mark : Nat, between : [Pids -> Nat],
                     low : Nat, high : Nat, orphans : BOOLEAN]
    BY DEF ThrottleIInv, ThrottleState
<1>4. scan = <<>> BY DEF ThrottleIInv, OneScans
<1>5. DOMAIN scan' = {} /\ scan' = scan BY <1>4
<1>6. ThrottleState'
    BY <1>2, <1>3, NothingThere DEF ThrottleIInv, ThrottleState, Environment, Table
<1>7. OneScans' BY <1>2, ThrottleAssumption DEF ThrottleIInv, OneScans, At
<1>8. StartsKnown'
    BY <1>3, <1>5 DEF ThrottleIInv, ThrottleState, StartsKnown, Environment
<1>9. RowsFollow' BY <1>5 DEF RowsFollow
<1>10. NothingMissed'
    BY <1>3, <1>5 DEF ThrottleIInv, NothingMissed, Counts, Follows, Delta, Environment
<1>11. RowsRead'
    <2>1. Missing' = Pids BY <1>5 DEF Missing
    <2>2. DOMAIN procs' \subseteq Pids BY <1>6 DEF ThrottleState, Table
    <2> QED BY <2>1, <2>2 DEF RowsRead
<1>12. Family' BY <1>3 DEF ThrottleIInv, Family, Environment
<1>13. Bounded'
    <2>1. Used' = Used
        BY <1>5 DEF Used, Ours, StillRuns, Delta, Environment
    <2>2. ASSUME NEW p \in Pids PROVE Since'[p] = 0
        <3>1. p \in Ours(procs') => procs'[p].start <= births
            BY DEF ThrottleIInv, StartsKnown, Ours, Environment
        <3>2. p \in Ours(procs') => procs'[p].start \in Nat /\ births \in Nat
            BY <1>6 DEF ThrottleIInv, ThrottleState, Table, Row, Ours
        <3>3. ~StillRuns(p)' BY <1>5 DEF StillRuns
        <3> QED BY <1>3, <3>1, <3>2, <3>3 DEF Since
    <2>3. SumFunctionOnSet(Since', Pids) = 0
        <3> DEFINE none == {}
        <3>1. SumFunctionOnSet(Since', Pids) = SumFunctionOnSet(Since', none)
            BY <2>2, SumZeros, ThrottleAssumption
        <3> QED BY <3>1, SumEmpty
    <2>4. burnt'.current = 0 BY <1>3
    <2> QED BY <1>3, <2>1, <2>3, <2>4 DEF ThrottleIInv, Bounded
<1>14. SampleSound' BY <1>3 DEF ThrottleIInv, SampleSound
<1> QED BY <1>6, <1>7, <1>8, <1>9, <1>10, <1>11, <1>12, <1>13, <1>14 DEF ThrottleIInv

LEMMA TryLockKeeps ==
    ASSUME ThrottleIInv, NEW t \in Threads, TryLock(t) PROVE ThrottleIInv'
<1>1. At(t, "sampling") /\ owner = Nobody /\ ~At(t, "scanning") BY DEF TryLock, At
<1>2. UNCHANGED <<Environment, sampler>> BY DEF TryLock
<1>3. CASE Judged(t, sampler.usage) /\ UNCHANGED <<owner, scan, burnt>>
    <2> DEFINE usage == sampler.usage
    <2>1. /\ waiter' \in [Threads -> [at : Places, until : Nat]]
          /\ waiter'[t].at # "scanning"
          /\ \A u \in Threads : u # t => waiter'[u] = waiter[u]
        BY <1>3, JudgedOnce
    <2> QED BY <1>1, <1>2, <1>3, <2>1, ElsewhereKeeps
<1>4. CASE /\ Goes(t, "scanning") /\ owner' = t /\ scan' = <<>>
           /\ burnt' = [burnt EXCEPT !.current = 0, !.mark = births]
    BY <1>1, <1>2, <1>4, ScanBegins
<1> QED BY <1>3, <1>4 DEF TryLock

LEMMA ReadRowKeeps ==
    ASSUME ThrottleIInv, NEW t \in Threads, ReadRow(t) PROVE ThrottleIInv'
<1>1. UNCHANGED <<Environment, waiter, owner, sampler, burnt>> /\ owner = t
    BY DEF ReadRow, ThrottleIInv, OneScans
<1>2. PICK p \in Missing :
         /\ p \in DOMAIN procs
         /\ \A q \in Missing : q < p => q \notin DOMAIN procs
         /\ scan' = [q \in DOMAIN scan \cup {p} |-> IF q = p THEN procs[p] ELSE scan[q]]
    BY DEF ReadRow
<1>3. p \in Pids /\ p \in Nat /\ \A q \in DOMAIN scan : q < p
    BY <1>2, ThrottleAssumption DEF Missing
<1>4. p \notin DOMAIN scan /\ ~StillRuns(p) BY <1>3 DEF StillRuns
<1>5. /\ DOMAIN scan' = DOMAIN scan \cup {p} /\ scan'[p] = procs[p]
      /\ \A q \in DOMAIN scan : scan'[q] = scan[q]
    BY <1>2, <1>4
<1>6. /\ procs' = procs /\ births' = births /\ clock' = clock /\ sampler' = sampler
      /\ burnt' = burnt /\ owner' = owner /\ waiter' = waiter
    BY <1>1 DEF Environment
<1>7. Table(scan', Row)
    <2>1. \A q \in DOMAIN scan' : scan'[q] \in Row
        BY <1>2, <1>5 DEF ThrottleIInv, ThrottleState, Table
    <2>2. scan' = [q \in DOMAIN scan' |-> scan'[q]] BY <1>2
    <2>3. DOMAIN scan' \subseteq Pids BY <1>3, <1>5 DEF ThrottleIInv, ThrottleState, Table
    <2> QED BY <2>1, <2>2, <2>3 DEF Table
<1>8. ThrottleState' BY <1>6, <1>7 DEF ThrottleIInv, ThrottleState
<1>9. OneScans' BY <1>1, <1>6, ThrottleAssumption DEF ThrottleIInv, OneScans, At
<1>10. StartsKnown' BY <1>2, <1>5, <1>6 DEF ThrottleIInv, StartsKnown
<1>11. StillRuns(p)' /\ \A q \in Pids \ {p} : StillRuns(q)' <=> StillRuns(q)
    BY <1>2, <1>5, <1>6 DEF StillRuns
<1>12. procs[p].ticks \in Nat /\ procs[p].start \in Nat
    BY <1>2 DEF ThrottleIInv, ThrottleState, Table, Row
<1>13. RowsFollow'
    <2> SUFFICES ASSUME NEW q \in DOMAIN scan', StillRuns(q)'
                 PROVE  /\ scan'[q].ticks <= procs'[q].ticks
                        /\ ~burnt'.orphans => scan'[q].parent = procs'[q].parent
        BY DEF RowsFollow
    <2>1. CASE q = p BY <1>5, <1>6, <1>12, <2>1
    <2>2. CASE q # p
        <3>1. q \in DOMAIN scan /\ StillRuns(q)
            BY <1>5, <1>7, <1>11, <2>2 DEF Table
        <3> QED BY <1>5, <1>6, <3>1 DEF ThrottleIInv, RowsFollow
    <2> QED BY <2>1, <2>2
<1>14. NothingMissed'
    <2>1. Counts(procs)' BY <1>6 DEF ThrottleIInv, NothingMissed, Counts, Follows, Delta
    <2>2. ASSUME NEW q \in DOMAIN scan'
          PROVE  Follows(sampler'.previous, scan', q)
                 /\ burnt'.between[q] <= Delta(sampler'.previous, scan', q)
        <3>1. CASE q = p
            BY <1>2, <1>5, <1>6, <3>1 DEF ThrottleIInv, NothingMissed, Counts, Follows, Delta
        <3>2. CASE q # p
            <4>1. q \in DOMAIN scan BY <1>5, <3>2
            <4> QED BY <1>5, <1>6, <4>1 DEF ThrottleIInv, NothingMissed, Counts, Follows, Delta
        <3> QED BY <3>1, <3>2
    <2>3. Counts(scan)' BY <2>2 DEF Counts
    <2>4. \A q \in Pids \ DOMAIN procs' : burnt'.between[q] = 0
        BY <1>6 DEF ThrottleIInv, NothingMissed
    <2> QED BY <2>1, <2>3, <2>4 DEF NothingMissed
<1>15. RowsRead'
    <2> SUFFICES ASSUME NEW q \in DOMAIN procs', q \notin Missing',
                        procs'[q].start <= burnt'.mark
                 PROVE  StillRuns(q)'
        BY DEF RowsRead
    <2>1. q \in Pids /\ q \in Nat
        BY <1>6, ThrottleAssumption DEF ThrottleIInv, ThrottleState, Table
    <2>2. CASE q \notin Missing
        <3>1. owner # Nobody BY <1>1, ThrottleAssumption
        <3>2. StillRuns(q) BY <1>6, <2>2, <3>1 DEF ThrottleIInv, RowsRead
        <3> QED BY <1>11, <2>1, <3>2
    <2>3. CASE q \in Missing
        <3>1. ~(p < q) BY <1>5, <2>1, <2>3 DEF Missing
        <3>2. ~(q < p) BY <1>2, <1>6, <2>3
        <3> QED BY <1>3, <1>11, <2>1, <3>1, <3>2
    <2> QED BY <2>2, <2>3
<1>16. Family' BY <1>6 DEF ThrottleIInv, Family
<1>17. Bounded'
    <2>1. ASSUME NEW q \in Pids PROVE Used'[q] = Used[q] /\ Since'[q] = Since[q]
        <3>1. Ours(procs') = Ours(procs) BY <1>6
        <3>2. Delta(sampler'.previous, procs', q) = Delta(sampler.previous, procs, q)
            BY <1>6
        <3>3. CASE q = p
            <4>1. Used'[q] = Used[q]
                BY <1>4, <1>11, <3>1, <3>2, <3>3 DEF Used, Ours
            <4>2. Since'[q] = Since[q]
                <5>1. Beyond(scan'[q].ticks, procs'[q].ticks) = 0
                    BY <1>5, <1>6, <1>12, <3>3 DEF Beyond
                <5> QED BY <1>4, <1>6, <1>11, <3>1, <3>3, <5>1 DEF Since
            <4> QED BY <4>1, <4>2
        <3>4. CASE q # p
            <4>1. q \in Ours(scan') <=> q \in Ours(scan) BY <1>5, <3>4 DEF Ours
            <4>2. q \in Ours(scan)
                  => Delta(sampler'.previous, scan', q) = Delta(sampler.previous, scan, q)
                BY <1>5, <1>6 DEF Delta, Ours
            <4>3. StillRuns(q)' <=> StillRuns(q) BY <1>11, <3>4
            <4>4. Used'[q] = Used[q] BY <3>1, <3>2, <4>1, <4>2, <4>3 DEF Used
            <4>5. StillRuns(q) => scan'[q] = scan[q] BY <1>5 DEF StillRuns
            <4>6. Since'[q] = Since[q] BY <1>6, <3>1, <4>3, <4>5 DEF Since
            <4> QED BY <4>4, <4>6
        <3> QED BY <3>3, <3>4
    <2>2. Used' = Used /\ Since' = Since
        <3>1. Used' = [q \in Pids |-> Used'[q]] /\ Used = [q \in Pids |-> Used[q]]
            BY DEF Used
        <3>2. Since' = [q \in Pids |-> Since'[q]] /\ Since = [q \in Pids |-> Since[q]]
            BY DEF Since
        <3> QED BY <2>1, <3>1, <3>2
    <2> QED BY <1>6, <2>2 DEF ThrottleIInv, Bounded
<1>18. SampleSound' BY <1>6 DEF ThrottleIInv, SampleSound
<1> QED BY <1>8, <1>9, <1>10, <1>13, <1>14, <1>15, <1>16, <1>17, <1>18 DEF ThrottleIInv

-----------------------------------------------------------------------------
(* A whole sample *)

(* Processes that run since before the scan began have been read.          *)
LEMMA AllRead ==
    ASSUME ThrottleIInv, owner # Nobody, \A p \in Missing : p \notin DOMAIN procs
    PROVE  /\ \A p \in DOMAIN procs : procs[p].start <= burnt.mark => StillRuns(p)
           /\ Self \in DOMAIN scan
<1>1. ASSUME NEW p \in DOMAIN procs, procs[p].start <= burnt.mark PROVE StillRuns(p)
    BY <1>1 DEF ThrottleIInv, RowsRead
<1>2. Self \in DOMAIN procs /\ procs[Self].start = 0 /\ burnt.mark \in Nat
    BY DEF ThrottleIInv, StartsKnown, ThrottleState
<1>3. 0 <= burnt.mark BY <1>2
<1>4. StillRuns(Self) BY <1>1, <1>2, <1>3
<1> QED BY <1>1, <1>4 DEF StillRuns

(* Without orphans, those of the family among them are in the tree.        *)
LEMMA OldFamilyFound ==
    ASSUME ThrottleIInv, owner # Nobody, \A p \in Missing : p \notin DOMAIN procs,
           ~burnt.orphans, NEW p \in Ours(procs), procs[p].start <= burnt.mark
    PROVE  p \in Descendants(scan) /\ StillRuns(p)
<1> DEFINE old == {q \in Ours(procs) : procs[q].start <= burnt.mark}
           age == [q \in DOMAIN procs |-> procs[q].start]
<1>1. \A q \in old : StillRuns(q) BY AllRead DEF Ours
<1>2. old \subseteq DOMAIN scan BY <1>1 DEF StillRuns
<1>3. \A q \in old : q \in DOMAIN procs /\ age[q] \in Nat
    BY DEF ThrottleIInv, ThrottleState, Table, Row, Ours
<1>4. ASSUME NEW q \in old, q # Self
      PROVE  scan[q].parent \in old /\ age[scan[q].parent] < age[q]
    <2>1. scan[q].parent = procs[q].parent
        BY <1>1, <1>2 DEF ThrottleIInv, RowsFollow
    <2> DEFINE parent == procs[q].parent
    <2>2. parent # 0 BY <1>4 DEF Ours
    <2>3. parent \in Ours(procs) /\ procs[parent].start < procs[q].start
        BY <1>3, <2>2 DEF ThrottleIInv, Family
    <2>4. parent \in DOMAIN procs BY <2>3 DEF Ours
    <2>5. procs[parent].start \in Nat /\ procs[q].start \in Nat /\ burnt.mark \in Nat
        BY <1>3, <2>4 DEF ThrottleIInv, ThrottleState, Table, Row
    <2>6. procs[parent].start <= burnt.mark BY <2>3, <2>5
    <2> QED BY <2>1, <2>3, <2>4, <2>6, <1>3
<1>5. \A q \in old : age[q] \in Nat BY <1>3
<1>6. old \subseteq Descendants(scan)
    <2> HIDE DEF old, age
    <2> QED BY <1>2, <1>4, <1>5, OlderParents
<1> QED BY <1>1, <1>6

(* What a sample adds up lies between what its processes used with no scan *)
(* under way and what was used since the scan before began.                *)
LEMMA SampleBetween ==
    ASSUME ThrottleIInv, Self \in DOMAIN scan
    PROVE  LET tree == TreeTicks(scan)
               sum == DeltaTicks(sampler.previous, tree)
               low == SumFunctionOnSet(burnt.between, DOMAIN tree)
           IN  sum \in Nat /\ low \in Nat /\ low <= sum /\ (burnt.orphans \/ sum <= burnt.previous)
<1> DEFINE tree == TreeTicks(scan)
           found == Descendants(scan)
           deltas == [p \in DOMAIN tree |-> Delta(sampler.previous, tree, p)]
           between == burnt.between
<1>1. /\ DOMAIN tree = found /\ found \subseteq DOMAIN scan
      /\ \A p \in found : tree[p].start = scan[p].start /\ tree[p].ticks = scan[p].ticks
    BY TreeIsTable DEF ThrottleIInv, ThrottleState
<1>2. found \in SUBSET Pids /\ IsFiniteSet(found)
    BY <1>1, ThrottleAssumption, FS_Subset DEF ThrottleIInv, ThrottleState, Table
<1>3. ASSUME NEW p \in found
      PROVE  /\ deltas[p] = Delta(sampler.previous, scan, p) /\ deltas[p] \in Nat
             /\ between[p] \in Nat /\ between[p] <= deltas[p]
    <2>1. p \in DOMAIN scan /\ scan[p].ticks \in Nat
        BY <1>1 DEF ThrottleIInv, ThrottleState, Table, Row
    <2>2. deltas[p] = Delta(sampler.previous, scan, p) BY <1>1 DEF Delta
    <2>3. Delta(sampler.previous, scan, p) \in Nat
        BY <2>1, DeltaType DEF ThrottleIInv, ThrottleState
    <2>4. between[p] <= Delta(sampler.previous, scan, p)
        BY <2>1 DEF ThrottleIInv, NothingMissed, Counts
    <2>5. between[p] \in Nat BY <1>2 DEF ThrottleIInv, ThrottleState
    <2> QED BY <2>2, <2>3, <2>4, <2>5
<1>4. ASSUME ~burnt.orphans, NEW p \in found PROVE deltas[p] <= Used[p]
    <2>1. p \in DOMAIN scan /\ p \in Pids BY <1>1, <1>2
    <2>2. p \in Ours(scan)
        BY <2>1, DescendantsHaveParents DEF ThrottleIInv, ThrottleState, Ours
    <2> DEFINE own == IF p \in Ours(procs) THEN Delta(sampler.previous, procs, p) ELSE 0
               gone == IF p \in Ours(scan) /\ ~StillRuns(p) THEN Delta(sampler.previous, scan, p) ELSE 0
    <2>3. Used[p] = own + gone BY <2>1 DEF Used
    <2>4. p \in Ours(procs) => Delta(sampler.previous, procs, p) \in Nat
        BY DeltaType DEF ThrottleIInv, ThrottleState, Ours, Table, Row
    <2>5. deltas[p] = Delta(sampler.previous, scan, p) /\ deltas[p] \in Nat BY <1>3
    <2>6. CASE ~StillRuns(p)
        BY <2>2, <2>3, <2>4, <2>5, <2>6
    <2>7. CASE StillRuns(p)
        <3>1. /\ scan[p].ticks <= procs[p].ticks /\ scan[p].parent = procs[p].parent
              /\ p \in DOMAIN procs /\ scan[p].start = procs[p].start
            BY <2>1, <2>7, <1>4 DEF ThrottleIInv, RowsFollow, StillRuns
        <3>2. p \in Ours(procs) BY <2>2, <3>1 DEF Ours
        <3>3. scan[p].ticks \in Nat /\ procs[p].ticks \in Nat
            BY <2>1, <3>1 DEF ThrottleIInv, ThrottleState, Table, Row
        <3>4. p \in DOMAIN sampler.previous => sampler.previous[p].ticks \in Nat
            BY DEF ThrottleIInv, ThrottleState, Table
        <3>5. Delta(sampler.previous, scan, p) <= Delta(sampler.previous, procs, p)
            BY <3>1, <3>3, <3>4 DEF Delta, Beyond
        <3> QED BY <2>3, <2>5, <2>7, <3>2, <3>5, <2>4
    <2> QED BY <2>6, <2>7
<1>5. DeltaTicks(sampler.previous, tree) = SumFunctionOnSet(deltas, found)
    BY <1>1 DEF DeltaTicks
<1> DEFINE sum == SumFunctionOnSet(deltas, found)
           low == SumFunctionOnSet(between, found)
<1> HIDE DEF deltas, found, between, tree
<1>6. sum \in Nat /\ low \in Nat
    BY <1>2, <1>3, SumNat
<1>7. low <= sum
    <2>1. \A p \in found : between[p] \in Nat /\ deltas[p] \in Nat /\ between[p] <= deltas[p]
        BY <1>3
    <2> QED BY <1>2, <2>1, SumMonotone
<1>8. ASSUME ~burnt.orphans PROVE sum <= burnt.previous
    <2>1. \A p \in Pids : Used[p] \in Nat BY AmountsAreNumbers DEF ThrottleIInv, Amounts
    <2>2. \A p \in found : deltas[p] \in Nat /\ deltas[p] <= Used[p] BY <1>3, <1>4, <1>8
    <2>3. sum <= SumFunctionOnSet(Used, Pids)
        BY <1>2, <2>1, <2>2, SumMonotone, ThrottleAssumption
    <2>4. SumFunctionOnSet(Used, Pids) <= burnt.previous
        BY <1>8 DEF ThrottleIInv, Bounded
    <2>5. SumFunctionOnSet(Used, Pids) \in Nat BY <2>1, SumNat, ThrottleAssumption
    <2>6. burnt.previous \in Nat BY DEF ThrottleIInv, ThrottleState
    <2> QED BY <1>6, <2>3, <2>4, <2>5, <2>6
<1>9. /\ DeltaTicks(sampler.previous, tree) = sum
      /\ SumFunctionOnSet(burnt.between, DOMAIN tree) = low
    BY <1>1, <1>5 DEF between
<1> QED BY <1>6, <1>7, <1>8, <1>9 DEF tree

LEMMA RefreshedKeeps ==
    ASSUME ThrottleIInv, NEW t \in Threads, Refreshed(t) PROVE ThrottleIInv'
<1> DEFINE tree == TreeTicks(scan)
           usage == Usage(tree)
           low == SumFunctionOnSet(burnt.between, DOMAIN tree)
<1>1. /\ \A p \in Missing : p \notin DOMAIN procs
      /\ sampler' = [last |-> clock, usage |-> usage, previous |-> tree]
      /\ owner' = Nobody /\ Judged(t, usage) /\ scan' = <<>> /\ UNCHANGED Environment
    BY DEF Refreshed
<1>2. owner = t /\ owner # Nobody
    BY ThrottleAssumption DEF Refreshed, ThrottleIInv, OneScans
<1>3. procs' = procs /\ births' = births /\ clock' = clock BY <1>1 DEF Environment
<1>4. Self \in DOMAIN scan BY <1>1, <1>2, AllRead
<1>5. /\ DOMAIN tree = Descendants(scan) /\ Descendants(scan) \subseteq DOMAIN scan
      /\ Table(tree, [start : Nat, ticks : Nat])
      /\ \A p \in Descendants(scan) :
            tree[p].start = scan[p].start /\ tree[p].ticks = scan[p].ticks
    BY <1>4, TreeIsTable DEF ThrottleIInv, ThrottleState
<1>6. /\ DeltaTicks(sampler.previous, tree) \in Nat /\ low \in Nat
      /\ low <= DeltaTicks(sampler.previous, tree)
      /\ burnt.orphans \/ DeltaTicks(sampler.previous, tree) <= burnt.previous
    BY <1>4, SampleBetween
<1>7. usage \in [ticks : Nat, time : Nat]
    <2>1. clock - sampler.last \in Nat BY DEF ThrottleIInv, ThrottleState
    <2>2. CASE sampler.last = 0 BY <2>2 DEF Usage
    <2>3. CASE sampler.last # 0 BY <1>6, <2>1, <2>3 DEF Usage
    <2> QED BY <2>2, <2>3
<1>8. /\ burnt'.previous = burnt.current
      /\ burnt'.between = [p \in Pids |-> 0]
      /\ burnt'.low = (IF sampler.last = 0 THEN 0 ELSE low)
      /\ burnt'.high = burnt.previous /\ burnt'.orphans = burnt.orphans /\ burnt'.mark = 0
      /\ burnt' \in [previous : Nat, current : Nat, mark : Nat, between : [Pids -> Nat],
                     low : Nat, high : Nat, orphans : BOOLEAN]
    <2>1. burnt' = [burnt EXCEPT
                        !.previous = burnt.current, !.current = 0, !.mark = 0,
                        !.between = [p \in Pids |-> 0],
                        !.low = IF sampler.last = 0 THEN 0 ELSE low,
                        !.high = burnt.previous]
        BY DEF Refreshed
    <2>2. burnt \in [previous : Nat, current : Nat, mark : Nat, between : [Pids -> Nat],
                     low : Nat, high : Nat, orphans : BOOLEAN]
        BY DEF ThrottleIInv, ThrottleState
    <2>3. (IF sampler.last = 0 THEN 0 ELSE low) \in Nat BY <1>6
    <2> DEFINE least == IF sampler.last = 0 THEN 0 ELSE low
               zeros == [p \in Pids |-> 0]
    <2>4. zeros \in [Pids -> Nat] OBVIOUS
    <2> HIDE DEF least, zeros, low
    <2>5. burnt' = [burnt EXCEPT
                        !.previous = burnt.current, !.current = 0, !.mark = 0,
                        !.between = zeros, !.low = least, !.high = burnt.previous]
        BY <2>1 DEF least, zeros
    <2>6. least \in Nat BY <2>3 DEF least
    <2>7. /\ burnt'.previous = burnt.current /\ burnt'.between = zeros
          /\ burnt'.low = least /\ burnt'.high = burnt.previous
          /\ burnt'.orphans = burnt.orphans /\ burnt'.mark = 0
        BY <2>2, <2>5
    <2>8. burnt' \in [previous : Nat, current : Nat, mark : Nat, between : [Pids -> Nat],
                      low : Nat, high : Nat, orphans : BOOLEAN]
        BY <2>2, <2>4, <2>5, <2>6
    <2> QED BY <2>7, <2>8 DEF least, zeros
<1> HIDE DEF tree, usage, low
<1>9. /\ waiter' \in [Threads -> [at : Places, until : Nat]]
      /\ waiter'[t].at # "scanning"
      /\ \A u \in Threads : u # t => waiter'[u] = waiter[u]
    BY <1>1, JudgedOnce
<1>10. /\ sampler'.last = clock /\ sampler'.usage = usage /\ sampler'.previous = tree
       /\ DOMAIN scan' = {}
    BY <1>1
<1>11. ThrottleState'
    <2>1. Table(scan', Row) BY <1>1, NothingThere
    <2>2. sampler' \in [last : Nat, usage : [ticks : Nat, time : Nat],
                        previous : {sampler'.previous}]
        BY <1>1, <1>7 DEF ThrottleIInv, ThrottleState
    <2>3. Table(sampler'.previous, [start : Nat, ticks : Nat]) BY <1>5, <1>10
    <2>4. sampler'.last <= clock' BY <1>3, <1>10 DEF ThrottleIInv, ThrottleState
    <2>5. owner' \in Threads \cup {Nobody} BY <1>1
    <2>6. clock' \in Nat /\ births' \in Nat /\ Table(procs', Row)
        BY <1>3 DEF ThrottleIInv, ThrottleState
    <2> QED BY <1>8, <1>9, <2>1, <2>2, <2>3, <2>4, <2>5, <2>6 DEF ThrottleState
<1>12. OneScans' BY <1>1, <1>2, <1>9, ThrottleAssumption DEF ThrottleIInv, OneScans, At
<1>13. StartsKnown'
    BY <1>3, <1>5, <1>8, <1>10 DEF ThrottleIInv, ThrottleState, StartsKnown
<1>14. RowsFollow' BY <1>10 DEF RowsFollow
<1>15. ASSUME NEW p \in DOMAIN procs, p \in DOMAIN tree, tree[p].start = procs[p].start
       PROVE  StillRuns(p) /\ tree[p].ticks = scan[p].ticks /\ tree[p].ticks <= procs[p].ticks
    <2>1. StillRuns(p) BY <1>5, <1>15 DEF StillRuns
    <2> QED BY <1>5, <1>15, <2>1 DEF ThrottleIInv, RowsFollow
<1>16. NothingMissed'
    <2>1. \A p \in Pids : burnt'.between[p] = 0 BY <1>8
    <2>2. ASSUME NEW p \in DOMAIN procs
          PROVE  Follows(tree, procs, p) /\ burnt'.between[p] <= Delta(tree, procs, p)
        <3>1. p \in Pids /\ procs[p].ticks \in Nat
            BY DEF ThrottleIInv, ThrottleState, Table, Row
        <3>2. Delta(tree, procs, p) \in Nat BY <1>5, <3>1, DeltaType
        <3>3. 0 <= Delta(tree, procs, p) BY <3>2
        <3> QED BY <1>15, <2>1, <3>1, <3>3 DEF Follows
    <2>3. Counts(procs)' BY <1>3, <1>10, <2>2 DEF Counts
    <2>4. Counts(scan)' BY <1>10 DEF Counts
    <2> QED BY <2>1, <2>3, <2>4 DEF NothingMissed
<1>17. RowsRead' BY <1>1 DEF RowsRead
<1>18. Family' BY <1>3, <1>8 DEF ThrottleIInv, Family
<1>19. ASSUME ~burnt.orphans PROVE SumFunctionOnSet(Used', Pids) <= burnt.current
    <2>1. (\A p \in Pids : Since[p] \in Nat) /\ (\A p \in Pids : Used'[p] \in Nat)
        <3>1. Amounts BY AmountsAreNumbers DEF ThrottleIInv
        <3>2. Amounts' BY <1>11, AmountsAreNumbers, PTL
        <3> QED BY <3>1, <3>2 DEF Amounts
    <2>2. ASSUME NEW p \in Pids PROVE Used'[p] <= Since[p]
        <3>1. Ours(scan') = {} BY <1>10 DEF Ours
        <3>2. CASE p \notin Ours(procs)
            <4>1. Used'[p] = 0 BY <1>3, <3>1, <3>2 DEF Used
            <4> QED BY <2>1, <4>1
        <3>3. CASE p \in Ours(procs)
            <4>1. p \in DOMAIN procs /\ procs[p].ticks \in Nat /\ procs[p].start \in Nat
                BY <3>3 DEF Ours, ThrottleIInv, ThrottleState, Table, Row
            <4>2. /\ Delta(tree, procs, p) \in Nat /\ Delta(tree, procs, p) <= procs[p].ticks
                BY <1>5, <4>1, DeltaType
            <4>3. Used'[p] = Delta(tree, procs, p) + 0
                BY <1>3, <1>10, <3>1, <3>3 DEF Used
            <4>4. CASE procs[p].start > burnt.mark
                <5>1. Since[p] = procs[p].ticks BY <3>3, <4>4 DEF Since
                <5> QED BY <4>1, <4>2, <4>3, <5>1
            <4>5. CASE ~(procs[p].start > burnt.mark)
                <5>1. procs[p].start <= burnt.mark
                    BY <4>1, <4>5 DEF ThrottleIInv, ThrottleState
                <5>2. p \in Descendants(scan) /\ StillRuns(p)
                    BY <1>1, <1>2, <1>19, <3>3, <5>1, OldFamilyFound
                <5>3. Since[p] = Beyond(scan[p].ticks, procs[p].ticks)
                    BY <3>3, <4>5, <5>2 DEF Since
                <5>4. Delta(tree, procs, p) = Beyond(scan[p].ticks, procs[p].ticks)
                    BY <1>5, <5>2 DEF Delta, StillRuns
                <5> QED BY <4>2, <4>3, <5>3, <5>4
            <4> QED BY <4>4, <4>5
        <3> QED BY <3>2, <3>3
    <2>3. SumFunctionOnSet(Used', Pids) <= SumFunctionOnSet(Since, Pids)
        BY <2>1, <2>2, SumMonotone, ThrottleAssumption
    <2>4. SumFunctionOnSet(Since, Pids) <= burnt.current
        BY <1>2, <1>19 DEF ThrottleIInv, Bounded
    <2>5. /\ SumFunctionOnSet(Used', Pids) \in Nat /\ SumFunctionOnSet(Since, Pids) \in Nat
          /\ burnt.current \in Nat
        BY <2>1, SumNat, ThrottleAssumption DEF ThrottleIInv, ThrottleState
    <2> QED BY <2>3, <2>4, <2>5
<1>20. Bounded' BY <1>1, <1>8, <1>19 DEF Bounded
<1>21. SampleSound'
    <2>1. CASE sampler.last = 0
        <3>1. usage.ticks = 0 BY <2>1 DEF usage, Usage
        <3>2. burnt.previous \in Nat BY DEF ThrottleIInv, ThrottleState
        <3> QED BY <1>8, <1>10, <2>1, <3>1, <3>2 DEF SampleSound
    <2>2. CASE sampler.last # 0
        <3>1. usage.ticks = DeltaTicks(sampler.previous, tree) BY <2>2 DEF usage, Usage
        <3> QED BY <1>6, <1>8, <1>10, <2>2, <3>1 DEF SampleSound
    <2> QED BY <2>1, <2>2
<1> QED BY <1>11, <1>12, <1>13, <1>14, <1>16, <1>17, <1>18, <1>20, <1>21 DEF ThrottleIInv

-----------------------------------------------------------------------------
(* Time and processes *)

(* A step of one process that uses so much more.                           *)
LEMMA BoundKept ==
    ASSUME ThrottleIInv, ThrottleState', NEW p \in Pids, NEW more \in Nat,
           owner' = owner, ~burnt'.orphans => ~burnt.orphans,
           burnt'.previous = burnt.previous + more, burnt'.current = burnt.current + more,
           ~burnt'.orphans =>
               /\ \A q \in Pids \ {p} : Used'[q] = Used[q] /\ Since'[q] = Since[q]
               /\ Used'[p] <= Used[p] + more /\ Since'[p] <= Since[p] + more
    PROVE  Bounded'
<1> SUFFICES ASSUME ~burnt'.orphans
             PROVE  /\ SumFunctionOnSet(Used', Pids) <= burnt'.previous
                    /\ owner' # Nobody => SumFunctionOnSet(Since', Pids) <= burnt'.current
    BY DEF Bounded
<1>1. Amounts BY AmountsAreNumbers DEF ThrottleIInv
<1>2. Amounts' BY AmountsAreNumbers, PTL
<1>3. /\ \A q \in Pids : Used[q] \in Nat /\ Used'[q] \in Nat
      /\ \A q \in Pids : Since[q] \in Nat /\ Since'[q] \in Nat
    BY <1>1, <1>2 DEF Amounts
<1>4. /\ \A q \in Pids \ {p} : Used'[q] <= Used[q]
      /\ \A q \in Pids \ {p} : Since'[q] <= Since[q]
    BY <1>3
<1>5. SumFunctionOnSet(Used', Pids) <= SumFunctionOnSet(Used, Pids) + more
    BY <1>3, <1>4, SumGrows, ThrottleAssumption
<1>6. SumFunctionOnSet(Since', Pids) <= SumFunctionOnSet(Since, Pids) + more
    BY <1>3, <1>4, SumGrows, ThrottleAssumption
<1>7. /\ SumFunctionOnSet(Used', Pids) \in Nat /\ SumFunctionOnSet(Used, Pids) \in Nat
      /\ SumFunctionOnSet(Since', Pids) \in Nat /\ SumFunctionOnSet(Since, Pids) \in Nat
    BY <1>3, SumNat, ThrottleAssumption
<1>8. burnt.previous \in Nat /\ burnt.current \in Nat BY DEF ThrottleIInv, ThrottleState
<1> QED BY <1>5, <1>6, <1>7, <1>8 DEF ThrottleIInv, Bounded

(* The tree is this process and, without orphans, all that has a parent.   *)
LEMMA TreeIsOurs ==
    ASSUME ThrottleIInv
    PROVE  Tree \subseteq Ours(procs) /\ (~burnt.orphans => Tree = Ours(procs))
<1>1. Tree \subseteq Ours(procs)
    BY DescendantsHaveParents DEF Tree, ThrottleIInv, ThrottleState, StartsKnown, Ours
<1>2. ASSUME ~burnt.orphans PROVE Ours(procs) \subseteq Tree
    <2> DEFINE age == [p \in DOMAIN procs |-> procs[p].start]
               family == Ours(procs)
    <2>1. family \subseteq DOMAIN procs BY DEF Ours
    <2>2. \A p \in family : age[p] \in Nat
        BY <2>1 DEF ThrottleIInv, ThrottleState, Table, Row
    <2>3. ASSUME NEW p \in family, p # Self
          PROVE  procs[p].parent \in family /\ age[procs[p].parent] < age[p]
        <3>1. p \in DOMAIN procs /\ procs[p].parent # 0 BY <2>3 DEF Ours
        <3>2. procs[p].parent \in Ours(procs) /\ procs[procs[p].parent].start < procs[p].start
            BY <1>2, <3>1 DEF ThrottleIInv, Family
        <3> QED BY <2>1, <3>1, <3>2
    <2> HIDE DEF family, age
    <2>4. family \subseteq Descendants(procs) BY <2>1, <2>2, <2>3, OlderParents
    <2> QED BY <2>4 DEF Tree, family
<1> QED BY <1>1, <1>2

LEMMA TimeKeeps ==
    ASSUME ThrottleIInv, Tick \/ Cancelled PROVE ThrottleIInv'
<1>1. UNCHANGED <<procs, births, Threading, burnt>> BY DEF Tick, Cancelled
<1>2. clock' \in Nat /\ clock <= clock' BY DEF Tick, Cancelled, ThrottleIInv, ThrottleState
<1>3. ThrottleState'
    BY <1>1, <1>2 DEF ThrottleIInv, ThrottleState, Threading, Table
<1>4. OneScans' BY <1>1 DEF ThrottleIInv, OneScans, Threading, At
<1>5. Facts' BY <1>1, Untouched DEF Threading
<1> QED BY <1>3, <1>4, <1>5 DEF ThrottleIInv, Facts

LEMMA BurnKeeps ==
    ASSUME ThrottleIInv, NEW p \in Pids, Burn(p) PROVE ThrottleIInv'
<1>1. /\ p \in DOMAIN procs /\ procs' = [procs EXCEPT ![p].ticks = @ + 1]
      /\ UNCHANGED <<clock, births, stopped, Threading>>
    BY DEF Burn
<1>2. /\ births' = births /\ clock' = clock /\ waiter' = waiter /\ owner' = owner
      /\ scan' = scan /\ sampler' = sampler
    BY <1>1 DEF Threading
<1>3. Table(procs, Row) /\ procs[p] \in Row BY <1>1 DEF ThrottleIInv, ThrottleState, Table
<1>4. /\ DOMAIN procs' = DOMAIN procs
      /\ procs'[p].ticks = procs[p].ticks + 1 /\ procs'[p].start = procs[p].start
      /\ procs'[p].parent = procs[p].parent
      /\ \A q \in DOMAIN procs \ {p} : procs'[q] = procs[q]
      /\ procs'[p] \in Row
    BY <1>1, <1>3 DEF Table, Row
<1>5. \A q \in DOMAIN procs : /\ procs'[q].start = procs[q].start
                              /\ procs'[q].parent = procs[q].parent
    BY <1>4
<1>6. Table(procs', Row) BY <1>1, <1>3, <1>4 DEF Table
<1> DEFINE more == IF p \in Tree THEN 1 ELSE 0
           apart == IF p \in Tree /\ owner = Nobody THEN 1 ELSE 0
<1>7. /\ burnt'.previous = burnt.previous + more /\ burnt'.current = burnt.current + more
      /\ burnt'.between = [burnt.between EXCEPT ![p] = @ + apart]
      /\ burnt'.mark = burnt.mark /\ burnt'.orphans = burnt.orphans
      /\ burnt'.low = burnt.low /\ burnt'.high = burnt.high
      /\ burnt' \in [previous : Nat, current : Nat, mark : Nat, between : [Pids -> Nat],
                     low : Nat, high : Nat, orphans : BOOLEAN]
    <2>1. burnt \in [previous : Nat, current : Nat, mark : Nat, between : [Pids -> Nat],
                     low : Nat, high : Nat, orphans : BOOLEAN]
        BY DEF ThrottleIInv, ThrottleState
    <2>2. CASE p \notin Tree
        <3>1. burnt' = burnt /\ more = 0 /\ apart = 0 BY <2>2 DEF Burn
        <3>2. burnt.between = [burnt.between EXCEPT ![p] = @ + apart] BY <2>1, <3>1
        <3> QED BY <2>1, <3>1, <3>2
    <2>3. CASE p \in Tree
        <3> DEFINE changed == [burnt.between EXCEPT ![p] = @ + apart]
        <3>1. burnt' = [burnt EXCEPT !.previous = @ + 1, !.current = @ + 1, !.between = changed]
            <4>1. CASE owner = Nobody BY <2>1, <2>3, <4>1 DEF Burn
            <4>2. CASE owner # Nobody
                <5>1. changed = [burnt.between EXCEPT ![p] = @] BY <2>1, <4>2
                <5> QED BY <2>1, <2>3, <4>2, <5>1 DEF Burn
            <4> QED BY <4>1, <4>2
        <3>2. changed \in [Pids -> Nat]
            <4>1. apart \in Nat OBVIOUS
            <4> HIDE DEF apart
            <4> QED BY <2>1, <4>1
        <3>3. more = 1 BY <2>3
        <3> HIDE DEF changed, more, apart
        <3>4. burnt' \in [previous : Nat, current : Nat, mark : Nat, between : [Pids -> Nat],
                          low : Nat, high : Nat, orphans : BOOLEAN]
            <4> DEFINE first == burnt.previous + 1
                       second == burnt.current + 1
            <4>1. first \in Nat /\ second \in Nat BY <2>1
            <4>2. burnt' = [burnt EXCEPT !.previous = first, !.current = second,
                                         !.between = changed]
                BY <3>1
            <4> HIDE DEF first, second
            <4> QED BY <2>1, <3>2, <4>1, <4>2
        <3>5. /\ burnt'.previous = burnt.previous + 1 /\ burnt'.current = burnt.current + 1
              /\ burnt'.between = changed
              /\ burnt'.mark = burnt.mark /\ burnt'.orphans = burnt.orphans
              /\ burnt'.low = burnt.low /\ burnt'.high = burnt.high
            BY <2>1, <3>1
        <3> QED BY <3>3, <3>4, <3>5 DEF changed
    <2> QED BY <2>2, <2>3
<1>8. ThrottleState' BY <1>2, <1>6, <1>7 DEF ThrottleIInv, ThrottleState
<1>9. OneScans' BY <1>2 DEF ThrottleIInv, OneScans, At
<1>10. StartsKnown' BY <1>2, <1>4, <1>5, <1>7 DEF ThrottleIInv, StartsKnown
<1>11. \A q \in Pids : StillRuns(q)' <=> StillRuns(q)
    BY <1>2, <1>4, <1>5 DEF StillRuns
<1>12. \A q \in DOMAIN scan : scan[q] \in Row /\ q \in Pids
    BY DEF ThrottleIInv, ThrottleState, Table
<1>13. RowsFollow'
    <2> SUFFICES ASSUME NEW q \in DOMAIN scan, StillRuns(q)'
                 PROVE  /\ scan[q].ticks <= procs'[q].ticks
                        /\ ~burnt'.orphans => scan[q].parent = procs'[q].parent
        BY <1>2 DEF RowsFollow
    <2>1. StillRuns(q) BY <1>11, <1>12
    <2>2. /\ q \in DOMAIN procs /\ scan[q].ticks <= procs[q].ticks
          /\ ~burnt.orphans => scan[q].parent = procs[q].parent
        BY <2>1 DEF ThrottleIInv, RowsFollow, StillRuns
    <2>3. procs[q].ticks \in Nat /\ scan[q].ticks \in Nat BY <1>3, <1>12, <2>2 DEF Table, Row
    <2>4. procs[q].ticks <= procs'[q].ticks
        <3>1. CASE q = p BY <1>4, <2>3, <3>1
        <3>2. CASE q # p BY <1>4, <2>2, <2>3, <3>2
        <3> QED BY <3>1, <3>2
    <2>5. procs'[q].ticks \in Nat BY <1>4, <1>6, <2>2 DEF Table, Row
    <2> QED BY <1>5, <1>7, <2>2, <2>3, <2>4, <2>5
<1> DEFINE old == sampler.previous
<1>14. Table(old, [start : Nat, ticks : Nat]) BY DEF ThrottleIInv, ThrottleState
<1>15. \A q \in DOMAIN procs \ {p} : Delta(old, procs', q) = Delta(old, procs, q)
    BY <1>4 DEF Delta
<1>16. Delta(old, procs', p) = Delta(old, procs, p) + 1 /\ Delta(old, procs, p) \in Nat
    <2>1. procs[p].ticks \in Nat BY <1>3 DEF Row
    <2>2. Follows(old, procs, p) BY <1>1 DEF ThrottleIInv, NothingMissed, Counts
    <2>3. p \in DOMAIN old => old[p].ticks \in Nat BY <1>14 DEF Table
    <2>4. Delta(old, procs, p) \in Nat BY <1>1, <1>14, <2>1, DeltaType
    <2> QED BY <1>4, <2>1, <2>2, <2>3, <2>4 DEF Delta, Beyond, Follows
<1>17. NothingMissed'
    <2>1. burnt.between \in [Pids -> Nat] /\ apart \in {0, 1} /\ Counts(procs) /\ Counts(scan)
        BY DEF ThrottleIInv, ThrottleState, NothingMissed
    <2>2. \A q \in Pids \ {p} : burnt'.between[q] = burnt.between[q] BY <1>7, <2>1
    <2>3. burnt'.between[p] = burnt.between[p] + apart /\ burnt.between[p] \in Nat
        BY <1>7, <2>1
    <2> HIDE DEF apart
    <2>4. ASSUME NEW q \in DOMAIN procs
          PROVE  Follows(old, procs', q) /\ burnt'.between[q] <= Delta(old, procs', q)
        <3>1. Follows(old, procs, q) /\ burnt.between[q] <= Delta(old, procs, q)
            BY <2>1 DEF Counts
        <3>2. CASE q = p
            <4>1. burnt'.between[p] <= Delta(old, procs', p)
                BY <1>16, <2>1, <2>3, <3>1, <3>2
            <4>2. procs[p].ticks \in Nat /\ (p \in DOMAIN old => old[p].ticks \in Nat)
                BY <1>3, <1>14 DEF Row, Table
            <4>3. Follows(old, procs', p) BY <1>4, <3>1, <3>2, <4>2 DEF Follows
            <4> QED BY <3>2, <4>1, <4>3
        <3>3. CASE q # p
            <4>1. q \in Pids BY <1>3 DEF Table
            <4> QED BY <1>4, <1>15, <2>2, <3>1, <3>3, <4>1 DEF Follows
        <3> QED BY <3>2, <3>3
    <2>5. ASSUME NEW q \in DOMAIN scan
          PROVE  Follows(old, scan, q) /\ burnt'.between[q] <= Delta(old, scan, q)
        <3>1. owner # Nobody BY DEF ThrottleIInv, OneScans
        <3>2. burnt'.between[q] = burnt.between[q]
            <4>1. apart = 0 BY <3>1 DEF apart
            <4> QED BY <1>12, <2>2, <2>3, <4>1
        <3> QED BY <2>1, <3>2 DEF Counts
    <2>6. \A q \in Pids \ DOMAIN procs : burnt'.between[q] = 0
        BY <1>1, <2>2 DEF ThrottleIInv, NothingMissed
    <2> QED BY <1>2, <1>4, <2>4, <2>5, <2>6 DEF NothingMissed, Counts
<1>18. RowsRead'
    <2>1. Missing' = Missing BY <1>2 DEF Missing
    <2>2. DOMAIN procs \subseteq Pids BY <1>3 DEF Table
    <2> QED BY <1>2, <1>4, <1>5, <1>7, <1>11, <2>1, <2>2 DEF ThrottleIInv, RowsRead
<1>19. Ours(procs') = Ours(procs) BY <1>4, <1>5 DEF Ours
<1>20. Family'
    <2> SUFFICES ASSUME ~burnt.orphans, NEW q \in DOMAIN procs, procs[q].parent # 0
                 PROVE  /\ procs[q].parent \in Ours(procs)
                        /\ procs'[procs[q].parent].start < procs[q].start
        BY <1>4, <1>5, <1>7, <1>19 DEF Family
    <2>1. procs[q].parent \in Ours(procs) /\ procs[procs[q].parent].start < procs[q].start
        BY DEF ThrottleIInv, Family
    <2> QED BY <1>5, <2>1 DEF Ours
<1>21. ASSUME NEW q \in Pids \ {p} PROVE Used'[q] = Used[q] /\ Since'[q] = Since[q]
    <2>1. q \in Ours(procs) => Delta(old, procs', q) = Delta(old, procs, q) BY <1>15 DEF Ours
    <2>2. Used'[q] = Used[q] BY <1>2, <1>11, <1>19, <2>1 DEF Used
    <2>3. q \in Ours(procs) => procs'[q] = procs[q] BY <1>4 DEF Ours
    <2>4. Since'[q] = Since[q] BY <1>2, <1>7, <1>11, <1>19, <2>3 DEF Since
    <2> QED BY <2>2, <2>4
<1>22. ASSUME ~burnt.orphans PROVE Used'[p] <= Used[p] + more /\ Since'[p] <= Since[p] + more
    <2>1. Amounts BY AmountsAreNumbers DEF ThrottleIInv
    <2>2. Used[p] \in Nat /\ Since[p] \in Nat BY <2>1 DEF Amounts
    <2>3. Tree = Ours(procs) BY <1>22, TreeIsOurs
    <2>4. CASE p \notin Ours(procs)
        <3>1. Used'[p] = Used[p] BY <1>2, <1>11, <1>19, <2>4 DEF Used
        <3>2. Since'[p] = 0 BY <1>19, <2>4 DEF Since
        <3> QED BY <2>2, <2>3, <2>4, <3>1, <3>2
    <2>5. CASE p \in Ours(procs)
        <3> DEFINE gone == IF p \in Ours(scan) /\ ~StillRuns(p) THEN Delta(old, scan, p) ELSE 0
        <3>1. more = 1 BY <2>3, <2>5
        <3>2. Used[p] = Delta(old, procs, p) + gone BY <2>5 DEF Used
        <3>3. Used'[p] = Delta(old, procs', p) + gone BY <1>2, <1>11, <1>19, <2>5 DEF Used
        <3>4. gone \in Nat
            <4>1. p \in Ours(scan) => Delta(old, scan, p) \in Nat
                BY <1>12, <1>14, DeltaType DEF Ours, Row
            <4> QED BY <4>1
        <3> HIDE DEF gone, old, more
        <3>5. Used'[p] <= Used[p] + more BY <1>16, <3>1, <3>2, <3>3, <3>4
        <3>6. procs[p].ticks \in Nat /\ procs[p].start \in Nat BY <1>3 DEF Row
        <3>7. StillRuns(p) => scan[p].ticks \in Nat /\ scan[p].ticks <= procs[p].ticks
            BY <1>12 DEF ThrottleIInv, RowsFollow, StillRuns, Row
        <3>8. Since'[p] <= Since[p] + more
            <4>1. CASE procs[p].start > burnt.mark
                <5>1. Since[p] = procs[p].ticks BY <2>5, <4>1 DEF Since
                <5>2. Since'[p] = procs[p].ticks + 1
                    BY <1>4, <1>7, <1>19, <2>5, <4>1 DEF Since
                <5> QED BY <3>1, <3>6, <5>1, <5>2
            <4>2. CASE ~(procs[p].start > burnt.mark) /\ StillRuns(p)
                <5>1. Since[p] = procs[p].ticks - scan[p].ticks
                    BY <2>5, <3>7, <4>2 DEF Since, Beyond
                <5>2. Since'[p] = Beyond(scan[p].ticks, procs[p].ticks + 1)
                    BY <1>2, <1>4, <1>7, <1>11, <1>19, <2>5, <4>2 DEF Since
                <5>3. Since'[p] = procs[p].ticks + 1 - scan[p].ticks
                    BY <3>6, <3>7, <4>2, <5>2 DEF Beyond
                <5> QED BY <3>1, <3>6, <3>7, <4>2, <5>1, <5>3
            <4>3. CASE ~(procs[p].start > burnt.mark) /\ ~StillRuns(p)
                <5>1. Since'[p] = 0
                    BY <1>2, <1>4, <1>7, <1>11, <1>19, <2>5, <4>3 DEF Since
                <5> QED BY <2>2, <3>1, <5>1
            <4> QED BY <4>1, <4>2, <4>3
        <3> QED BY <3>5, <3>8
    <2> QED BY <2>4, <2>5
<1>23. Bounded'
    <2>1. more \in Nat OBVIOUS
    <2> HIDE DEF more, apart, old
    <2>2. \A q \in Pids \ {p} : Used'[q] = Used[q] /\ Since'[q] = Since[q] BY <1>21
    <2> QED BY <1>2, <1>7, <1>8, <1>22, <2>1, <2>2, BoundKept
<1>24. SampleSound' BY <1>2, <1>7 DEF ThrottleIInv, SampleSound
<1> QED BY <1>8, <1>9, <1>10, <1>13, <1>17, <1>18, <1>20, <1>23, <1>24 DEF ThrottleIInv

LEMMA ExitKeeps ==
    ASSUME ThrottleIInv, NEW p \in Pids, Exit(p) PROVE ThrottleIInv'
<1>1. /\ p \in DOMAIN procs /\ p # Self
      /\ procs' = [q \in DOMAIN procs \ {p} |->
                      IF procs[q].parent = p THEN [procs[q] EXCEPT !.parent = 0] ELSE procs[q]]
      /\ UNCHANGED <<clock, births, stopped, Threading>>
    BY DEF Exit
<1>2. /\ births' = births /\ clock' = clock /\ waiter' = waiter /\ owner' = owner
      /\ scan' = scan /\ sampler' = sampler
    BY <1>1 DEF Threading
<1>3. Table(procs, Row) BY DEF ThrottleIInv, ThrottleState
<1>4. DOMAIN procs' = DOMAIN procs \ {p} BY <1>1
<1>5. ASSUME NEW q \in DOMAIN procs'
      PROVE  /\ procs'[q] \in Row /\ procs'[q].start = procs[q].start
             /\ procs'[q].ticks = procs[q].ticks
             /\ procs[q].parent # p => procs'[q] = procs[q]
    <2>1. procs[q] \in Row BY <1>3, <1>4 DEF Table
    <2>2. CASE procs[q].parent = p
        <3>1. procs'[q] = [procs[q] EXCEPT !.parent = 0] BY <1>1, <1>4, <2>2
        <3> QED BY <2>1, <2>2, <3>1 DEF Row
    <2>3. CASE procs[q].parent # p
        <3>1. procs'[q] = procs[q] BY <1>1, <1>4, <2>3
        <3> QED BY <2>1, <3>1
    <2> QED BY <2>2, <2>3
<1>6. Table(procs', Row)
    <2>1. procs' = [q \in DOMAIN procs' |-> procs'[q]] BY <1>1
    <2> QED BY <1>3, <1>4, <1>5, <2>1 DEF Table
<1>7. /\ burnt'.between = [burnt.between EXCEPT ![p] = 0]
      /\ burnt'.orphans = (burnt.orphans \/ \E q \in DOMAIN procs : procs[q].parent = p)
      /\ burnt'.previous = burnt.previous /\ burnt'.current = burnt.current
      /\ burnt'.mark = burnt.mark /\ burnt'.low = burnt.low /\ burnt'.high = burnt.high
      /\ burnt' \in [previous : Nat, current : Nat, mark : Nat, between : [Pids -> Nat],
                     low : Nat, high : Nat, orphans : BOOLEAN]
    <2> DEFINE ever == burnt.orphans \/ \E q \in DOMAIN procs : procs[q].parent = p
               cleared == [burnt.between EXCEPT ![p] = 0]
    <2>1. burnt \in [previous : Nat, current : Nat, mark : Nat, between : [Pids -> Nat],
                     low : Nat, high : Nat, orphans : BOOLEAN]
        BY DEF ThrottleIInv, ThrottleState
    <2>2. burnt' = [burnt EXCEPT !.between = cleared, !.orphans = ever]
        BY <2>1 DEF Exit
    <2>3. cleared \in [Pids -> Nat] BY <2>1
    <2>4. ever \in BOOLEAN OBVIOUS
    <2> HIDE DEF ever, cleared
    <2>5. /\ burnt'.between = cleared /\ burnt'.orphans = ever
          /\ burnt'.previous = burnt.previous /\ burnt'.current = burnt.current
          /\ burnt'.mark = burnt.mark /\ burnt'.low = burnt.low /\ burnt'.high = burnt.high
        BY <2>1, <2>2
    <2>6. burnt' \in [previous : Nat, current : Nat, mark : Nat, between : [Pids -> Nat],
                      low : Nat, high : Nat, orphans : BOOLEAN]
        BY <2>1, <2>2, <2>3, <2>4
    <2> QED BY <2>5, <2>6 DEF ever, cleared
<1>8. ~burnt'.orphans => /\ ~burnt.orphans
                         /\ \A q \in DOMAIN procs : procs[q].parent # p
                         /\ \A q \in DOMAIN procs' : procs'[q] = procs[q]
    BY <1>4, <1>5, <1>7
<1>9. ThrottleState' BY <1>2, <1>6, <1>7 DEF ThrottleIInv, ThrottleState
<1>10. OneScans' BY <1>2 DEF ThrottleIInv, OneScans, At
<1>11. StartsKnown'
    <2>1. Self \in DOMAIN procs' /\ procs[Self].parent = 0 /\ procs[Self].start = 0
        BY <1>1, <1>4 DEF ThrottleIInv, StartsKnown
    <2>2. p # 0 BY ThrottleAssumption
    <2>3. procs'[Self] = procs[Self] BY <1>5, <2>1, <2>2
    <2>4. \A q \in DOMAIN procs' : procs'[q].start <= births'
        BY <1>2, <1>4, <1>5 DEF ThrottleIInv, StartsKnown
    <2> QED BY <1>2, <1>7, <2>1, <2>3, <2>4 DEF ThrottleIInv, StartsKnown
<1>12. \A q \in Pids : StillRuns(q)' <=> q # p /\ StillRuns(q)
    BY <1>2, <1>4, <1>5 DEF StillRuns
<1>13. \A q \in DOMAIN scan : scan[q] \in Row /\ q \in Pids
    BY DEF ThrottleIInv, ThrottleState, Table
<1>14. RowsFollow'
    <2> SUFFICES ASSUME NEW q \in DOMAIN scan, StillRuns(q)'
                 PROVE  /\ scan[q].ticks <= procs'[q].ticks
                        /\ ~burnt'.orphans => scan[q].parent = procs'[q].parent
        BY <1>2 DEF RowsFollow
    <2>1. StillRuns(q) /\ q # p BY <1>12, <1>13
    <2>2. q \in DOMAIN procs' BY <1>4, <2>1 DEF StillRuns
    <2>3. /\ scan[q].ticks <= procs[q].ticks
          /\ ~burnt.orphans => scan[q].parent = procs[q].parent
        BY <2>1 DEF ThrottleIInv, RowsFollow
    <2> QED BY <1>5, <1>8, <2>2, <2>3
<1> DEFINE old == sampler.previous
<1>15. Table(old, [start : Nat, ticks : Nat]) BY DEF ThrottleIInv, ThrottleState
<1>16. \A q \in DOMAIN procs' : Delta(old, procs', q) = Delta(old, procs, q)
    BY <1>5 DEF Delta
<1>17. NothingMissed'
    <2>1. burnt.between \in [Pids -> Nat] /\ Counts(procs) /\ Counts(scan)
        BY DEF ThrottleIInv, ThrottleState, NothingMissed
    <2>2. burnt'.between[p] = 0 /\ \A q \in Pids \ {p} : burnt'.between[q] = burnt.between[q]
        BY <1>7, <2>1
    <2>3. ASSUME NEW q \in DOMAIN procs'
          PROVE  Follows(old, procs', q) /\ burnt'.between[q] <= Delta(old, procs', q)
        <3>1. q \in DOMAIN procs /\ q # p /\ q \in Pids BY <1>3, <1>4 DEF Table
        <3>2. Follows(old, procs, q) /\ burnt.between[q] <= Delta(old, procs, q)
            BY <2>1, <3>1 DEF Counts
        <3> QED BY <1>5, <1>16, <2>2, <3>1, <3>2 DEF Follows
    <2>4. ASSUME NEW q \in DOMAIN scan
          PROVE  Follows(old, scan, q) /\ burnt'.between[q] <= Delta(old, scan, q)
        <3>1. Follows(old, scan, q) /\ burnt.between[q] <= Delta(old, scan, q)
            BY <2>1 DEF Counts
        <3>2. CASE q = p
            <4>1. scan[q].ticks \in Nat BY <1>13 DEF Row
            <4>2. Delta(old, scan, q) \in Nat BY <1>15, <4>1, DeltaType
            <4> QED BY <2>2, <3>1, <3>2, <4>2
        <3>3. CASE q # p BY <1>13, <2>2, <3>1, <3>3
        <3> QED BY <3>2, <3>3
    <2>5. \A q \in Pids \ DOMAIN procs' : burnt'.between[q] = 0
        BY <1>4, <2>2 DEF ThrottleIInv, NothingMissed
    <2> QED BY <1>2, <2>3, <2>4, <2>5 DEF NothingMissed, Counts
<1>18. RowsRead'
    <2>1. Missing' = Missing BY <1>2 DEF Missing
    <2>2. DOMAIN procs \subseteq Pids BY <1>3 DEF Table
    <2> QED BY <1>2, <1>4, <1>5, <1>7, <1>12, <2>1, <2>2 DEF ThrottleIInv, RowsRead
<1>19. ~burnt'.orphans => Ours(procs') = Ours(procs) \ {p} BY <1>4, <1>8 DEF Ours
<1>20. Family'
    <2> SUFFICES ASSUME ~burnt'.orphans, NEW q \in DOMAIN procs', procs'[q].parent # 0
                 PROVE  /\ procs'[q].parent \in Ours(procs')
                        /\ procs'[procs'[q].parent].start < procs'[q].start
        BY DEF Family
    <2>1. procs'[q] = procs[q] /\ q \in DOMAIN procs /\ procs[q].parent # p BY <1>4, <1>8
    <2>2. procs[q].parent \in Ours(procs) /\ procs[procs[q].parent].start < procs[q].start
        BY <1>8, <2>1 DEF ThrottleIInv, Family
    <2>3. procs[q].parent \in Ours(procs') BY <1>19, <2>1, <2>2
    <2> QED BY <1>5, <2>1, <2>2, <2>3 DEF Ours
<1>21. ASSUME ~burnt'.orphans, NEW q \in Pids \ {p}
       PROVE  Used'[q] = Used[q] /\ Since'[q] = Since[q]
    <2>1. /\ q \in Ours(procs') <=> q \in Ours(procs)
          /\ q \in Ours(procs) => procs'[q] = procs[q]
        BY <1>4, <1>8, <1>19, <1>21 DEF Ours
    <2>2. StillRuns(q)' <=> StillRuns(q) BY <1>12
    <2>3. q \in Ours(procs) => Delta(old, procs', q) = Delta(old, procs, q) BY <2>1 DEF Delta
    <2>4. Used'[q] = Used[q] BY <1>2, <2>1, <2>2, <2>3 DEF Used
    <2>5. Since'[q] = Since[q] BY <1>2, <1>7, <2>1, <2>2 DEF Since
    <2> QED BY <2>4, <2>5
<1>22. ASSUME ~burnt'.orphans PROVE Used'[p] <= Used[p] + 0 /\ Since'[p] <= Since[p] + 0
    <2>1. Amounts BY AmountsAreNumbers DEF ThrottleIInv
    <2>2. Used[p] \in Nat /\ Since[p] \in Nat BY <2>1 DEF Amounts
    <2>3. p \notin Ours(procs') /\ ~StillRuns(p)' BY <1>12, <1>19, <1>22
    <2>4. Since'[p] = 0 BY <2>3 DEF Since
    <2>5. CASE p \notin Ours(scan)
        <3>1. Used'[p] = 0 BY <1>2, <2>3, <2>5 DEF Used
        <3> QED BY <2>2, <2>4, <3>1
    <2>6. CASE p \in Ours(scan)
        <3> DEFINE own == IF p \in Ours(procs) THEN Delta(old, procs, p) ELSE 0
                   row == Delta(old, scan, p)
        <3>1. Used'[p] = 0 + row BY <1>2, <2>3, <2>6 DEF Used
        <3>2. Used[p] = own + (IF ~StillRuns(p) THEN row ELSE 0) BY <2>6 DEF Used
        <3>3. procs[p].ticks \in Nat /\ p \in DOMAIN scan /\ scan[p].ticks \in Nat
            BY <1>1, <1>3, <1>13, <2>6 DEF Table, Row, Ours
        <3>4. row \in Nat BY <1>15, <3>3, DeltaType
        <3>5. own \in Nat
            <4>1. Delta(old, procs, p) \in Nat BY <1>1, <1>15, <3>3, DeltaType
            <4> QED BY <4>1
        <3>6. StillRuns(p) => row <= own
            <4> SUFFICES ASSUME StillRuns(p) PROVE row <= own
                OBVIOUS
            <4>1. /\ scan[p].ticks <= procs[p].ticks /\ scan[p].parent = procs[p].parent
                  /\ scan[p].start = procs[p].start
                BY <1>8, <1>22, <3>3 DEF ThrottleIInv, RowsFollow, StillRuns
            <4>2. p \in Ours(procs) BY <1>1, <2>6, <4>1 DEF Ours
            <4>3. p \in DOMAIN old => old[p].ticks \in Nat BY <1>15 DEF Table
            <4>4. Delta(old, scan, p) <= Delta(old, procs, p)
                BY <3>3, <4>1, <4>3 DEF Delta, Beyond
            <4> QED BY <4>2, <4>4
        <3> HIDE DEF own, row
        <3> QED BY <2>2, <2>4, <3>1, <3>2, <3>4, <3>5, <3>6
    <2> QED BY <2>5, <2>6
<1>23. Bounded'
    <2> DEFINE more == 0
    <2>1. more \in Nat OBVIOUS
    <2>2. burnt'.previous = burnt.previous + more /\ burnt'.current = burnt.current + more
        BY <1>7 DEF ThrottleIInv, ThrottleState
    <2>3. ~burnt'.orphans => ~burnt.orphans BY <1>8
    <2>4. ~burnt'.orphans =>
             /\ \A q \in Pids \ {p} : Used'[q] = Used[q] /\ Since'[q] = Since[q]
             /\ Used'[p] <= Used[p] + more /\ Since'[p] <= Since[p] + more
        BY <1>21, <1>22
    <2> HIDE DEF more
    <2> QED BY <1>2, <1>9, <2>1, <2>2, <2>3, <2>4, BoundKept
<1>24. SampleSound' BY <1>2, <1>7 DEF ThrottleIInv, SampleSound
<1> QED BY <1>9, <1>10, <1>11, <1>14, <1>17, <1>18, <1>20, <1>23, <1>24 DEF ThrottleIInv

LEMMA BornKeeps ==
    ASSUME ThrottleIInv, NEW p \in Pids, NEW parent \in Pids \cup {0}, Born(p, parent)
    PROVE  ThrottleIInv'
<1> DEFINE child == [parent |-> parent, start |-> births + 1, ticks |-> 0]
<1>1. /\ p \notin DOMAIN procs /\ parent \in Tree \cup {0}
      /\ births' = births + 1 /\ births \in Nat
      /\ procs' = [q \in DOMAIN procs \cup {p} |-> IF q = p THEN child ELSE procs[q]]
      /\ UNCHANGED <<clock, stopped, Threading, burnt>>
    BY DEF Born, ThrottleIInv, ThrottleState
<1>2. /\ clock' = clock /\ waiter' = waiter /\ owner' = owner
      /\ scan' = scan /\ sampler' = sampler /\ burnt' = burnt
    BY <1>1 DEF Threading
<1>3. Table(procs, Row) BY DEF ThrottleIInv, ThrottleState
<1>4. /\ DOMAIN procs' = DOMAIN procs \cup {p} /\ procs'[p] = child
      /\ \A q \in DOMAIN procs : procs'[q] = procs[q] /\ q # p
    BY <1>1
<1>5. /\ child.parent = parent /\ child.start = births + 1 /\ child.ticks = 0 /\ child \in Row
    BY <1>1 DEF Row
<1> HIDE DEF child
<1>6. Table(procs', Row)
    <2>1. procs' = [q \in DOMAIN procs' |-> procs'[q]] BY <1>1
    <2>2. \A q \in DOMAIN procs' : procs'[q] \in Row
        BY <1>3, <1>4, <1>5 DEF Table
    <2>3. DOMAIN procs' \subseteq Pids BY <1>3, <1>4 DEF Table
    <2> QED BY <2>1, <2>2, <2>3 DEF Table
<1>7. ThrottleState' BY <1>1, <1>2, <1>6 DEF ThrottleIInv, ThrottleState
<1>8. OneScans' BY <1>2 DEF ThrottleIInv, OneScans, At
<1>9. \A n \in Nat : n <= births => n <= births' /\ n # births + 1 BY <1>1
<1>10. /\ \A q \in DOMAIN procs : procs[q].start \in Nat /\ procs[q].start <= births
       /\ \A q \in DOMAIN scan : scan[q].start \in Nat /\ scan[q].start <= births
       /\ \A q \in DOMAIN sampler.previous :
             sampler.previous[q].start \in Nat /\ sampler.previous[q].start <= births
       /\ burnt.mark \in Nat /\ burnt.mark <= births
    BY DEF ThrottleIInv, ThrottleState, StartsKnown, Table, Row
<1>11. StartsKnown'
    <2>1. Self \in DOMAIN procs' /\ procs'[Self].parent = 0 /\ procs'[Self].start = 0
        BY <1>4 DEF ThrottleIInv, StartsKnown
    <2>2. ASSUME NEW q \in DOMAIN procs' PROVE procs'[q].start <= births'
        <3>1. CASE q = p BY <1>1, <1>4, <1>5, <3>1
        <3>2. CASE q # p BY <1>4, <1>9, <1>10, <3>2
        <3> QED BY <3>1, <3>2
    <2> QED BY <1>2, <1>9, <1>10, <2>1, <2>2 DEF StartsKnown
<1>12. \A q \in Pids : StillRuns(q)' <=> StillRuns(q)
    <2> SUFFICES ASSUME NEW q \in Pids PROVE StillRuns(q)' <=> StillRuns(q)
        OBVIOUS
    <2>1. CASE q = p
        <3>1. ~StillRuns(q) BY <1>1, <2>1 DEF StillRuns
        <3>2. ~StillRuns(q)'
            BY <1>2, <1>4, <1>5, <1>9, <1>10, <2>1 DEF StillRuns
        <3> QED BY <3>1, <3>2
    <2>2. CASE q # p BY <1>2, <1>4, <2>2 DEF StillRuns
    <2> QED BY <2>1, <2>2
<1>13. \A q \in DOMAIN scan : q \in Pids BY DEF ThrottleIInv, ThrottleState, Table
<1>14. RowsFollow'
    <2> SUFFICES ASSUME NEW q \in DOMAIN scan, StillRuns(q)'
                 PROVE  /\ scan[q].ticks <= procs'[q].ticks
                        /\ ~burnt.orphans => scan[q].parent = procs'[q].parent
        BY <1>2 DEF RowsFollow
    <2>1. StillRuns(q) BY <1>12, <1>13
    <2>2. q \in DOMAIN procs BY <2>1 DEF StillRuns
    <2> QED BY <1>4, <2>1, <2>2 DEF ThrottleIInv, RowsFollow
<1> DEFINE old == sampler.previous
<1>15. Delta(old, procs', p) = 0 /\ Follows(old, procs', p)
    <2>1. p \in DOMAIN old => old[p].start # procs'[p].start
        BY <1>4, <1>5, <1>9, <1>10
    <2> QED BY <1>4, <1>5, <2>1 DEF Delta, Follows
<1>16. \A q \in DOMAIN procs : Delta(old, procs', q) = Delta(old, procs, q)
    BY <1>4 DEF Delta
<1>17. NothingMissed'
    <2>1. burnt.between[p] = 0 /\ Counts(procs) /\ Counts(scan)
        BY <1>1 DEF ThrottleIInv, NothingMissed
    <2>2. ASSUME NEW q \in DOMAIN procs'
          PROVE  Follows(old, procs', q) /\ burnt.between[q] <= Delta(old, procs', q)
        <3>1. CASE q = p BY <1>15, <2>1, <3>1
        <3>2. CASE q # p
            <4>1. q \in DOMAIN procs BY <1>4, <3>2
            <4>2. Follows(old, procs, q) /\ burnt.between[q] <= Delta(old, procs, q)
                BY <2>1, <4>1 DEF Counts
            <4> QED BY <1>4, <1>16, <4>1, <4>2 DEF Follows
        <3> QED BY <3>1, <3>2
    <2>3. Counts(procs)' BY <1>2, <2>2 DEF Counts
    <2>4. Counts(scan)' BY <1>2, <2>1 DEF Counts, Follows, Delta
    <2>5. \A q \in Pids \ DOMAIN procs' : burnt.between[q] = 0
        BY <1>4 DEF ThrottleIInv, NothingMissed
    <2> QED BY <1>2, <2>3, <2>4, <2>5 DEF NothingMissed
<1>18. RowsRead'
    <2> SUFFICES ASSUME owner # Nobody, NEW q \in DOMAIN procs', q \notin Missing,
                        procs'[q].start <= burnt.mark
                 PROVE  StillRuns(q)'
        BY <1>2 DEF RowsRead, Missing
    <2>1. q # p BY <1>1, <1>4, <1>5, <1>10
    <2>2. q \in DOMAIN procs /\ q \in Pids BY <1>3, <1>4, <2>1 DEF Table
    <2>3. StillRuns(q) BY <1>4, <2>2 DEF ThrottleIInv, RowsRead
    <2> QED BY <1>12, <2>2, <2>3
<1>19. Ours(procs) \subseteq Ours(procs') BY <1>4 DEF Ours
<1>20. Family'
    <2> SUFFICES ASSUME ~burnt.orphans, NEW q \in DOMAIN procs', procs'[q].parent # 0
                 PROVE  /\ procs'[q].parent \in Ours(procs')
                        /\ procs'[procs'[q].parent].start < procs'[q].start
        BY <1>2 DEF Family
    <2>1. CASE q = p
        <3>1. parent \in Ours(procs) BY <1>1, <1>4, <1>5, <2>1, TreeIsOurs
        <3>2. parent \in DOMAIN procs BY <3>1 DEF Ours
        <3>3. procs[parent].start <= births /\ procs[parent].start \in Nat BY <1>10, <3>2
        <3> QED BY <1>1, <1>4, <1>5, <1>19, <2>1, <3>1, <3>2, <3>3
    <2>2. CASE q # p
        <3>1. q \in DOMAIN procs /\ procs'[q] = procs[q] BY <1>4, <2>2
        <3>2. /\ procs[q].parent \in Ours(procs)
              /\ procs[procs[q].parent].start < procs[q].start
            BY <3>1 DEF ThrottleIInv, Family
        <3>3. procs[q].parent \in DOMAIN procs BY <3>2 DEF Ours
        <3> QED BY <1>4, <1>19, <3>1, <3>2, <3>3
    <2> QED BY <2>1, <2>2
<1>21. ASSUME NEW q \in Pids \ {p} PROVE Used'[q] = Used[q] /\ Since'[q] = Since[q]
    <2>1. q \in Ours(procs') <=> q \in Ours(procs) BY <1>4 DEF Ours
    <2>2. q \in Ours(procs) => /\ Delta(old, procs', q) = Delta(old, procs, q)
                               /\ procs'[q] = procs[q]
        BY <1>4, <1>16 DEF Ours
    <2>3. StillRuns(q)' <=> StillRuns(q) BY <1>12
    <2>4. Used'[q] = Used[q] BY <1>2, <2>1, <2>2, <2>3 DEF Used
    <2>5. Since'[q] = Since[q] BY <1>2, <2>1, <2>2, <2>3 DEF Since
    <2> QED BY <2>4, <2>5
<1>22. Used'[p] <= Used[p] + 0 /\ Since'[p] <= Since[p] + 0
    <2>1. Amounts BY AmountsAreNumbers DEF ThrottleIInv
    <2>2. Used[p] \in Nat /\ Since[p] \in Nat BY <2>1 DEF Amounts
    <2>3. p \notin Ours(procs) /\ (StillRuns(p)' <=> StillRuns(p)) BY <1>1, <1>12 DEF Ours
    <2>4. Since'[p] = 0
        <3>1. births + 1 > burnt.mark BY <1>1, <1>10
        <3>2. procs'[p].start > burnt'.mark BY <1>2, <1>4, <1>5, <3>1
        <3> QED BY <1>4, <1>5, <3>2 DEF Since
    <2>5. Used'[p] = Used[p]
        <3>1. (IF p \in Ours(procs') THEN Delta(old, procs', p) ELSE 0) = 0 BY <1>15
        <3> QED BY <1>2, <2>3, <3>1 DEF Used
    <2> QED BY <2>2, <2>4, <2>5
<1>23. Bounded'
    <2> DEFINE more == 0
    <2>1. more \in Nat OBVIOUS
    <2>2. burnt'.previous = burnt.previous + more /\ burnt'.current = burnt.current + more
        BY <1>2 DEF ThrottleIInv, ThrottleState
    <2>3. Used'[p] <= Used[p] + more /\ Since'[p] <= Since[p] + more BY <1>22
    <2>4. \A q \in Pids \ {p} : Used'[q] = Used[q] /\ Since'[q] = Since[q] BY <1>21
    <2> HIDE DEF more
    <2> QED BY <1>2, <1>7, <2>1, <2>2, <2>3, <2>4, BoundKept
<1>24. SampleSound' BY <1>2 DEF ThrottleIInv, SampleSound
<1> QED BY <1>7, <1>8, <1>11, <1>14, <1>17, <1>18, <1>20, <1>23, <1>24 DEF ThrottleIInv

-----------------------------------------------------------------------------
(* The theorem *)

LEMMA ThrottleStarts == ThrottleInit => ThrottleIInv
<1> SUFFICES ASSUME ThrottleInit PROVE ThrottleIInv
    OBVIOUS
<1>1. /\ clock = 1 /\ births = 0 /\ owner = Nobody /\ scan = <<>> /\ sampler = NeverSampled
      /\ waiter = [t \in Threads |-> Arriving] /\ burnt = NothingBurnt
    BY DEF ThrottleInit
<1>2. /\ DOMAIN procs = {Self} /\ procs[Self] = [parent |-> 0, start |-> 0, ticks |-> 0]
      /\ procs = [p \in DOMAIN procs |-> procs[p]]
    BY DEF ThrottleInit, ThisProcess
<1>3. DOMAIN scan = {} /\ DOMAIN sampler.previous = {}
      /\ sampler.previous = <<>> /\ sampler.last = 0 /\ sampler.usage.ticks = 0
    BY <1>1 DEF NeverSampled
<1>4. /\ burnt.previous = 0 /\ burnt.current = 0 /\ burnt.mark = 0 /\ burnt.orphans = FALSE
      /\ burnt.low = 0 /\ burnt.high = 0 /\ \A p \in Pids : burnt.between[p] = 0
    BY <1>1 DEF NothingBurnt
<1>5. procs[Self] \in Row BY <1>2 DEF Row
<1>6. procs[Self].parent = 0 /\ procs[Self].start = 0 /\ procs[Self].ticks = 0 BY <1>2
<1>7. Table(procs, Row) BY <1>2, <1>5, ThrottleAssumption DEF Table
<1>8. ThrottleState
    <2>1. waiter \in [Threads -> [at : Places, until : Nat]]
        BY <1>1 DEF Arriving, Places
    <2>2. burnt \in [previous : Nat, current : Nat, mark : Nat, between : [Pids -> Nat],
                     low : Nat, high : Nat, orphans : BOOLEAN]
        BY <1>1 DEF NothingBurnt
    <2>3. sampler \in [last : Nat, usage : [ticks : Nat, time : Nat],
                       previous : {sampler.previous}]
        BY <1>1 DEF NeverSampled
    <2>4. Table(scan, Row) /\ Table(sampler.previous, [start : Nat, ticks : Nat])
        BY <1>1, <1>3, NothingThere
    <2>5. sampler.last <= clock BY <1>1, <1>3
    <2> QED BY <1>1, <1>7, <2>1, <2>2, <2>3, <2>4, <2>5 DEF ThrottleState
<1>9. OneScans BY <1>1, ThrottleAssumption DEF OneScans, At, Arriving
<1>10. StartsKnown BY <1>1, <1>2, <1>3, <1>4, <1>6 DEF StartsKnown
<1>11. RowsFollow BY <1>3 DEF RowsFollow
<1>12. NothingMissed
    <2>1. Follows(sampler.previous, procs, Self) /\ Delta(sampler.previous, procs, Self) = 0
        BY <1>3, <1>6 DEF Follows, Delta
    <2> QED BY <1>2, <1>3, <1>4, <2>1, ThrottleAssumption DEF NothingMissed, Counts
<1>13. RowsRead BY <1>1 DEF RowsRead
<1>14. Family BY <1>2, <1>6 DEF Family
<1>15. Bounded
    <2>1. ASSUME NEW p \in Pids PROVE Used[p] = 0
        <3>1. p \in Ours(procs) => p = Self BY <1>2 DEF Ours
        <3>2. Delta(sampler.previous, procs, Self) = 0 BY <1>3, <1>6 DEF Delta
        <3>3. Ours(scan) = {} BY <1>3 DEF Ours
        <3> QED BY <3>1, <3>2, <3>3 DEF Used
    <2> DEFINE none == {}
    <2>2. SumFunctionOnSet(Used, Pids) = SumFunctionOnSet(Used, none)
        <3>1. none \in SUBSET Pids /\ Pids \ none = Pids OBVIOUS
        <3>2. \A p \in Pids : Used[p] \in Nat /\ Used[p] = 0 BY <2>1
        <3> HIDE DEF none
        <3> QED BY <3>1, <3>2, SumZeros, ThrottleAssumption
    <2>3. SumFunctionOnSet(Used, Pids) = 0 BY <2>2, SumEmpty
    <2> QED BY <1>1, <1>4, <2>3 DEF Bounded
<1>16. SampleSound BY <1>3, <1>4 DEF SampleSound
<1> QED BY <1>8, <1>9, <1>10, <1>11, <1>12, <1>13, <1>14, <1>15, <1>16 DEF ThrottleIInv

LEMMA ThrottleStepKeeps == ThrottleIInv /\ [ThrottleNext]_throttle => ThrottleIInv'
<1> SUFFICES ASSUME ThrottleIInv, [ThrottleNext]_throttle PROVE ThrottleIInv'
    OBVIOUS
<1>1. CASE Tick \/ Cancelled BY <1>1, TimeKeeps
<1>2. CASE Process BY <1>2, BurnKeeps, ExitKeeps, BornKeeps DEF Process
<1>3. ASSUME NEW t \in Threads, Thread(t) PROVE ThrottleIInv'
    BY <1>3, TryLockKeeps, ReadRowKeeps, RefreshedKeeps, ScanFailsKeeps, ResumeKeeps, RefuseKeeps
       DEF Thread
<1>4. CASE UNCHANGED throttle
    <2>1. ThrottleState' BY <1>4 DEF throttle, ThrottleIInv, ThrottleState, Table
    <2>2. OneScans' BY <1>4 DEF throttle, ThrottleIInv, OneScans, At
    <2>3. Facts' BY <1>4, Untouched DEF throttle
    <2> QED BY <2>1, <2>2, <2>3 DEF ThrottleIInv, Facts
<1> QED BY <1>1, <1>2, <1>3, <1>4 DEF ThrottleNext

(* For any number of threads and processes, whatever starts, ends and      *)
(* takes numbers of others: one thread at a time reads, a sample misses    *)
(* nothing that its processes used between the scans, and without orphans  *)
(* it counts nothing that was not used.                                    *)
THEOREM SamplesAreSound == ThrottleSpec => []ThrottleInv
<1>1. ThrottleIInv => ThrottleInv
    BY DEF ThrottleIInv, ThrottleState, OneScans, Table, ThrottleInv, ThrottleTypes
<1> QED BY <1>1, ThrottleStarts, ThrottleStepKeeps, PTL DEF ThrottleSpec
=============================================================================
