----------------------------- MODULE Admission -----------------------------
(***************************************************************************)
(* How the workers of the exports of several jobs share bytes, decoder     *)
(* stages, media processes and CPU slots (src/resource_budget.rs,          *)
(* src/media_gate.rs, src/stage_limits.rs and their users in               *)
(* src/export.rs).                                                         *)
(*                                                                         *)
(* A worker enters sections: one resource, in it a decoder stage, in it    *)
(* perhaps another stage, in it a media process or a computation.  Each    *)
(* section takes permits in a fixed order, first its export's own, then    *)
(* the service's, waits for each without a place in a queue, and gives     *)
(* them back when it ends, fails, times out or is cancelled.               *)
(***************************************************************************)
EXTENDS Integers, Sequences, FiniteSets, Functions

CONSTANTS
    Jobs, Workers,
    JobOf(_),       \* the job whose export a worker belongs to
    Present,        \* the kinds of permits that are configured
    Limit(_),       \* the limit of a kind
    Bytes,          \* bytes that a resource and its dependencies may have
    Deadlines,      \* whether waits have deadlines
    Resources,      \* bounds of the model: resources of a worker,
    Sections,       \* how many sections one resource enters
    Entered         \* and which ones

Budgets == {"bundle", "allBundle"}
Kinds == Budgets \cup {"image", "acb", "usm", "hca", "audio", "video",
                       "media", "allMedia", "cpu", "allCpu"}
Shared == {"allBundle", "allMedia", "allCpu"}

ASSUME AdmissionAssumption ==
    /\ IsFiniteSet(Workers)
    /\ \A w \in Workers : JobOf(w) \in Jobs
    /\ Present \subseteq Kinds
    /\ \A k \in Kinds : Limit(k) \in Nat \ {0}
    /\ Bytes \subseteq Nat
    /\ Deadlines \in BOOLEAN
    /\ Resources \in Nat
    /\ Sections \in Nat

VARIABLES
    used,       \* the counters: of a kind's gate, by owner
    worker,     \* what each worker is in, holds and waits for
    cancelled   \* jobs whose cancel flag is set

admissionVars == <<used, worker, cancelled>>

Service == "service"
Owners == Jobs \cup {Service}
Owner(w, k) == IF k \in Shared THEN Service ELSE JobOf(w)

SectionNames == {"resource", "image", "acb", "usm", "hca", "audio", "video",
                 "media", "cpu"}

ASSUME EnteredAssumption == Entered \subseteq SectionNames

(* The permits of a section, in the order they are taken.                  *)
Chain(s) ==
    CASE s = "resource" -> <<"bundle", "allBundle">>
      [] s = "media" -> <<"media", "allMedia", "cpu", "allCpu">>
      [] s = "cpu" -> <<"cpu", "allCpu">>
      [] OTHER -> <<s>>

(* And in the order they are dropped: variables last to first, the two     *)
(* members of a tuple first to last.                                       *)
DropOrder(s) ==
    CASE s = "resource" -> <<"allBundle", "bundle">>
      [] s = "media" -> <<"cpu", "allCpu", "media", "allMedia">>
      [] OTHER -> Chain(s)

Permits(s) == {k \in Present : \E n \in DOMAIN Chain(s) : Chain(s)[n] = k}

(* The first of the kinds in S, in the order c.                            *)
Leads(c, S, k) ==
    /\ k \in S
    /\ \E n \in DOMAIN c : c[n] = k /\ \A m \in 1 .. n - 1 : c[m] \notin S

(* Mutation of Inner: a CPU slot is kept while a decoder is asked for.     *)
InnerOfCpu(s) ==
    CASE s = "resource" -> {"cpu", "image", "acb", "usm"}
      [] s = "image" -> {"cpu", "media"}
      [] s = "acb" -> {"cpu", "hca", "audio", "media"}
      [] s = "usm" -> {"cpu", "hca", "audio", "video", "media"}
      [] s = "hca" -> {"cpu"}
      [] s \in {"audio", "video"} -> {"media"}
      [] s = "cpu" -> {"acb"}
      [] OTHER -> {}

(* Mutation of Inner: the fallback to a process keeps what the library had. *)
InnerOfMedia(s) ==
    CASE s = "resource" -> {"cpu", "image", "acb", "usm"}
      [] s = "image" -> {"cpu", "media"}
      [] s = "acb" -> {"cpu", "hca", "audio", "media"}
      [] s = "usm" -> {"cpu", "hca", "audio", "video", "media"}
      [] s = "hca" -> {"cpu"}
      [] s \in {"audio", "video", "media"} -> {"media"}
      [] OTHER -> {}

(* The sections that are entered inside another one: a process also checks *)
(* an image that is not a PNG while the image stage is held, and decodes   *)
(* what was encoded from a track or a movie again after the encode stage.  *)
Inner(s) ==
    CASE s = "resource" -> {"cpu", "image", "acb", "usm"}
      [] s = "image" -> {"cpu", "media"}
      [] s = "acb" -> {"cpu", "hca", "audio", "media"}
      [] s = "usm" -> {"cpu", "hca", "audio", "video", "media"}
      [] s = "hca" -> {"cpu"}
      [] s \in {"audio", "video"} -> {"media"}
      [] OTHER -> {}

(* Mutation of Weight: the clamp is one too low, an oversized resource      *)
(* leaves room for another one.                                            *)
WeightShort(b, k) ==
    IF k \in Budgets
    THEN LET atLeast == IF b < 1 THEN 1 ELSE b
         IN IF atLeast > Limit(k) - 1 THEN Limit(k) - 1 ELSE atLeast
    ELSE 1

(* Budget::acquire clamps the weight of a resource; a gate counts ones.    *)
Weight(b, k) ==
    IF k \in Budgets
    THEN LET atLeast == IF b < 1 THEN 1 ELSE b
         IN IF atLeast > Limit(k) THEN Limit(k) ELSE atLeast
    ELSE 1

Idle(w) == worker[w].scope = <<>>
Innermost(w) == worker[w].scope[Len(worker[w].scope)]
Own(w) == Permits(Innermost(w)) \cap worker[w].held
Whole(w) == Permits(Innermost(w)) \subseteq worker[w].held
Waiting(w) == worker[w].want # {}
WaitsFor(w, k) == Leads(Chain(Innermost(w)), worker[w].want, k)

(* A refusal of the throttle drops the CPU permits last to first.          *)
GivesUp(w, k) ==
    \/ Leads(DropOrder(Innermost(w)), worker[w].held, k)
    \/ worker[w].failing /\ k = "allCpu" /\ k \in Own(w)

IsCancelled(w) == JobOf(w) \in cancelled
Failing(w) == [worker EXCEPT ![w].want = {}, ![w].failing = TRUE]

-----------------------------------------------------------------------------
(* A worker takes the next resource of its export.                         *)
Start(w, b) ==
    /\ Idle(w)
    /\ worker[w].left > 0
    /\ ~IsCancelled(w)
    /\ worker' = [worker EXCEPT ![w].scope = <<"resource">>,
                                ![w].want = Permits("resource"),
                                ![w].bytes = b,
                                ![w].left = @ - 1,
                                ![w].sections = 0]
    /\ UNCHANGED <<used, cancelled>>

Enter(w, s) ==
    /\ ~Idle(w) /\ ~Waiting(w) /\ ~worker[w].failing
    /\ Whole(w)
    /\ s \in Inner(Innermost(w))
    /\ worker[w].sections < Sections
    /\ worker' = [worker EXCEPT ![w].scope = Append(@, s),
                                ![w].want = Permits(s),
                                ![w].sections = @ + 1]
    /\ UNCHANGED <<used, cancelled>>

(* Mutation of Acquire: one more than the limit gets in. *)
AcquireOneMore(w, k) ==
    LET o == Owner(w, k) IN
    /\ WaitsFor(w, k)
    /\ ~IsCancelled(w)
    /\ used[k][o] <= Limit(k)
    /\ used' = [used EXCEPT ![k][o] = @ + Weight(worker[w].bytes, k)]
    /\ worker' = [worker EXCEPT ![w].held = @ \cup {k}, ![w].want = @ \ {k}]
    /\ UNCHANGED cancelled

(* Any of those who wait may be the first to look.                         *)
Acquire(w, k) ==
    LET o == Owner(w, k) IN
    /\ WaitsFor(w, k)
    /\ ~IsCancelled(w)
    /\ used[k][o] + Weight(worker[w].bytes, k) <= Limit(k)
    /\ used' = [used EXCEPT ![k][o] = @ + Weight(worker[w].bytes, k)]
    /\ worker' = [worker EXCEPT ![w].held = @ \cup {k}, ![w].want = @ \ {k}]
    /\ UNCHANGED cancelled

(* Mutation of TimeOut: what the section took before is never given back.  *)
TimeOutForgets(w) ==
    /\ Deadlines
    /\ \E k \in Kinds \ Budgets : WaitsFor(w, k)
    /\ worker' = [Failing(w) EXCEPT ![w].held = @ \ Own(w)]
    /\ UNCHANGED <<used, cancelled>>

(* A budget has no deadline, a gate has.                                   *)
TimeOut(w) ==
    /\ Deadlines
    /\ \E k \in Kinds \ Budgets : WaitsFor(w, k)
    /\ worker' = Failing(w)
    /\ UNCHANGED <<used, cancelled>>

SeeCancel(w) ==
    /\ Waiting(w)
    /\ IsCancelled(w)
    /\ worker' = Failing(w)
    /\ UNCHANGED <<used, cancelled>>

(* The CPU throttle, a decoder or a media process gives up.                *)
SectionFails(w) ==
    /\ ~Idle(w) /\ ~Waiting(w) /\ ~worker[w].failing
    /\ Whole(w)
    /\ worker' = Failing(w)
    /\ UNCHANGED <<used, cancelled>>

(* Mutation of Release: a worker gives back a single unit of a budget.     *)
ReleaseOne(w, k) ==
    LET o == Owner(w, k) IN
    /\ ~Idle(w) /\ ~Waiting(w)
    /\ GivesUp(w, k)
    /\ used' = [used EXCEPT ![k][o] = @ - 1]
    /\ worker' = [worker EXCEPT ![w].held = @ \ {k}]
    /\ UNCHANGED cancelled

(* Mutation of Release: an error path gives back what the drop of the      *)
(* permit gives back again.                                                *)
ReleaseTwice(w, k) ==
    LET o == Owner(w, k)
        units == IF worker[w].failing THEN 2 ELSE 1
    IN
    /\ ~Idle(w) /\ ~Waiting(w)
    /\ GivesUp(w, k)
    /\ used' = [used EXCEPT ![k][o] = @ - units * Weight(worker[w].bytes, k)]
    /\ worker' = [worker EXCEPT ![w].held = @ \ {k}]
    /\ UNCHANGED cancelled

(* Permit's drop: the counter of a gate stops at zero.                     *)
GivenBack(k, n, weight) ==
    IF k \in Budgets \/ n >= weight THEN n - weight ELSE 0

(* The innermost section ends: its permits go one after the other.         *)
Release(w, k) ==
    LET o == Owner(w, k) IN
    /\ ~Idle(w) /\ ~Waiting(w)
    /\ GivesUp(w, k)
    /\ used' = [used EXCEPT ![k][o] = GivenBack(k, @, Weight(worker[w].bytes, k))]
    /\ worker' = [worker EXCEPT ![w].held = @ \ {k}]
    /\ UNCHANGED cancelled

(* An error of a process may be followed by another attempt, one of a USM  *)
(* stream by the second pass, one of an object by the bundle's next object.*)
Tolerated(w) ==
    LET scope == worker[w].scope
        inside == IF Len(scope) > 1 THEN scope[Len(scope) - 1] ELSE "job"
    IN  \/ Innermost(w) = "media"
        \/ Innermost(w) \in {"audio", "video"} /\ inside = "usm"
        \/ Innermost(w) # "usm" /\ inside = "resource"

(* Any other error ends the enclosing section too, up to the resource,     *)
(* whose failure is reported.                                              *)
Leave(w) ==
    /\ ~Idle(w) /\ ~Waiting(w)
    /\ Own(w) = {}
    /\ \E fails \in IF Tolerated(w) THEN BOOLEAN ELSE {TRUE} :
          worker' = [worker EXCEPT
              ![w].scope = SubSeq(@, 1, Len(@) - 1),
              ![w].failing = worker[w].failing /\ fails /\ Len(worker[w].scope) > 1]
    /\ UNCHANGED <<used, cancelled>>

CancelExport(j) ==
    /\ j \notin cancelled
    /\ cancelled' = cancelled \cup {j}
    /\ UNCHANGED <<used, worker>>

AdmissionInit ==
    /\ used = [k \in Kinds |-> [o \in Owners |-> 0]]
    /\ worker = [w \in Workers |->
           [scope |-> <<>>, want |-> {}, held |-> {}, failing |-> FALSE,
            bytes |-> 0, left |-> Resources, sections |-> 0]]
    /\ cancelled = {}

Step(w) ==
    \/ \E b \in Bytes : Start(w, b)
    \/ \E s \in Entered : Enter(w, s)
    \/ \E k \in Present : Acquire(w, k) \/ Release(w, k)
    \/ TimeOut(w) \/ SeeCancel(w) \/ SectionFails(w) \/ Leave(w)

AdmissionNext == (\E w \in Workers : Step(w)) \/ (\E j \in Jobs : CancelExport(j))

AdmissionSpec == AdmissionInit /\ [][AdmissionNext]_admissionVars

-----------------------------------------------------------------------------
(* Properties *)

(* Every variable is what the code can hold.                               *)
AdmissionType ==
    /\ used \in [Kinds -> [Owners -> Nat]]
    /\ worker \in [Workers ->
           [scope: Seq(SectionNames), want: SUBSET Kinds, held: SUBSET Kinds,
            failing: BOOLEAN, bytes: Bytes \cup {0}, left: 0 .. Resources,
            sections: 0 .. Sections]]
    /\ cancelled \subseteq Jobs

(* No gate and no budget lets more in than its limit: neither an export's  *)
(* own nor the one that all jobs share.                                    *)
LimitsHold ==
    \A k \in Kinds, o \in Owners : used[k][o] <= Limit(k)

Holders(k, o) == {w \in Workers : k \in worker[w].held /\ Owner(w, k) = o}
Units(k) == [w \in Workers |-> Weight(worker[w].bytes, k)]

(* Every unit that a counter shows is held by a worker: what errors,       *)
(* timeouts and cancellations interrupt gives back all that it took.       *)
CountersExact ==
    \A k \in Kinds, o \in Owners :
        used[k][o] = SumFunctionOnSet(Units(k), Holders(k, o))

(* resource_budget.rs:32 "An oversized resource gets exclusive admission". *)
OversizedAlone ==
    \A k \in Budgets, o \in Owners :
        \A w \in Holders(k, o) :
            worker[w].bytes >= Limit(k) => Holders(k, o) = {w}

Served(w) ==
    \E k \in Present :
        /\ WaitsFor(w, k)
        /\ used[k][Owner(w, k)] + Weight(worker[w].bytes, k) <= Limit(k)

(* Workers that wait never wait for each other in a circle: without any    *)
(* deadline one of them gets its permit, or somebody else is at work.      *)
NoCircle ==
    (\E w \in Workers : Waiting(w) /\ ~IsCancelled(w))
        => \E w \in Workers :
              ~Idle(w) /\ (Waiting(w) => IsCancelled(w) \/ Served(w))
(* Types, the limits, and what an oversized resource gets.                 *)
AdmissionInv == AdmissionType /\ LimitsHold /\ OversizedAlone
=============================================================================
