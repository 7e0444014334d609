---------------------- MODULE StablePublication_proofs ----------------------
(***************************************************************************)
(* Planning the keys of an export and publishing with the stable layout,   *)
(* proved for every catalog, every offer of the resources and any number   *)
(* of publications; and the run that made the export.                      *)
(*                                                                         *)
(* First the plan: one claim keeps what was claimed before, gives the      *)
(* output a key that no other key equals in some case, and ends; the       *)
(* claims of an export, one after the other, then make a sound plan.  The  *)
(* induction over the claims is over the number of those made.  Then the   *)
(* publication, which takes the plan as it is.  Last the export: what its  *)
(* summary says, and what the verification before a publication accepts.   *)
(***************************************************************************)
EXTENDS StablePublication, ExportRun, Sums, SequenceTheorems

-----------------------------------------------------------------------------
(* One claim *)

(* A plan as the claims before made it, and a claim of an output.          *)
IsPlan(plan) ==
    /\ DOMAIN plan \subseteq Key
    /\ IsFiniteSet(DOMAIN plan)
    /\ plan = [k \in DOMAIN plan |-> plan[k]]

IsClaim(c) == c.key \in Key /\ c.key.dup = 1

(* Keys that compare equal have the same number.                           *)
LEMMA CandidateDup ==
    ASSUME NEW k \in Key, NEW n \in Nat \ {0}, NEW h \in Key, Folded(h) = Folded(Candidate(k, n))
    PROVE  h.dup = n
<1>1. Candidate(k, n).dup = n
    BY DEF Candidate, Key
<1>2. Folded(h).dup = h.dup /\ Folded(Candidate(k, n)).dup = Candidate(k, n).dup
    BY DEF Folded
<1> QED BY <1>1, <1>2

(* There are more variants than keys, and no key stands in the way of two. *)
LEMMA SomeFree ==
    ASSUME NEW plan, IsPlan(plan), NEW k \in Key
    PROVE  \E n \in Variants(plan) : Free(plan, Candidate(k, n))
<1> SUFFICES ASSUME \A n \in Variants(plan) : ~Free(plan, Candidate(k, n))
             PROVE  FALSE
    OBVIOUS
<1> DEFINE size == Cardinality(DOMAIN plan)
           f == [n \in Variants(plan) |-> CHOOSE h \in DOMAIN plan :
                    Folded(h) = Folded(Candidate(k, n))]
<1>1. size \in Nat
    BY FS_CardinalityType DEF IsPlan
<1>2. IsFiniteSet(Variants(plan)) /\ Cardinality(Variants(plan)) = size + 1
    BY <1>1, FS_Interval DEF Variants
<1>3. \A n \in Variants(plan) : f[n] \in DOMAIN plan /\ Folded(f[n]) = Folded(Candidate(k, n))
    BY DEF Free, Holders
<1>4. f \in [Variants(plan) -> DOMAIN plan]
    BY <1>3
<1>5. PICK x \in Variants(plan), y \in Variants(plan) : x # y /\ f[x] = f[y]
    <2> HIDE DEF f, size
    <2>1. IsFiniteSet(DOMAIN plan) /\ Cardinality(DOMAIN plan) < Cardinality(Variants(plan))
        BY <1>1, <1>2 DEF IsPlan, size
    <2> QED BY <1>2, <1>4, <2>1, FS_PigeonHole
<1>6. \A n \in Variants(plan) : f[n].dup = n
    <2> HIDE DEF f
    <2>1. \A n \in Variants(plan) : n \in Nat \ {0}
        BY <1>1 DEF Variants
    <2> QED BY <2>1, <1>3, CandidateDup DEF IsPlan
<1> QED BY <1>5, <1>6

(* The claim of an output settles on a variant of the key it asked for.    *)
LEMMA ClaimedSettles ==
    ASSUME NEW plan, IsPlan(plan), NEW c, IsClaim(c)
    PROVE  \E n \in Nat \ {0} : Claimed(plan, c) = Candidate(c.key, n) /\ Settles(plan, c, n)
<1> DEFINE S == {n \in Variants(plan) : Settles(plan, c, n)}
<1>1. Variants(plan) \subseteq Nat \ {0} /\ \A n \in Variants(plan) : 1 .. n - 1 \subseteq Variants(plan)
    BY FS_CardinalityType DEF IsPlan, Variants
<1>2. S # {}
    BY SomeFree DEF IsClaim, Settles
<1>3. PICK n \in S : \A m \in S : n <= m
    BY <1>1, <1>2, LeastNumber
<1>4. \A m \in 1 .. n - 1 : ~Settles(plan, c, m)
    BY <1>1, <1>3
<1> DEFINE First(m) == Settles(plan, c, m) /\ \A l \in 1 .. m - 1 : ~Settles(plan, c, l)
           chosen == CHOOSE m \in Variants(plan) : First(m)
<1>5. First(n)
    BY <1>3, <1>4
<1>6. chosen \in Variants(plan) /\ First(chosen)
    BY <1>3, <1>5
<1>7. Claimed(plan, c) = Candidate(c.key, chosen)
    BY DEF Claimed
<1> QED BY <1>1, <1>6, <1>7

(* Keys that compare equal to a candidate are variants of its key.         *)
LEMMA CandidateVariant ==
    ASSUME NEW k \in Key, k.dup = 1, NEW n \in Nat \ {0},
           NEW h \in Key, Folded(h) = Folded(Candidate(k, n))
    PROVE  Variant(h, k)
<1> DEFINE g == [h EXCEPT !.dup = 1]
<1>1. /\ Candidate(k, n).container = k.container /\ Candidate(k, n).inside = k.inside
      /\ Candidate(k, n).cue = k.cue
    BY DEF Candidate, Key
<1>2. g.container = h.container /\ g.inside = h.inside /\ g.cue = h.cue /\ g.dup = 1
    BY DEF Key
<1>3. /\ Folded(h).container = Folded(Candidate(k, n)).container
      /\ Folded(h).inside = Folded(Candidate(k, n)).inside
      /\ Folded(h).cue = Folded(Candidate(k, n)).cue
    OBVIOUS
<1>4. Folded(g).container = Folded(h).container /\ Folded(g).cue = Folded(h).cue
    BY <1>2 DEF Folded
<1>5. Folded(g).inside = Folded(h).inside
    BY <1>2 DEF Folded
<1>6. Folded(Candidate(k, n)).container = Folded(k).container /\ Folded(Candidate(k, n)).cue = Folded(k).cue
    BY <1>1 DEF Folded
<1>7. Folded(Candidate(k, n)).inside = Folded(k).inside
    BY <1>1 DEF Folded
<1>8. Folded(g).dup = Folded(k).dup
    BY <1>2 DEF Folded
<1>9. Folded(g) = Folded(k)
    <2>1. \A a, b : /\ Folded(a).container = Folded(b).container /\ Folded(a).cue = Folded(b).cue
                    /\ Folded(a).inside = Folded(b).inside /\ Folded(a).dup = Folded(b).dup
                    => Folded(a) = Folded(b)
        BY DEF Folded
    <2> QED BY <1>3, <1>4, <1>5, <1>6, <1>7, <1>8, <2>1
<1> QED BY <1>9 DEF Variant

(* A claim keeps every entry of the plan as it is, publishes the output's  *)
(* content under a variant of the key it asked for, and the keys of the    *)
(* plan still differ in more than case (claim of stable_layout.rs).        *)
THEOREM ClaimSound ==
    ASSUME NEW plan, IsPlan(plan), CaseApart(plan), NEW c, IsClaim(c)
    PROVE  /\ IsPlan(Claim(plan, c))
           /\ CaseApart(Claim(plan, c))
           /\ \A h \in DOMAIN plan : h \in DOMAIN Claim(plan, c) /\ Claim(plan, c)[h] = plan[h]
           /\ \E k \in DOMAIN Claim(plan, c) :
                Variant(k, c.key) /\ Claim(plan, c)[k].content = c.content
           /\ \A k \in DOMAIN Claim(plan, c) \ DOMAIN plan :
                /\ Variant(k, c.key)
                /\ Claim(plan, c)[k] = [content |-> c.content, source |-> c.source]
<1> DEFINE k == Claimed(plan, c)
<1>1. PICK n \in Nat \ {0} : k = Candidate(c.key, n) /\ Settles(plan, c, n)
    BY ClaimedSettles
<1>2. k \in Key
    BY <1>1 DEF IsClaim, Candidate, Key
<1>3. CASE Free(plan, k)
    <2> DEFINE new == [x \in DOMAIN plan \cup {k} |->
                          IF x = k THEN [content |-> c.content, source |-> c.source] ELSE plan[x]]
    <2>1. Claim(plan, c) = new
        BY <1>3 DEF Claim
    <2>2. k \notin DOMAIN plan
        BY <1>3 DEF Free, Holders
    <2>3. IsPlan(new)
        BY <1>2, FS_AddElement DEF IsPlan
    <2>4. CaseApart(new)
        BY <1>3 DEF CaseApart, Free, Holders
    <2>5. Variant(k, c.key)
        BY <1>1, <1>2, CandidateVariant DEF IsClaim
    <2>6. new[k].content = c.content
        OBVIOUS
    <2> HIDE DEF k
    <2> QED BY <2>1, <2>2, <2>3, <2>4, <2>5, <2>6
<1>4. CASE ~Free(plan, k)
    <2>1. Claim(plan, c) = plan
        BY <1>4 DEF Claim
    <2>2. PICK h \in Holders(plan, k) : plan[h].content = c.content
        BY <1>1, <1>4 DEF Settles, Shared
    <2>3. h \in DOMAIN plan /\ h \in Key /\ Folded(h) = Folded(Candidate(c.key, n))
        BY <1>1, <2>2 DEF Holders, IsPlan
    <2>4. Variant(h, c.key)
        BY <2>3, CandidateVariant DEF IsClaim
    <2> QED BY <2>1, <2>2, <2>3, <2>4
<1> QED BY <1>3, <1>4

-----------------------------------------------------------------------------
(* The keys that an export asks for *)

TaggedOutput == [source: Sources, output: Output]
FirstKey == {k \in Key : k.dup = 1}
ClaimOf == [key: FirstKey, content: Contents, source: Sources]

(* An export gives outputs of every resource of the catalog.               *)
IsExport(export) == \A s \in Sources : export.outputs[s] \in Seq(Output)

LEMMA LowerAgain ==
    /\ \A c \in Containers \cup {Lower(d) : d \in Containers} :
          Lower(c) \in {Lower(d) : d \in Containers}
    /\ \A n \in Names \cup {Lower(m) : m \in Names} \cup {NoName} :
          Lower(n) \in Names \cup {Lower(m) : m \in Names} \cup {NoName}
BY NamesAssumption

LEMMA FoldedKey ==
    ASSUME NEW k \in Key
    PROVE  Folded(k) \in Key /\ Folded(k).dup = k.dup
<1> DEFINE low == [n \in DOMAIN k.inside |->
                     <<k.inside[n][1], Lower(k.inside[n][2]), k.inside[n][3]>>]
           Inside == Classes \X (Names \cup {Lower(n) : n \in Names} \cup {NoName}) \X Nat
<1>1. /\ k.container \in Containers \cup {Lower(d) : d \in Containers}
      /\ k.cue \in Names \cup {Lower(m) : m \in Names} \cup {NoName}
      /\ k.inside \in Seq(Inside) /\ k.dup \in Nat \ {0}
    BY DEF Key
<1>2. /\ Lower(k.container) \in Containers \cup {Lower(d) : d \in Containers}
      /\ Lower(k.cue) \in Names \cup {Lower(m) : m \in Names} \cup {NoName}
    BY <1>1, LowerAgain
<1>3. low \in Seq(Inside)
    <2>1. Len(k.inside) \in Nat /\ DOMAIN k.inside = 1 .. Len(k.inside)
        BY <1>1
    <2>2. ASSUME NEW n \in 1 .. Len(k.inside) PROVE low[n] \in Inside
        <3>1. k.inside[n] \in Inside
            BY <1>1, <2>2
        <3>2. Lower(k.inside[n][2]) \in Names \cup {Lower(m) : m \in Names} \cup {NoName}
            BY <3>1, LowerAgain
        <3> QED BY <3>1, <3>2, <2>1
    <2>3. low \in [1 .. Len(k.inside) -> Inside]
        BY <2>1, <2>2
    <2> HIDE DEF low, Inside
    <2> QED BY <2>1, <2>3
<1> HIDE DEF low
<1>4. Folded(k) = [container |-> Lower(k.container), inside |-> low, cue |-> Lower(k.cue),
                   dup |-> k.dup]
    BY DEF Folded, low
<1> QED BY <1>1, <1>2, <1>3, <1>4 DEF Key

LEMMA NumberIn ==
    ASSUME NEW outs \in Seq(TaggedOutput), NEW o
    PROVE  Number(outs, o) \in Nat
<1> DEFINE same == Unnamed(outs, o)
           before == {n \in same : \A m \in same : outs[m].output.id = o.id => n < m}
           T == {outs[n].output.id : n \in before}
           f == [n \in before |-> outs[n].output.id]
<1>1. IsFiniteSet(DOMAIN outs)
    BY FS_Interval
<1>2. before \subseteq DOMAIN outs
    BY DEF Unnamed
<1>3. IsFiniteSet(before)
    <2> HIDE DEF before
    <2> QED BY <1>1, <1>2, FS_Subset
<1>4. f \in Surjection(before, T)
    <2> HIDE DEF before
    <2> QED BY DEF Surjection
<1>5. IsFiniteSet(T)
    <2> HIDE DEF before, T, f
    <2> QED BY <1>3, <1>4, FS_Surjection
<1>6. Cardinality(T) \in Nat
    <2> HIDE DEF T
    <2> QED BY <1>5, FS_CardinalityType
<1> QED BY <1>6 DEF Number

LEMMA BaseIn ==
    ASSUME NEW outs \in Seq(TaggedOutput), NEW o \in Output
    PROVE  Base(outs, o) \in FirstKey
<1> DEFINE number == IF o.name = NoName THEN Number(outs, o) ELSE 0
           Inside == Classes \X (Names \cup {Lower(n) : n \in Names} \cup {NoName}) \X Nat
           inside == IF Flat(outs, o) THEN <<>> ELSE <<<<o.class, o.name, number>>>>
<1>1. number \in Nat
    BY NumberIn
<1>2. o.container \in Containers /\ o.class \in Classes /\ o.name \in Names \cup {NoName}
    BY DEF Output
<1>3. <<o.class, o.name, number>> \in Inside
    <2> HIDE DEF number
    <2> QED BY <1>1, <1>2
<1>4. inside \in Seq(Inside)
    <2> HIDE DEF number, Inside
    <2> QED BY <1>3
<1>5. Base(outs, o) = [container |-> o.container, inside |-> inside, cue |-> NoName, dup |-> 1]
    BY DEF Base
<1> HIDE DEF inside
<1> QED BY <1>2, <1>4, <1>5 DEF FirstKey, Key

LEMMA AskedIn ==
    ASSUME NEW outs \in Seq(TaggedOutput), NEW o \in Output
    PROVE  Asked(outs, o) \in Seq(FirstKey)
<1> DEFINE base == Base(outs, o)
           keys == IF o.cues = <<>> THEN <<base>>
                   ELSE [n \in DOMAIN o.cues |-> [base EXCEPT !.cue = o.cues[n]]]
<1>1. base \in FirstKey
    BY BaseIn
<1>2. o.cues \in Seq(Names) /\ Len(o.cues) \in Nat /\ DOMAIN o.cues = 1 .. Len(o.cues)
    BY DEF Output
<1> HIDE DEF base
<1>3. keys \in Seq(FirstKey)
    <2>1. CASE o.cues = <<>>
        BY <1>1, <2>1
    <2>2. CASE o.cues # <<>>
        <3>1. ASSUME NEW n \in 1 .. Len(o.cues)
              PROVE  [base EXCEPT !.cue = o.cues[n]] \in FirstKey
            <4>1. o.cues[n] \in Names
                BY <1>2, <3>1
            <4> QED BY <1>1, <4>1 DEF FirstKey, Key
        <3>2. keys \in [1 .. Len(o.cues) -> FirstKey]
            BY <1>2, <2>2, <3>1
        <3> HIDE DEF keys
        <3> QED BY <1>2, <3>2
    <2> QED BY <2>1, <2>2
<1> HIDE DEF keys
<1>4. [n \in DOMAIN keys |-> Folded(keys[n])] \in Seq(FirstKey)
    <2>1. Len(keys) \in Nat /\ DOMAIN keys = 1 .. Len(keys)
        BY <1>3
    <2>2. ASSUME NEW n \in 1 .. Len(keys) PROVE Folded(keys[n]) \in FirstKey
        <3>1. keys[n] \in FirstKey
            BY <1>3, <2>2
        <3> QED BY <3>1, FoldedKey DEF FirstKey
    <2>3. [n \in DOMAIN keys |-> Folded(keys[n])] \in [1 .. Len(keys) -> FirstKey]
        BY <2>1, <2>2
    <2> QED BY <2>1, <2>3
<1>5. Asked(outs, o) = IF Lowercase THEN [n \in DOMAIN keys |-> Folded(keys[n])] ELSE keys
    BY DEF Asked, keys, base
<1> QED BY <1>3, <1>4, <1>5

LEMMA ListingIn ==
    ASSUME NEW export, IsExport(export)
    PROVE  Listing(export) \in Seq(TaggedOutput)
<1> DEFINE parts == [n \in DOMAIN Catalog |-> Tagged(export, Catalog[n])]
<1>1. Catalog \in Seq(Sources) /\ Len(Catalog) \in Nat /\ DOMAIN Catalog = 1 .. Len(Catalog)
    BY NamesAssumption
<1>2. ASSUME NEW s \in Sources PROVE Tagged(export, s) \in Seq(TaggedOutput)
    <2> DEFINE outputs == export.outputs[s]
               tagged == [n \in DOMAIN outputs |-> [source |-> s, output |-> outputs[n]]]
    <2>1. outputs \in Seq(Output)
        BY DEF IsExport
    <2> HIDE DEF outputs
    <2>2. Len(outputs) \in Nat /\ DOMAIN outputs = 1 .. Len(outputs)
        BY <2>1
    <2>3. tagged \in [1 .. Len(outputs) -> TaggedOutput]
        BY <2>1, <2>2 DEF TaggedOutput
    <2>4. tagged \in Seq(TaggedOutput)
        <3> HIDE DEF tagged
        <3> QED BY <2>2, <2>3
    <2>5. Tagged(export, s) = IF s \in export.failed THEN <<>> ELSE tagged
        BY DEF Tagged, outputs
    <2> QED BY <2>4, <2>5
<1>3. \A n \in 1 .. Len(Catalog) : Catalog[n] \in Sources
    BY <1>1
<1>4. parts \in [1 .. Len(Catalog) -> Seq(TaggedOutput)]
    BY <1>1, <1>2, <1>3
<1>5. parts \in Seq(Seq(TaggedOutput))
    <2> HIDE DEF parts
    <2> QED BY <1>1, <1>4
<1>6. Listing(export) = FlattenSeq(parts)
    BY DEF Listing
<1> HIDE DEF parts
<1> QED BY <1>5, <1>6, FlattenIn

LEMMA ClaimsIn ==
    ASSUME NEW export, IsExport(export)
    PROVE  Claims(export) \in Seq(ClaimOf)
<1> DEFINE outs == Listing(export)
           parts == [n \in DOMAIN outs |-> ClaimsOf(outs, outs[n])]
<1>1. outs \in Seq(TaggedOutput)
    BY ListingIn
<1>2. Claims(export) = FlattenSeq(parts)
    BY DEF Claims
<1> HIDE DEF outs
<1>3. Len(outs) \in Nat /\ DOMAIN outs = 1 .. Len(outs) /\ \A n \in 1 .. Len(outs) : outs[n] \in TaggedOutput
    BY <1>1
<1>4. ASSUME NEW t \in TaggedOutput PROVE ClaimsOf(outs, t) \in Seq(ClaimOf)
    <2> DEFINE asked == Asked(outs, t.output)
               claims == [n \in DOMAIN asked |->
                             [key |-> asked[n], content |-> t.output.content, source |-> t.source]]
    <2>1. t.output \in Output /\ t.source \in Sources /\ t.output.content \in Contents
        BY DEF TaggedOutput, Output
    <2>2. asked \in Seq(FirstKey)
        BY <1>1, <2>1, AskedIn
    <2> HIDE DEF asked
    <2>3. Len(asked) \in Nat /\ DOMAIN asked = 1 .. Len(asked) /\ \A n \in 1 .. Len(asked) : asked[n] \in FirstKey
        BY <2>2
    <2>4. claims \in [1 .. Len(asked) -> ClaimOf]
        BY <2>1, <2>3 DEF ClaimOf
    <2>5. claims \in Seq(ClaimOf)
        <3> HIDE DEF claims
        <3> QED BY <2>3, <2>4
    <2> QED BY <2>5 DEF ClaimsOf, asked
<1>5. parts \in [1 .. Len(outs) -> Seq(ClaimOf)]
    BY <1>3, <1>4
<1>6. parts \in Seq(Seq(ClaimOf))
    <2> HIDE DEF parts
    <2> QED BY <1>3, <1>5
<1> HIDE DEF parts
<1> QED BY <1>2, <1>6, FlattenIn

-----------------------------------------------------------------------------
(* The claims of a plan, one after the other *)

Highest(s) == Max(s)

Folding(f, C, n) ==
    f = [s \in SUBSET (1 .. n) |->
           IF s = {} THEN <<>> ELSE Claim(f[s \ {Highest(s)}], C[Highest(s)])]

LEMMA PlannedByRecursion ==
    ASSUME NEW export, NEW n \in Nat, DOMAIN Claims(export) = 1 .. n
    PROVE  Planned(export) = (CHOOSE f : Folding(f, Claims(export), n))[1 .. n]
BY Zenon DEF Planned, FoldLeft, MapThenFoldSet, Folding, Highest

LEMMA HighestOf ==
    ASSUME NEW n \in Nat, NEW s \in SUBSET (1 .. n + 1), n + 1 \in s
    PROVE  Highest(s) = n + 1
<1>1. \A y \in s : n + 1 >= y
    OBVIOUS
<1>2. \A x \in s : (\A y \in s : x >= y) => x = n + 1
    OBVIOUS
<1> QED BY <1>1, <1>2 DEF Highest, Max

LEMMA HighestBelow ==
    ASSUME NEW n \in Nat, NEW s \in SUBSET (1 .. n)
    PROVE  s \ {Highest(s)} \in SUBSET (1 .. n)
OBVIOUS

LEMMA FoldingAt ==
    ASSUME NEW C, NEW n, NEW f, Folding(f, C, n), NEW s \in SUBSET (1 .. n)
    PROVE  f[s] = IF s = {} THEN <<>> ELSE Claim(f[s \ {Highest(s)}], C[Highest(s)])
BY Zenon DEF Folding

LEMMA FoldingOne ==
    ASSUME NEW C, NEW n \in Nat, NEW f, Folding(f, C, n)
    PROVE  \E g : Folding(g, C, n + 1)
<1> DEFINE g == [s \in SUBSET (1 .. n + 1) |->
                    IF n + 1 \in s THEN Claim(f[s \ {n + 1}], C[n + 1]) ELSE f[s]]
<1>1. ASSUME NEW s \in SUBSET (1 .. n + 1), n + 1 \notin s
      PROVE  s \in SUBSET (1 .. n) /\ g[s] = f[s]
    BY <1>1
<1>2. ASSUME NEW s \in SUBSET (1 .. n + 1)
      PROVE  g[s] = IF s = {} THEN <<>> ELSE Claim(g[s \ {Highest(s)}], C[Highest(s)])
    <2>1. CASE n + 1 \in s
        <3>1. Highest(s) = n + 1
            BY <2>1, HighestOf
        <3>2. s \ {n + 1} \in SUBSET (1 .. n + 1) /\ n + 1 \notin s \ {n + 1}
            OBVIOUS
        <3>3. g[s \ {n + 1}] = f[s \ {n + 1}]
            BY <3>2, <1>1
        <3>4. g[s] = Claim(f[s \ {n + 1}], C[n + 1])
            BY <2>1
        <3> QED BY <2>1, <3>1, <3>3, <3>4
    <2>2. CASE n + 1 \notin s
        <3>1. s \in SUBSET (1 .. n) /\ g[s] = f[s]
            BY <2>2, <1>1
        <3>2. s \ {Highest(s)} \in SUBSET (1 .. n + 1) /\ n + 1 \notin s \ {Highest(s)}
            BY <2>2
        <3>3. g[s \ {Highest(s)}] = f[s \ {Highest(s)}]
            BY <3>2, <1>1
        <3>4. f[s] = IF s = {} THEN <<>> ELSE Claim(f[s \ {Highest(s)}], C[Highest(s)])
            BY <3>1, FoldingAt
        <3> HIDE DEF g
        <3> QED BY <3>1, <3>3, <3>4
    <2> QED BY <2>1, <2>2
<1>3. Folding(g, C, n + 1)
    BY <1>2 DEF Folding
<1> QED BY <1>3

LEMMA FoldingSome ==
    ASSUME NEW C, NEW n \in Nat
    PROVE  \E f : Folding(f, C, n)
<1> DEFINE Good == {m \in Nat : \E f : Folding(f, C, m)}
<1>1. 0 \in Good
    <2> DEFINE e == [s \in SUBSET (1 .. 0) |-> <<>>]
    <2>1. \A s \in SUBSET (1 .. 0) : s = {}
        OBVIOUS
    <2>2. Folding(e, C, 0)
        BY <2>1 DEF Folding
    <2> QED BY <2>2
<1>2. ASSUME NEW m \in Nat, m \in Good PROVE m + 1 \in Good
    BY <1>2, FoldingOne
<1>3. Nat \subseteq Good
    <2> HIDE DEF Good
    <2> QED BY <1>1, <1>2, CountUp
<1> QED BY <1>3

(* The plan as each claim leaves it.                                       *)
LEMMA PlannedSteps ==
    ASSUME NEW export, IsExport(export)
    PROVE  \E p : /\ p[0] = <<>>
                  /\ Planned(export) = p[Len(Claims(export))]
                  /\ \A n \in Nat : n + 1 <= Len(Claims(export)) =>
                        p[n + 1] = Claim(p[n], Claims(export)[n + 1])
<1> DEFINE C == Claims(export)
           len == Len(C)
           f == CHOOSE f : Folding(f, C, len)
           p == [n \in 0 .. len |-> f[1 .. n]]
<1>1. len \in Nat /\ DOMAIN C = 1 .. len
    BY ClaimsIn
<1>2. Planned(export) = f[1 .. len]
    BY <1>1, PlannedByRecursion
<1>3. Folding(f, C, len)
    BY <1>1, FoldingSome
<1> HIDE DEF f, C, len
<1>4. p[0] = <<>>
    <2>1. 1 .. 0 = {} /\ 1 .. 0 \in SUBSET (1 .. len)
        OBVIOUS
    <2>2. f[1 .. 0] = <<>>
        BY <2>1, <1>3, FoldingAt
    <2> QED BY <2>2, <1>1
<1>5. ASSUME NEW n \in Nat, n + 1 <= len
      PROVE  p[n + 1] = Claim(p[n], C[n + 1])
    <2> DEFINE s == 1 .. n + 1
    <2>1. s \in SUBSET (1 .. len)
        <3>1. \A i \in s : i \in 1 .. len
            BY <1>1, <1>5
        <3> QED BY <3>1
    <2>2. n + 1 \in s /\ s \in SUBSET (1 .. n + 1) /\ s \ {n + 1} = 1 .. n
        OBVIOUS
    <2>3. Highest(s) = n + 1
        <3> HIDE DEF s
        <3> QED BY <2>2, HighestOf
    <2>4. f[s] = Claim(f[1 .. n], C[n + 1])
        <3> HIDE DEF s
        <3>1. f[s] = IF s = {} THEN <<>> ELSE Claim(f[s \ {Highest(s)}], C[Highest(s)])
            BY <2>1, <1>3, FoldingAt
        <3> QED BY <3>1, <2>2, <2>3
    <2>5. p[n + 1] = f[1 .. n + 1] /\ p[n] = f[1 .. n]
        BY <1>1, <1>5
    <2> QED BY <2>4, <2>5
<1>6. Planned(export) = p[len]
    BY <1>1, <1>2
<1> HIDE DEF p
<1> QED BY <1>4, <1>5, <1>6 DEF C, len

-----------------------------------------------------------------------------
(* The plan that the first n claims of C made.                             *)
Made(plan, C, n) ==
    /\ IsPlan(plan)
    /\ CaseApart(plan)
    /\ \A i \in 1 .. n :
          \E k \in DOMAIN plan : Variant(k, C[i].key) /\ plan[k].content = C[i].content
    /\ \A k \in DOMAIN plan :
          \E i \in 1 .. n : /\ Variant(k, C[i].key)
                           /\ plan[k] = [content |-> C[i].content, source |-> C[i].source]

LEMMA MadeNone == ASSUME NEW C PROVE Made(<<>>, C, 0)
<1>1. DOMAIN <<>> = {}
    OBVIOUS
<1>2. IsFiniteSet({})
    BY FS_EmptySet
<1> QED BY <1>1, <1>2 DEF Made, IsPlan, CaseApart

LEMMA MadeOne ==
    ASSUME NEW plan, NEW C, NEW n \in Nat, Made(plan, C, n), IsClaim(C[n + 1])
    PROVE  Made(Claim(plan, C[n + 1]), C, n + 1)
<1> DEFINE c == C[n + 1]
           grown == Claim(plan, c)
<1>1. IsPlan(plan) /\ CaseApart(plan)
    BY DEF Made
<1>2. /\ IsPlan(grown) /\ CaseApart(grown)
      /\ \A h \in DOMAIN plan : h \in DOMAIN grown /\ grown[h] = plan[h]
      /\ \E k \in DOMAIN grown : Variant(k, c.key) /\ grown[k].content = c.content
      /\ \A k \in DOMAIN grown \ DOMAIN plan :
            Variant(k, c.key) /\ grown[k] = [content |-> c.content, source |-> c.source]
    BY <1>1, ClaimSound
<1> HIDE DEF grown
<1>3. ASSUME NEW i \in 1 .. n + 1
      PROVE  \E k \in DOMAIN grown : Variant(k, C[i].key) /\ grown[k].content = C[i].content
    <2>1. CASE i = n + 1
        BY <2>1, <1>2
    <2>2. CASE i # n + 1
        <3>1. i \in 1 .. n
            BY <2>2
        <3> QED BY <3>1, <1>2 DEF Made
    <2> QED BY <2>1, <2>2
<1>4. ASSUME NEW k \in DOMAIN grown
      PROVE  \E i \in 1 .. n + 1 : /\ Variant(k, C[i].key)
                                 /\ grown[k] = [content |-> C[i].content, source |-> C[i].source]
    <2>1. CASE k \in DOMAIN plan
        <3>1. PICK i \in 1 .. n : /\ Variant(k, C[i].key)
                                  /\ plan[k] = [content |-> C[i].content, source |-> C[i].source]
            BY <2>1 DEF Made
        <3>2. i \in 1 .. n + 1
            OBVIOUS
        <3> QED BY <2>1, <3>1, <3>2, <1>2
    <2>2. CASE k \notin DOMAIN plan
        <3>1. n + 1 \in 1 .. n + 1
            OBVIOUS
        <3> QED BY <2>2, <3>1, <1>2
    <2> QED BY <2>1, <2>2
<1> QED BY <1>2, <1>3, <1>4 DEF Made, grown

(* All claims of an export together: no two keys of its plan differ in     *)
(* case only, every output is under a key it asked for or a variant of it  *)
(* with its own content, and nothing else is there (plan_resources).       *)
THEOREM PlansAreSound ==
    ASSUME NEW export, IsExport(export)
    PROVE  /\ CaseApart(Planned(export))
           /\ AllPlanned(Planned(export), export)
           /\ \A k \in DOMAIN Planned(export) : k \in Key /\ Planned(export)[k] \in Entry
<1> DEFINE C == Claims(export)
           len == Len(C)
<1>1. C \in Seq(ClaimOf) /\ len \in Nat /\ DOMAIN C = 1 .. len
    BY ClaimsIn
<1>2. ASSUME NEW i \in 1 .. len PROVE C[i] \in ClaimOf /\ IsClaim(C[i])
    <2>1. C[i] \in ClaimOf
        <3> HIDE DEF C
        <3> QED BY <1>1
    <2> QED BY <2>1 DEF ClaimOf, FirstKey, IsClaim
<1>3. PICK p : /\ p[0] = <<>> /\ Planned(export) = p[len]
               /\ \A n \in Nat : n + 1 <= len => p[n + 1] = Claim(p[n], C[n + 1])
    BY PlannedSteps
<1> HIDE DEF C, len
<1>4. Made(p[len], C, len)
    <2> DEFINE Good == {n \in Nat : n <= len => Made(p[n], C, n)}
    <2>1. 0 \in Good
        BY <1>3, MadeNone
    <2>2. ASSUME NEW n \in Nat, n \in Good PROVE n + 1 \in Good
        <3>1. SUFFICES ASSUME n + 1 <= len PROVE Made(p[n + 1], C, n + 1)
            OBVIOUS
        <3>2. Made(p[n], C, n) /\ n + 1 \in 1 .. len
            BY <1>1, <2>2, <3>1
        <3>3. p[n + 1] = Claim(p[n], C[n + 1])
            BY <1>3, <3>1
        <3> QED BY <1>2, <3>2, <3>3, MadeOne
    <2>3. Nat \subseteq Good
        <3> HIDE DEF Good
        <3> QED BY <2>1, <2>2, CountUp
    <2> QED BY <1>1, <2>3
<1>5. ToSet(C) = {C[i] : i \in 1 .. len}
    BY <1>1 DEF ToSet
<1>6. AllPlanned(p[len], export)
    BY <1>4, <1>5 DEF AllPlanned, Made, C
<1>7. ASSUME NEW k \in DOMAIN p[len] PROVE k \in Key /\ p[len][k] \in Entry
    <2>1. PICK i \in 1 .. len : p[len][k] = [content |-> C[i].content, source |-> C[i].source]
        BY <1>4 DEF Made
    <2> QED BY <1>2, <1>4, <2>1 DEF Made, IsPlan, Entry, ClaimOf
<1> QED BY <1>3, <1>4, <1>6, <1>7 DEF Made

-----------------------------------------------------------------------------
(* The publication *)

Fields == {"stage", "export", "plan", "failed", "previous", "todo", "changed"}

(* The stages that work with the manifest they read.                       *)
Working == {"uploading", "pruning", "manifest"}

RunShape == run = NoRun \/ (run.stage \in Stages /\ DOMAIN run = Fields)

Changed == IF run = NoRun THEN {} ELSE run.changed

ManifestRead == run.stage \in Working => run.previous = manifest

IdleChanged == run.stage \notin Working => Changed = {}

TodoOwn ==
    /\ run.stage = "uploading" => run.todo \subseteq Pending(run.plan, run.previous)
    /\ run.stage = "pruning" => run.todo \subseteq Prunable(run)

(* A key is skipped, waits, or was uploaded.                               *)
Skipped(k) ==
    /\ k \in DOMAIN run.previous
    /\ run.previous[k].content = run.plan[k].content
    /\ k \notin run.changed

Delivered(k) == k \in run.changed /\ k \in DOMAIN tree /\ tree[k] = run.plan[k].content

PlanStands ==
    run.stage \in Working =>
        \A k \in DOMAIN run.plan :
            Skipped(k) \/ Delivered(k) \/ (run.stage = "uploading" /\ k \in run.todo)

(* No key that only the new manifest's carried part lists is touched.      *)
CarriedStand ==
    run.stage \in Working => \A k \in run.changed : k \in DOMAIN run.plan \/ k \notin Listed(run)

TreeStands == \A k \in DOMAIN manifest : k \in torn \/ k \in Changed \/ Stored(k)

IInv ==
    /\ RunShape
    /\ ManifestRead
    /\ IdleChanged
    /\ TodoOwn
    /\ PlanStands
    /\ CarriedStand
    /\ TreeStands

-----------------------------------------------------------------------------
LEMMA IdleRun == NoRun.stage = "idle" /\ "idle" \notin Stages /\ Working \subseteq Stages
BY DEF NoRun, Stages, Working

LEMMA InitIInv == Init => IInv
BY IdleRun DEF Init, IInv, RunShape, ManifestRead, IdleChanged, TodoOwn, PlanStands, CarriedStand,
    TreeStands, Changed, Working

(* However a publication ends, what it changed is torn.                    *)
LEMMA EndIInv ==
    ASSUME IInv, run' = NoRun, manifest' = manifest,
           \A k \in DOMAIN manifest : k \in torn \/ k \in Changed => k \in torn',
           \A k \in DOMAIN manifest : k \in torn' \/ (Stored(k) => Stored(k)')
    PROVE  IInv'
<1>1. TreeStands'
    BY DEF IInv, TreeStands
<1> QED BY <1>1, IdleRun DEF IInv, RunShape, ManifestRead, IdleChanged, TodoOwn, PlanStands,
    CarriedStand, Changed, Working

(* Between its first and last object a publication goes on.                *)
LEMMA BeginIInv ==
    ASSUME IInv, NEW export, Begin(export)
    PROVE  IInv'
<1>1. /\ run'.stage = "reading" /\ DOMAIN run' = Fields /\ run'.changed = {}
      /\ run' # NoRun
    BY DEF Begin, Fields, NoRun
<1>2. Changed = {} /\ Changed' = {}
    BY <1>1 DEF Changed, Begin
<1>3. TreeStands'
    BY <1>2 DEF IInv, TreeStands, Begin, Stored
<1> QED BY <1>1, <1>2, <1>3 DEF IInv, RunShape, ManifestRead, IdleChanged, TodoOwn, PlanStands,
    CarriedStand, Working, Stages

(* A run that is under way has its fields.                                 *)
LEMMA RunFields ==
    ASSUME IInv, run.stage \in Stages
    PROVE  DOMAIN run = Fields /\ run # NoRun /\ Changed = run.changed
BY IdleRun DEF IInv, RunShape, Changed

LEMMA ReadIInv ==
    ASSUME IInv, ReadManifest
    PROVE  IInv'
<1>1. DOMAIN run = Fields /\ run # NoRun
    BY RunFields DEF ReadManifest, Stages
<1>2. /\ run'.stage = "uploading" /\ run'.previous = manifest /\ run'.plan = run.plan
      /\ run'.todo = Pending(run.plan, manifest) /\ run'.changed = run.changed
      /\ DOMAIN run' = Fields /\ run' # NoRun
    BY <1>1, IdleRun DEF ReadManifest, Fields, Stages
<1>3. run.changed = {} /\ Changed = {} /\ Changed' = {}
    BY <1>1, <1>2 DEF IInv, IdleChanged, Changed, ReadManifest, Working
<1>4. TreeStands'
    BY <1>3 DEF IInv, TreeStands, ReadManifest, Stored
<1>5. PlanStands'
    BY <1>2, <1>3 DEF PlanStands, Skipped, Delivered, Pending, ReadManifest
<1> QED BY <1>2, <1>3, <1>4, <1>5 DEF RunShape, ManifestRead, IdleChanged, TodoOwn,
    CarriedStand, Working, Stages, IInv, ReadManifest

LEMMA UploadIInv ==
    ASSUME IInv, NEW k, Upload(k)
    PROVE  IInv'
<1>1. DOMAIN run = Fields /\ run # NoRun /\ Changed = run.changed
    BY RunFields DEF Upload, Stages
<1>2. /\ run'.stage = "uploading" /\ run'.previous = run.previous /\ run'.plan = run.plan
      /\ run'.failed = run.failed
      /\ run'.todo = run.todo \ {k} /\ run'.changed = run.changed \cup {k}
      /\ DOMAIN run' = Fields /\ run' # NoRun
    BY <1>1, IdleRun DEF Upload, Fields, Stages
<1>3. k \in DOMAIN run.plan
    BY DEF IInv, TodoOwn, Upload, Pending
<1>4. /\ DOMAIN tree' = DOMAIN tree \cup {k} /\ tree'[k] = run.plan[k].content
      /\ \A x \in DOMAIN tree : x # k => tree'[x] = tree[x]
    BY DEF Upload, Put
<1>5. TreeStands'
    BY <1>1, <1>2, <1>4 DEF IInv, TreeStands, Upload, Stored, Changed
<1>6. PlanStands'
    <2> SUFFICES ASSUME NEW x \in DOMAIN run.plan
                 PROVE  Skipped(x)' \/ Delivered(x)' \/ x \in run'.todo
        BY <1>2 DEF PlanStands
    <2>1. CASE x = k
        BY <2>1, <1>2, <1>4 DEF Delivered
    <2>2. CASE x # k
        BY <2>2, <1>2, <1>4 DEF IInv, PlanStands, Skipped, Delivered, Upload, Working
    <2> QED BY <2>1, <2>2
<1>7. CarriedStand'
    BY <1>2, <1>3 DEF CarriedStand, IInv, Listed, Carried, Upload, Working
<1> QED BY <1>2, <1>5, <1>6, <1>7 DEF RunShape, ManifestRead, IdleChanged, TodoOwn,
    Working, Stages, IInv, Upload

LEMMA UploadedIInv ==
    ASSUME IInv, Uploaded
    PROVE  IInv'
<1>1. DOMAIN run = Fields /\ run # NoRun /\ Changed = run.changed
    BY RunFields DEF Uploaded, Stages
<1>2. /\ run'.stage = "pruning" /\ run'.previous = run.previous /\ run'.plan = run.plan
      /\ run'.failed = run.failed
      /\ run'.todo = Prunable(run) /\ run'.changed = run.changed
      /\ DOMAIN run' = Fields /\ run' # NoRun
    BY <1>1, IdleRun DEF Uploaded, Fields, Stages
<1>3. TreeStands'
    BY <1>1, <1>2 DEF IInv, TreeStands, Uploaded, Stored, Changed
<1>4. PlanStands'
    BY <1>2 DEF IInv, PlanStands, Skipped, Delivered, Uploaded, Working
<1>5. CarriedStand' /\ TodoOwn'
    BY <1>2 DEF CarriedStand, TodoOwn, IInv, Listed, Carried, Prunable, Uploaded, Working
<1> QED BY <1>2, <1>3, <1>4, <1>5 DEF RunShape, ManifestRead, IdleChanged,
    Working, Stages, IInv, Uploaded

LEMMA PruneIInv ==
    ASSUME IInv, NEW k, PruneKey(k)
    PROVE  IInv'
<1>1. DOMAIN run = Fields /\ run # NoRun /\ Changed = run.changed
    BY RunFields DEF PruneKey, Stages
<1>2. /\ run'.stage = "pruning" /\ run'.previous = run.previous /\ run'.plan = run.plan
      /\ run'.failed = run.failed
      /\ run'.todo = run.todo \ {k} /\ run'.changed = run.changed \cup {k}
      /\ DOMAIN run' = Fields /\ run' # NoRun
    BY <1>1, IdleRun DEF PruneKey, Fields, Stages
<1>3. Listed(run') = Listed(run) /\ Prunable(run') = Prunable(run) /\ k \notin Listed(run)
    BY <1>2 DEF Listed, Carried, Prunable, PruneKey, IInv, TodoOwn
<1>4. /\ DOMAIN tree' = DOMAIN tree \ {k}
      /\ \A x \in DOMAIN tree : x # k => tree'[x] = tree[x]
    BY DEF PruneKey, Drop
<1>5. TreeStands'
    BY <1>1, <1>2, <1>4 DEF IInv, TreeStands, PruneKey, Stored, Changed
<1>6. PlanStands'
    <2>1. k \notin DOMAIN run.plan
        BY <1>3 DEF Listed
    <2> QED BY <2>1, <1>2, <1>4 DEF IInv, PlanStands, Skipped, Delivered, PruneKey, Working
<1>7. CarriedStand' /\ TodoOwn'
    BY <1>2, <1>3 DEF CarriedStand, TodoOwn, IInv, PruneKey, Working
<1> QED BY <1>2, <1>5, <1>6, <1>7 DEF RunShape, ManifestRead, IdleChanged,
    Working, Stages, IInv, PruneKey

LEMMA PrunedIInv ==
    ASSUME IInv, Pruned
    PROVE  IInv'
<1>1. DOMAIN run = Fields /\ run # NoRun /\ Changed = run.changed
    BY RunFields DEF Pruned, Stages
<1>2. /\ run'.stage = "manifest" /\ run'.previous = run.previous /\ run'.plan = run.plan
      /\ run'.failed = run.failed /\ run'.changed = run.changed
      /\ DOMAIN run' = Fields /\ run' # NoRun
    BY <1>1, IdleRun DEF Pruned, Fields, Stages
<1>3. TreeStands'
    BY <1>1, <1>2 DEF IInv, TreeStands, Pruned, Stored, Changed
<1>4. PlanStands' /\ CarriedStand'
    BY <1>2 DEF IInv, PlanStands, CarriedStand, Listed, Carried, Skipped, Delivered, Pruned, Working
<1> QED BY <1>2, <1>3, <1>4 DEF RunShape, ManifestRead, IdleChanged, TodoOwn,
    Working, Stages, IInv, Pruned

(* A key that the carried part of the new manifest lists has no holder in  *)
(* the plan.                                                               *)
LEMMA CarriedFree ==
    ASSUME NEW plan, NEW k, Free(plan, k)
    PROVE  k \notin DOMAIN plan
BY DEF Free, Holders

(* The new manifest describes the tree but for what was torn before and is *)
(* not repaired now.                                                       *)
LEMMA ManifestIInv ==
    ASSUME IInv, WriteManifest
    PROVE  IInv'
<1>1. DOMAIN run = Fields /\ run # NoRun /\ Changed = run.changed
    BY RunFields DEF WriteManifest, Stages
<1>2. /\ run'.stage = "summary" /\ run'.changed = {}
      /\ DOMAIN run' = Fields /\ run' # NoRun
    BY <1>1, IdleRun DEF WriteManifest, Fields, Stages
<1>3. ASSUME NEW k \in DOMAIN manifest', k \notin torn' PROVE Stored(k)'
    <2>1. k \in Listed(run) /\ (k \in run.changed \/ k \notin torn)
        BY <1>3 DEF WriteManifest, NewManifest
    <2>2. CASE k \in DOMAIN run.plan
        <3>1. manifest'[k] = run.plan[k]
            BY <2>1, <2>2 DEF WriteManifest, NewManifest
        <3>2. Skipped(k) \/ Delivered(k)
            BY <2>2 DEF IInv, PlanStands, WriteManifest, Working
        <3>3. CASE Delivered(k)
            BY <3>1, <3>3 DEF Stored, Delivered, WriteManifest
        <3>4. CASE Skipped(k)
            <4>1. k \in DOMAIN manifest /\ manifest[k].content = run.plan[k].content
                BY <3>4 DEF Skipped, IInv, ManifestRead, WriteManifest, Working
            <4>2. Stored(k)
                BY <4>1, <3>4, <2>1, <1>1 DEF IInv, TreeStands, Skipped
            <4> QED BY <4>1, <4>2, <3>1 DEF Stored, WriteManifest
        <3> QED BY <3>2, <3>3, <3>4
    <2>3. CASE k \notin DOMAIN run.plan
        <3>1. k \in DOMAIN run.previous /\ manifest'[k] = run.previous[k]
            BY <2>1, <2>3 DEF Listed, Carried, WriteManifest, NewManifest
        <3>2. run.previous = manifest
            BY DEF IInv, ManifestRead, WriteManifest, Working
        <3>3. k \notin run.changed
            BY <2>1, <2>3 DEF IInv, CarriedStand, WriteManifest, Working
        <3>4. Stored(k)
            BY <3>1, <3>2, <3>3, <2>1, <1>1 DEF IInv, TreeStands
        <3> QED BY <3>1, <3>2, <3>4 DEF Stored, WriteManifest
    <2> QED BY <2>2, <2>3
<1>4. TreeStands'
    BY <1>3 DEF TreeStands
<1> QED BY <1>2, <1>4 DEF RunShape, ManifestRead, IdleChanged, TodoOwn, PlanStands, CarriedStand,
    Changed, Working, Stages, IInv

LEMMA SummaryIInv ==
    ASSUME IInv, WriteSummary
    PROVE  IInv'
<1>1. DOMAIN run = Fields /\ run # NoRun /\ Changed = run.changed
    BY RunFields DEF WriteSummary, Stages
<1>2. /\ run'.stage = "version" /\ run'.changed = run.changed
      /\ DOMAIN run' = Fields /\ run' # NoRun
    BY <1>1, IdleRun DEF WriteSummary, Fields, Stages
<1>3. Changed = {} /\ Changed' = {}
    BY <1>1, <1>2 DEF IInv, IdleChanged, Changed, WriteSummary, Working
<1>4. TreeStands'
    BY <1>3 DEF IInv, TreeStands, WriteSummary, Stored
<1> QED BY <1>2, <1>3, <1>4 DEF RunShape, ManifestRead, IdleChanged, TodoOwn, PlanStands,
    CarriedStand, Working, Stages, IInv

LEMMA EndsIInv ==
    ASSUME IInv, Interrupt \/ WriteVersion \/ (\E k \in Todo : UploadMangled(k))
    PROVE  IInv'
<1>1. CASE Interrupt
    BY <1>1, EndIInv DEF Interrupt, Changed, Stored
<1>2. CASE WriteVersion
    <2>1. Changed = {}
        BY <1>2 DEF IInv, IdleChanged, WriteVersion, Working
    <2> QED BY <1>2, <2>1, EndIInv DEF WriteVersion, Stored
<1>3. ASSUME NEW k \in Todo, UploadMangled(k) PROVE IInv'
    <2>1. \A x \in DOMAIN tree : x # k => x \in DOMAIN tree' /\ tree'[x] = tree[x]
        BY <1>3 DEF UploadMangled, Put
    <2>2. Changed \subseteq torn' /\ torn \subseteq torn' /\ k \in torn'
        BY <1>3 DEF UploadMangled, Changed
    <2>3. \A x \in DOMAIN manifest : x \in torn' \/ (Stored(x) => Stored(x)')
        BY <1>3, <2>1, <2>2 DEF UploadMangled, Stored
    <2> QED BY <1>3, <2>2, <2>3, EndIInv DEF UploadMangled
<1> QED BY <1>1, <1>2, <1>3

LEMMA NextIInv == IInv /\ [Next]_vars => IInv'
<1> SUFFICES ASSUME IInv, [Next]_vars PROVE IInv'
    OBVIOUS
<1>1. ASSUME NEW export \in Exports, Begin(export) PROVE IInv'
    BY <1>1, BeginIInv
<1>2. CASE ReadManifest
    BY <1>2, ReadIInv
<1>3. ASSUME NEW k \in Todo, Upload(k) PROVE IInv'
    BY <1>3, UploadIInv
<1>4. ASSUME NEW k \in Todo, PruneKey(k) PROVE IInv'
    BY <1>4, PruneIInv
<1>5. CASE Uploaded
    BY <1>5, UploadedIInv
<1>6. CASE Pruned
    BY <1>6, PrunedIInv
<1>7. CASE WriteManifest
    BY <1>7, ManifestIInv
<1>8. CASE WriteSummary
    BY <1>8, SummaryIInv
<1>9. CASE Interrupt \/ WriteVersion \/ (\E k \in Todo : UploadMangled(k))
    BY <1>9, EndsIInv
<1>10. CASE UNCHANGED vars
    BY <1>10 DEF vars, IInv, RunShape, ManifestRead, IdleChanged, TodoOwn, PlanStands,
        CarriedStand, TreeStands, Changed, Skipped, Delivered, Stored, Listed, Carried, Prunable
<1> QED BY <1>1, <1>2, <1>3, <1>4, <1>5, <1>6, <1>7, <1>8, <1>9, <1>10 DEF Next

LEMMA Inductive == Spec => []IInv
<1> QED BY InitIInv, NextIInv, PTL DEF Spec

-----------------------------------------------------------------------------
(* Between publications the manifest describes the tree, but for the keys  *)
(* an interrupted publication changed (publish_stable): nothing a          *)
(* publication skips, carries or leaves to others is ever spoiled by it.   *)
THEOREM TreeDescribed == Spec => []OnlyTornDiffer
<1>1. IInv => OnlyTornDiffer
    BY DEF IInv, TreeStands, OnlyTornDiffer, Changed
<1> QED BY <1>1, Inductive, PTL

-----------------------------------------------------------------------------
(* The manifest changes in one step, which lists what it carries.          *)
LEMMA ManifestStep ==
    ASSUME IInv, WriteManifest, NEW k \in DOMAIN manifest,
           manifest[k].source \in run.failed, Free(run.plan, k)
    PROVE  k \in DOMAIN manifest' /\ manifest'[k] = manifest[k]
<1>1. run.previous = manifest
    BY DEF IInv, ManifestRead, WriteManifest, Working
<1>2. k \in Listed(run) /\ k \notin DOMAIN run.plan
    BY <1>1, CarriedFree DEF Listed, Carried
<1> QED BY <1>1, <1>2 DEF WriteManifest, NewManifest

(* A key that goes is pruned.                                              *)
LEMMA PruneStep ==
    ASSUME IInv, [Next]_vars, NEW k \in DOMAIN tree, k \notin DOMAIN tree'
    PROVE  /\ k \in DOMAIN manifest /\ k \notin DOMAIN run.plan
           /\ ~(manifest[k].source \in run.failed /\ Free(run.plan, k))
<1>1. PruneKey(k)
    BY DEF Next, vars, Begin, ReadManifest, Upload, UploadMangled, PruneKey, Uploaded, Pruned,
        WriteManifest, WriteSummary, WriteVersion, Interrupt, Put, Drop
<1>2. k \in Prunable(run) /\ run.previous = manifest
    BY <1>1 DEF PruneKey, IInv, TodoOwn, ManifestRead, Working
<1> QED BY <1>2 DEF Prunable, Listed, Carried

LEMMA ManifestOnly ==
    ASSUME [Next]_vars, manifest' # manifest
    PROVE  WriteManifest
BY DEF Next, vars, Begin, ReadManifest, Upload, UploadMangled, PruneKey, Uploaded, Pruned,
    WriteSummary, WriteVersion, Interrupt

(* A failed resource keeps what it published before, and pruning takes     *)
(* only keys that the layout owns and no longer lists.                     *)
THEOREM KeysSafe == Spec => KeysKept
<1>1. IInv /\ [Next]_vars =>
        [\A k \in DOMAIN manifest :
            run # NoRun /\ manifest[k].source \in run.failed /\ Free(run.plan, k) =>
                /\ manifest' # manifest => k \in DOMAIN manifest' /\ manifest'[k] = manifest[k]
                /\ k \in DOMAIN tree => k \in DOMAIN tree']_vars
    BY ManifestStep, PruneStep, ManifestOnly
<1>2. IInv /\ [Next]_vars =>
        [\A k \in DOMAIN tree \ DOMAIN tree' :
            k \in DOMAIN manifest /\ k \notin DOMAIN run.plan]_vars
    BY PruneStep
<1> QED BY <1>1, <1>2, Inductive, PTL DEF KeysKept, FailedKeepTheirKeys, OnlyOwnKeysGo, Spec

-----------------------------------------------------------------------------
(* The order of the objects of _sirius, by the publications that wrote     *)
(* them last.                                                              *)
Order ==
    /\ written \in [manifest: Nat, summary: Nat, version: Nat]
    /\ started \in Nat
    /\ written.version <= written.summary
    /\ written.summary <= written.manifest
    /\ written.manifest <= started
    /\ run.stage \in {"summary", "version"} => written.manifest = started
    /\ run.stage = "version" => written.summary = started

LEMMA OrderStep == IInv /\ Order /\ [Next]_vars => Order'
<1> SUFFICES ASSUME IInv, Order, [Next]_vars PROVE Order'
    OBVIOUS
<1> USE DEF Order
<1>1. ASSUME NEW export \in Exports, Begin(export) PROVE Order'
    BY <1>1 DEF Begin
<1>2. CASE ReadManifest
    BY <1>2, RunFields DEF ReadManifest, Fields, Stages
<1>3. CASE \E k \in Todo : Upload(k) \/ PruneKey(k)
    BY <1>3, RunFields DEF Upload, PruneKey, Fields, Stages
<1>4. CASE \E k \in Todo : UploadMangled(k)
    BY <1>4, IdleRun DEF UploadMangled
<1>5. CASE Uploaded \/ Pruned
    BY <1>5, RunFields DEF Uploaded, Pruned, Fields, Stages
<1>6. CASE WriteManifest
    BY <1>6, RunFields DEF WriteManifest, Fields, Stages
<1>7. CASE WriteSummary
    BY <1>7, RunFields DEF WriteSummary, Fields, Stages
<1>8. CASE WriteVersion
    BY <1>8, IdleRun DEF WriteVersion
<1>9. CASE Interrupt
    BY <1>9, IdleRun DEF Interrupt
<1>10. CASE UNCHANGED vars
    BY <1>10 DEF vars
<1> QED BY <1>1, <1>2, <1>3, <1>4, <1>5, <1>6, <1>7, <1>8, <1>9, <1>10 DEF Next

(* A reader that finds a version finds the manifest and the summary of     *)
(* that publication or of a later one, however publications end.           *)
THEOREM OrderKept == Spec => []VersionLast
<1>1. Init => Order
    BY IdleRun DEF Init, Order
<1>2. Order => VersionLast
    BY DEF Order, VersionLast
<1> QED BY <1>1, <1>2, OrderStep, Inductive, PTL DEF Spec

-----------------------------------------------------------------------------
(* The types, and the plan of the run *)

LEMMA ExportsExport ==
    ASSUME NEW export \in Exports
    PROVE  IsExport(export)
BY PublicationAssumption DEF Exports, IsExport

LEMMA ExportFailed ==
    ASSUME NEW export \in Exports
    PROVE  DOMAIN export = {"failed", "outputs"}
BY DEF Exports

RunType ==
    run = NoRun \/
        /\ run.stage \in Stages
        /\ Planlike(run.plan) /\ Planlike(run.previous)
        /\ run.todo \cup run.changed \subseteq DOMAIN run.plan \cup DOMAIN run.previous

TreeType == \A k \in DOMAIN tree : k \in Key /\ tree[k] \in Contents \cup {Garbage}

Types ==
    /\ TreeType
    /\ Planlike(manifest)
    /\ written \in [manifest: Ids, summary: Ids, version: Ids] /\ started \in Ids
    /\ RunType
    /\ torn \subseteq Key

(* What the run has to do with are keys.                                   *)
LEMMA RunKeys ==
    ASSUME Types, run # NoRun
    PROVE  /\ run.changed \subseteq Key /\ run.todo \subseteq Key
           /\ \A k \in DOMAIN run.plan : k \in Key /\ run.plan[k].content \in Contents
BY DEF Types, RunType, Planlike, Entry

LEMMA InitTypes == Init => Types
<1> SUFFICES ASSUME Init PROVE Types
    OBVIOUS
<1>1. TreeType
    BY PublicationAssumption DEF Init, TreeType
<1>2. Planlike(manifest)
    <2>1. DOMAIN manifest = {}
        BY DEF Init
    <2> QED BY <2>1 DEF Planlike
<1>3. 0 \in Ids
    BY PublicationAssumption DEF Ids
<1> QED BY <1>1, <1>2, <1>3 DEF Init, Types, RunType

LEMMA BeginTypes ==
    ASSUME Types, NEW export \in Exports, Begin(export)
    PROVE  Types' /\ PlanSound'
<1>1. /\ CaseApart(Planned(export)) /\ AllPlanned(Planned(export), export)
      /\ Planlike(Planned(export))
    BY ExportsExport, PlansAreSound DEF Planlike
<1>2. /\ run'.stage = "reading" /\ run'.plan = Planned(export) /\ run'.export = export
      /\ run'.previous = <<>> /\ run'.todo = {} /\ run'.changed = {}
    BY DEF Begin
<1>3. Planlike(<<>>)
    <2>1. DOMAIN <<>> = {}
        OBVIOUS
    <2> QED BY <2>1 DEF Planlike
<1>4. RunType'
    BY <1>1, <1>2, <1>3 DEF RunType, Stages
<1>5. started' \in Ids
    BY PublicationAssumption DEF Begin, Types, Ids
<1>6. Types'
    BY <1>4, <1>5 DEF Begin, Types, TreeType, Planlike
<1>7. PlanSound'
    BY <1>1, <1>2 DEF PlanSound
<1> QED BY <1>6, <1>7

(* The steps of a run that only move its stage and its to-do list on.      *)
LEMMA MoveTypes ==
    ASSUME IInv, Types, ReadManifest \/ Uploaded \/ Pruned
    PROVE  Types' /\ PlanSound'
<1>1. CASE ReadManifest
    <2>1. DOMAIN run = Fields /\ run # NoRun
        BY <1>1, RunFields DEF ReadManifest, Stages
    <2>2. run.changed = {}
        BY <1>1, <2>1 DEF IInv, IdleChanged, Changed, ReadManifest, Working
    <2>3. /\ run'.stage = "uploading" /\ run'.plan = run.plan /\ run'.previous = manifest
          /\ run'.todo = Pending(run.plan, manifest) /\ run'.changed = {}
        BY <1>1, <2>1, <2>2 DEF ReadManifest, Fields
    <2>4. RunType'
        BY <2>1, <2>3 DEF Types, RunType, Stages, Pending, Planlike
    <2> QED BY <1>1, <2>3, <2>4 DEF ReadManifest, Types, TreeType, Planlike, PlanSound
<1>2. CASE Uploaded
    <2>1. DOMAIN run = Fields /\ run # NoRun
        BY <1>2, RunFields DEF Uploaded, Stages
    <2>2. /\ run'.stage = "pruning" /\ run'.plan = run.plan /\ run'.previous = run.previous
          /\ run'.todo = Prunable(run) /\ run'.changed = run.changed
        BY <1>2, <2>1 DEF Uploaded, Fields
    <2>3. RunType'
        BY <2>1, <2>2 DEF Types, RunType, Stages, Prunable, Planlike
    <2> QED BY <1>2, <2>2, <2>3 DEF Uploaded, Types, TreeType, Planlike, PlanSound
<1>3. CASE Pruned
    <2>1. DOMAIN run = Fields /\ run # NoRun
        BY <1>3, RunFields DEF Pruned, Stages
    <2>2. /\ run'.stage = "manifest" /\ run'.plan = run.plan /\ run'.previous = run.previous
          /\ run'.todo = run.todo /\ run'.changed = run.changed
        BY <1>3, <2>1 DEF Pruned, Fields
    <2>3. RunType'
        BY <2>1, <2>2 DEF Types, RunType, Stages, Planlike
    <2> QED BY <1>3, <2>2, <2>3 DEF Pruned, Types, TreeType, Planlike, PlanSound
<1> QED BY <1>1, <1>2, <1>3

(* The steps that change one key of the tree.                              *)
LEMMA KeyTypes ==
    ASSUME IInv, Types, NEW k, Upload(k) \/ UploadMangled(k) \/ PruneKey(k)
    PROVE  Types' /\ PlanSound'
<1>1. run # NoRun /\ DOMAIN run = Fields /\ k \in run.todo
    BY RunFields DEF Upload, UploadMangled, PruneKey, Stages
<1>2. k \in Key /\ run.changed \subseteq Key
    BY <1>1, RunKeys
<1>3. CASE Upload(k)
    <2>1. /\ run'.stage = "uploading" /\ run'.plan = run.plan /\ run'.previous = run.previous
          /\ run'.todo = run.todo \ {k} /\ run'.changed = run.changed \cup {k}
        BY <1>1, <1>3 DEF Upload, Fields
    <2>2. RunType'
        BY <1>1, <2>1 DEF Types, RunType, Stages, Planlike
    <2>3. k \in DOMAIN run.plan
        BY <1>3 DEF IInv, TodoOwn, Upload, Pending
    <2>4. TreeType'
        BY <1>1, <1>2, <1>3, <2>3, RunKeys DEF Upload, Put, Types, TreeType
    <2> QED BY <1>3, <2>1, <2>2, <2>4 DEF Upload, Types, Planlike, PlanSound
<1>4. CASE UploadMangled(k)
    <2>1. TreeType'
        BY <1>2, <1>4 DEF UploadMangled, Put, Types, TreeType
    <2>2. RunType' /\ PlanSound'
        BY <1>4, IdleRun DEF UploadMangled, RunType, PlanSound, Stages
    <2> QED BY <1>2, <1>4, <2>1, <2>2 DEF UploadMangled, Types, Planlike
<1>5. CASE PruneKey(k)
    <2>1. /\ run'.stage = "pruning" /\ run'.plan = run.plan /\ run'.previous = run.previous
          /\ run'.todo = run.todo \ {k} /\ run'.changed = run.changed \cup {k}
        BY <1>1, <1>5 DEF PruneKey, Fields
    <2>2. RunType'
        BY <1>1, <2>1 DEF Types, RunType, Stages, Planlike
    <2>3. TreeType'
        BY <1>5 DEF PruneKey, Drop, Types, TreeType
    <2> QED BY <1>5, <2>1, <2>2, <2>3 DEF PruneKey, Types, Planlike, PlanSound
<1> QED BY <1>3, <1>4, <1>5

(* The three objects, and the end of a run.                                *)
LEMMA WriteTypes ==
    ASSUME IInv, Types, WriteManifest \/ WriteSummary \/ WriteVersion \/ Interrupt
    PROVE  Types' /\ PlanSound'
<1>1. run # NoRun /\ run.changed \subseteq Key
    BY RunFields, RunKeys DEF WriteManifest, WriteSummary, WriteVersion, Interrupt, Stages
<1>2. CASE WriteManifest
    <2>1. DOMAIN run = Fields
        BY <1>2, RunFields DEF WriteManifest, Stages
    <2>2. /\ run'.stage = "summary" /\ run'.plan = run.plan /\ run'.previous = run.previous
          /\ run'.todo = run.todo /\ run'.changed = {}
        BY <1>2, <2>1 DEF WriteManifest, Fields
    <2>3. RunType'
        BY <1>1, <2>2 DEF Types, RunType, Stages, Planlike
    <2>4. Planlike(manifest')
        BY <1>1, <1>2 DEF WriteManifest, NewManifest, Listed, Carried, Types, RunType, Planlike
    <2>5. written' \in [manifest: Ids, summary: Ids, version: Ids]
        BY <1>2 DEF WriteManifest, Types
    <2> QED BY <1>2, <2>2, <2>3, <2>4, <2>5 DEF WriteManifest, Types, TreeType, PlanSound
<1>3. CASE WriteSummary
    <2>1. DOMAIN run = Fields
        BY <1>3, RunFields DEF WriteSummary, Stages
    <2>2. /\ run'.stage = "version" /\ run'.plan = run.plan /\ run'.previous = run.previous
          /\ run'.todo = run.todo /\ run'.changed = run.changed
        BY <1>3, <2>1 DEF WriteSummary, Fields
    <2>3. RunType'
        BY <1>1, <2>2 DEF Types, RunType, Stages, Planlike
    <2>4. written' \in [manifest: Ids, summary: Ids, version: Ids]
        BY <1>3 DEF WriteSummary, Types
    <2> QED BY <1>3, <2>2, <2>3, <2>4 DEF WriteSummary, Types, TreeType, Planlike, PlanSound
<1>4. CASE WriteVersion
    <2>1. RunType' /\ PlanSound'
        BY <1>4, IdleRun DEF WriteVersion, RunType, PlanSound, Stages
    <2>2. written' \in [manifest: Ids, summary: Ids, version: Ids]
        BY <1>4 DEF WriteVersion, Types
    <2> QED BY <1>4, <2>1, <2>2 DEF WriteVersion, Types, TreeType, Planlike
<1>5. CASE Interrupt
    <2>1. RunType' /\ PlanSound'
        BY <1>5, IdleRun DEF Interrupt, RunType, PlanSound, Stages
    <2> QED BY <1>1, <1>5, <2>1 DEF Interrupt, Types, TreeType, Planlike
<1> QED BY <1>2, <1>3, <1>4, <1>5

LEMMA TypesStep == IInv /\ Types /\ PlanSound /\ [Next]_vars => Types' /\ PlanSound'
<1> SUFFICES ASSUME IInv, Types, PlanSound, [Next]_vars PROVE Types' /\ PlanSound'
    OBVIOUS
<1>1. ASSUME NEW export \in Exports, Begin(export) PROVE Types' /\ PlanSound'
    BY <1>1, BeginTypes
<1>2. CASE ReadManifest \/ Uploaded \/ Pruned
    BY <1>2, MoveTypes
<1>3. ASSUME NEW k \in Todo, Upload(k) \/ UploadMangled(k) \/ PruneKey(k)
      PROVE  Types' /\ PlanSound'
    BY <1>3, KeyTypes
<1>4. CASE WriteManifest \/ WriteSummary \/ WriteVersion \/ Interrupt
    BY <1>4, WriteTypes
<1>5. CASE UNCHANGED vars
    BY <1>5 DEF vars, Types, TreeType, RunType, Planlike, PlanSound
<1> QED BY <1>1, <1>2, <1>3, <1>4, <1>5 DEF Next

(* Every publication works with keys of its plan and of the manifest it    *)
(* read, its plan is sound (plan_resources and claim: no two keys differ   *)
(* in case only, every output is there under a variant of its key),        *)
(* and the version is never newer than what it names (publish_stable).     *)
THEOREM PlansArePublished == Spec => []Inv
<1>1. Init => PlanSound
    BY IdleRun DEF Init, PlanSound
<1>2. Types => TypeOK
    BY DEF Types, TreeType, RunType, TypeOK
<1>3. Spec => [](Types /\ PlanSound)
    BY <1>1, InitTypes, TypesStep, Inductive, PTL DEF Spec
<1>4. Types /\ PlanSound /\ VersionLast => Inv
    BY <1>2 DEF Inv
<1> QED BY <1>3, <1>4, OrderKept, PTL

-----------------------------------------------------------------------------
(* The export that is published                                            *)
(*                                                                         *)
(* Its workers, collector and verification, for any number of workers and  *)
(* resources, with or without a cache, whatever fails and whenever the run *)
(* is cancelled or killed.                                                 *)

Busy(w) == worker[w].step \in {"decoding", "decoded", "storing", "reporting"}
Fate(ok) == IF ok THEN "ok" ELSE "failed"

(* A resource that was handed out is with one worker, in the channel or in *)
(* the journal, nowhere twice.                                             *)
Apart ==
    /\ \A w \in Workers : Busy(w) => worker[w].i < next
    /\ \A n \in DOMAIN channel : channel[n].i < next
    /\ \A n \in DOMAIN journal : journal[n].i < next
    /\ \A v, w \in Workers : Busy(v) /\ Busy(w) /\ worker[v].i = worker[w].i => v = w
    /\ \A m, n \in DOMAIN channel : channel[m].i = channel[n].i => m = n
    /\ \A m, n \in DOMAIN journal : journal[m].i = journal[n].i => m = n
    /\ \A w \in Workers, n \in DOMAIN channel : Busy(w) => worker[w].i # channel[n].i
    /\ \A w \in Workers, n \in DOMAIN journal : Busy(w) => worker[w].i # journal[n].i
    /\ \A m \in DOMAIN channel, n \in DOMAIN journal : channel[m].i # journal[n].i

(* While the collector listens none of them is lost.                       *)
Accounted ==
    listening /\ stage # "killed" =>
        \A i \in Resources : i < next =>
            \/ \E w \in Workers : Busy(w) /\ worker[w].i = i
            \/ \E n \in DOMAIN channel : channel[n].i = i
            \/ \E n \in DOMAIN journal : journal[n].i = i

(* Reports are true.                                                       *)
Truthful ==
    /\ \A i \in Resources : i >= next => outcome[i] = "none"
    /\ \A w \in Workers : worker[w].step \in {"decoding", "decoded", "storing"} => outcome[worker[w].i] = "none"
    /\ \A w \in Workers : worker[w].step = "reporting" => outcome[worker[w].i] = Fate(worker[w].ok)
    /\ \A n \in DOMAIN channel : outcome[channel[n].i] = Fate(channel[n].ok)
    /\ \A n \in DOMAIN journal : outcome[journal[n].i] = Fate(journal[n].ok)

(* What succeeded has its directory; what else is in the tree belongs to   *)
(* a failed store or to a worker that is at it, unless the run was killed. *)
Directories ==
    /\ \A i \in Resources : outcome[i] = "ok" => i \in dirs
    /\ \A w \in Workers : worker[w].step = "storing" => worker[w].i \in dirs
    /\ stage # "killed" => \A i \in dirs :
          outcome[i] # "none" \/ \E w \in Workers : worker[w] = Doing("storing", i)
    /\ stage # "killed" => \A i \in staging : \E w \in Workers : worker[w] = Doing("decoded", i)

Counted ==
    /\ counts = [succeeded |-> Cardinality(JournalOk), failed |-> Cardinality(JournalFailed), complete |-> FALSE]
    /\ Len(journal) = counts.succeeded + counts.failed

(* Workers stop for a reason, and nothing happens after the end.           *)
Rested ==
    /\ ~listening => ~dirty
    /\ stage # "exporting" => ~dirty /\ \A w \in Workers : worker[w] = Stopped
    /\ stage = "exporting" /\ (\E w \in Workers : worker[w] = Stopped) => cancel \/ ~listening \/ next = N + 1
    /\ stage = "finished" => next = N + 1

Concluded ==
    stage = "finished" \/ summary.complete =>
        /\ stage \in {"finished", "cancelled"}
        /\ listening /\ channel = <<>>
        /\ summary = [counts EXCEPT !.complete = counts.failed = 0 /\ counts.succeeded = N]


ExportIInv == ExportTypes /\ Apart /\ Accounted /\ Truthful /\ Directories /\ Counted /\ Rested /\ Concluded

-----------------------------------------------------------------------------
Threads ==
    {Idle, Stopped}
    \cup [step: {"decoding", "decoded", "storing"}, i: Resources]
    \cup [step: {"reporting"}, i: Resources, ok: BOOLEAN]

LEMMA BusyShape ==
    ASSUME NEW x \in Threads,
           x.step \in {"decoding", "decoded", "storing", "reporting"}
    PROVE  /\ x.i \in Resources
           /\ x.step = "reporting" => x.ok \in BOOLEAN /\ x = [step |-> "reporting", i |-> x.i, ok |-> x.ok]
           /\ x.step # "reporting" => x = Doing(x.step, x.i)
BY DEF Threads, Idle, Stopped, Doing

LEMMA FreeShape ==
    ASSUME NEW x \in Threads,
           x.step \notin {"decoding", "decoded", "storing", "reporting"}
    PROVE  x \in {Idle, Stopped}
BY DEF Threads, Idle, Stopped

LEMMA ThreadMoves ==
    ASSUME NEW f, f \in [Workers -> Threads], NEW w \in Workers, NEW v \in Threads,
           NEW g, g = [f EXCEPT ![w] = v]
    PROVE  /\ g \in [Workers -> Threads]
           /\ g[w] = v
           /\ \A o \in Workers \ {w} : g[o] = f[o]
OBVIOUS

LEMMA StepTaken ==
    ASSUME NEW f, f \in [Workers -> Threads], NEW w \in Workers, NEW s,
           f[w].step \in {"decoding", "decoded", "storing"}
    PROVE  [f EXCEPT ![w].step = s] = [f EXCEPT ![w] = Doing(s, f[w].i)]
<1>1. f[w] = Doing(f[w].step, f[w].i)
    BY BusyShape
<1>2. [f[w] EXCEPT !.step = s] = Doing(s, f[w].i)
    BY <1>1 DEF Doing
<1> QED BY <1>2

LEMMA ThreadTypes == ExportTypes => worker \in [Workers -> Threads]
BY DEF ExportTypes, Threads

(* A worker goes on with its resource, which stays where it is.            *)
LEMMA Stays ==
    ASSUME ExportIInv, NEW w \in Workers, Busy(w), NEW v \in Threads,
           v.step \in {"decoding", "decoded", "storing", "reporting"}, v.i = worker[w].i,
           worker' = [worker EXCEPT ![w] = v],
           UNCHANGED <<stage, cancel, next, channel, listening, counts, dirty, journal, summary>>
    PROVE  /\ worker' \in [Workers -> Threads]
           /\ worker'[w] = v
           /\ \A o \in Workers \ {w} : worker'[o] = worker[o]
           /\ stage = "exporting"
           /\ Apart' /\ Accounted' /\ Counted' /\ Rested' /\ Concluded'
<1>1. /\ worker' \in [Workers -> Threads] /\ worker'[w] = v
      /\ \A o \in Workers \ {w} : worker'[o] = worker[o]
    BY ThreadTypes, ThreadMoves DEF ExportIInv
<1>2. stage = "exporting"
    BY DEF ExportIInv, Rested, Busy, Stopped
<1>3. \A o \in Workers : (Busy(o)' <=> Busy(o)) /\ (Busy(o) => worker'[o].i = worker[o].i)
    BY <1>1 DEF Busy
<1>4. Apart'
    BY <1>3 DEF ExportIInv, Apart
<1>5. Accounted'
    BY <1>3 DEF ExportIInv, Accounted
<1>6. Counted'
    BY DEF ExportIInv, Counted, JournalOk, JournalFailed
<1>7. Rested'
    BY <1>1, <1>2 DEF ExportIInv, Rested, Stopped
<1>8. Concluded'
    BY DEF ExportIInv, Concluded
<1> QED BY <1>1, <1>2, <1>4, <1>5, <1>6, <1>7, <1>8

LEMMA ReportShape ==
    ASSUME NEW q, q \in Seq(Reports), NEW n \in DOMAIN q
    PROVE  q[n].i \in Resources /\ q[n].ok \in BOOLEAN /\ q[n] = Report(q[n].i, q[n].ok)
<1>1. q[n] \in Reports
    OBVIOUS
<1> QED BY <1>1 DEF Reports, Report

(* The end of one resource is news of no other.                            *)
LEMMA EndKnown ==
    ASSUME ExportIInv, NEW w \in Workers, Busy(w), NEW i \in Resources, i = worker[w].i,
           NEW v, v.i = i,
           v.step \in {"decoding", "decoded", "storing"} => outcome'[i] = "none",
           v.step = "reporting" => outcome'[i] = Fate(v.ok),
           worker'[w] = v, \A o \in Workers \ {w} : worker'[o] = worker[o],
           \A k \in Resources \ {i} : outcome'[k] = outcome[k],
           UNCHANGED <<next, channel, journal>>
    PROVE  Truthful'
<1>1. \A o \in Workers \ {w} : Busy(o) => worker[o].i \in Resources \ {i}
    BY ThreadTypes, BusyShape DEF ExportIInv, Apart, Busy
<1>2. \A n \in DOMAIN channel : channel[n].i \in Resources \ {i}
    BY ReportShape DEF ExportIInv, Apart, ExportTypes
<1>3. \A n \in DOMAIN journal : journal[n].i \in Resources \ {i}
    BY ReportShape DEF ExportIInv, Apart, ExportTypes
<1>4. i < next
    BY DEF ExportIInv, Apart
<1>5. next \in Nat /\ i \in Nat
    BY RunAssumption DEF ExportIInv, ExportTypes, Resources
<1>6. \A k \in Resources : k >= next => k \in Resources \ {i}
    BY <1>4, <1>5 DEF Resources
<1>7. \A o \in Workers : worker'[o].step \in {"decoding", "decoded", "storing"} => outcome'[worker'[o].i] = "none"
    BY <1>1 DEF ExportIInv, Truthful, Busy
<1>8. \A o \in Workers : worker'[o].step = "reporting" => outcome'[worker'[o].i] = Fate(worker'[o].ok)
    BY <1>1 DEF ExportIInv, Truthful, Busy
<1> QED BY <1>2, <1>3, <1>6, <1>7, <1>8 DEF ExportIInv, Truthful

LEMMA DirectoryOf ==
    ASSUME ExportIInv, NEW w \in Workers, Busy(w), stage = "exporting", worker[w].i \in dirs
    PROVE  outcome[worker[w].i] # "none" \/ worker[w] = Doing("storing", worker[w].i)
<1>1. PICK o \in Workers : outcome[worker[w].i] # "none" \/ worker[o] = Doing("storing", worker[w].i)
    BY DEF ExportIInv, Directories
<1>2. worker[o] = Doing("storing", worker[w].i) => o = w
    BY DEF ExportIInv, Apart, Busy, Doing
<1> QED BY <1>1, <1>2

LEMMA StagingOf ==
    ASSUME ExportIInv, NEW w \in Workers, Busy(w), stage = "exporting", worker[w].i \in staging
    PROVE  worker[w] = Doing("decoded", worker[w].i)
<1>1. PICK o \in Workers : worker[o] = Doing("decoded", worker[w].i)
    BY DEF ExportIInv, Directories
<1>2. o = w
    BY <1>1 DEF ExportIInv, Apart, Busy, Doing
<1> QED BY <1>1, <1>2

(* Nor is what it leaves in the tree.                                      *)
LEMMA TreeKnown ==
    ASSUME ExportIInv, NEW w \in Workers, Busy(w), NEW i \in Resources, i = worker[w].i,
           NEW v, v.i = i, stage = "exporting", stage' = stage,
           worker'[w] = v, \A o \in Workers \ {w} : worker'[o] = worker[o],
           \A k \in Resources \ {i} : outcome'[k] = outcome[k],
           dirs' = dirs \/ dirs' = dirs \cup {i},
           staging' = staging \ {i} \/ staging' = staging \cup {i},
           v.step = "storing" \/ outcome'[i] = "ok" => i \in dirs',
           i \in dirs' => outcome'[i] # "none" \/ v = Doing("storing", i),
           i \in staging' => v = Doing("decoded", i)
    PROVE  Directories'
<1>1. \A k : k # i => \A o \in Workers : worker[o] = Doing("storing", k) => worker'[o] = Doing("storing", k)
    BY DEF Doing
<1>2. \A k : k # i => \A o \in Workers : worker[o] = Doing("decoded", k) => worker'[o] = Doing("decoded", k)
    BY DEF Doing
<1>3. ASSUME NEW k \in Resources, outcome'[k] = "ok" PROVE k \in dirs'
    BY <1>3 DEF ExportIInv, Directories
<1>4. ASSUME NEW o \in Workers, worker'[o].step = "storing" PROVE worker'[o].i \in dirs'
    BY <1>4 DEF ExportIInv, Directories
<1>5. ASSUME NEW k \in dirs' PROVE outcome'[k] # "none" \/ \E o \in Workers : worker'[o] = Doing("storing", k)
    <2>1. CASE k = i
        BY <2>1, <1>5
    <2>2. CASE k # i
        <3>1. k \in dirs /\ k \in Resources
            BY <2>2, <1>5 DEF ExportIInv, ExportTypes
        <3> QED BY <2>2, <3>1, <1>1 DEF ExportIInv, Directories
    <2> QED BY <2>1, <2>2
<1>6. ASSUME NEW k \in staging' PROVE \E o \in Workers : worker'[o] = Doing("decoded", k)
    <2>1. CASE k = i
        BY <2>1, <1>6
    <2>2. CASE k # i
        <3>1. k \in staging
            BY <2>2, <1>6
        <3> QED BY <2>2, <3>1, <1>2 DEF ExportIInv, Directories
    <2> QED BY <2>1, <2>2
<1> QED BY <1>3, <1>4, <1>5, <1>6 DEF Directories

(* A worker that is at no directory leaves them as they are.               *)
LEMMA FreeKeepsTree ==
    ASSUME ExportIInv, NEW w \in Workers, worker[w].step \notin {"decoded", "storing"},
           worker'[w].step # "storing", \A o \in Workers \ {w} : worker'[o] = worker[o],
           UNCHANGED <<stage, dirs, staging, outcome>>
    PROVE  Directories'
<1>1. \A k : \A o \in Workers : worker[o] = Doing("storing", k) => worker'[o] = Doing("storing", k)
    BY DEF Doing
<1>2. \A k : \A o \in Workers : worker[o] = Doing("decoded", k) => worker'[o] = Doing("decoded", k)
    BY DEF Doing
<1>3. \A o \in Workers : worker'[o].step = "storing" => worker'[o] = worker[o]
    OBVIOUS
<1> QED BY <1>1, <1>2, <1>3 DEF ExportIInv, Directories

LEMMA DecodeKeeps ==
    ASSUME ExportIInv, NEW w \in Workers, Decode(w)
    PROVE  ExportIInv'
<1> DEFINE i == worker[w].i
           v == Doing("decoded", i)
<1>1. /\ worker[w].step = "decoding" /\ Busy(w) /\ i \in Resources
      /\ UNCHANGED <<stage, cancel, next, channel, listening, counts, dirty, journal, summary, dirs, outcome>>
      /\ staging' = staging \cup {i}
    BY ThreadTypes, BusyShape DEF Decode, Busy, ExportIInv
<1>2. worker' = [worker EXCEPT ![w] = v]
    BY <1>1, ThreadTypes, StepTaken DEF Decode, ExportIInv
<1>3. v \in Threads /\ v.step = "decoded" /\ v.i = i
    BY <1>1 DEF Threads, Doing
<1>4. /\ worker' \in [Workers -> Threads] /\ worker'[w] = v
      /\ \A o \in Workers \ {w} : worker'[o] = worker[o]
      /\ stage = "exporting"
      /\ Apart' /\ Accounted' /\ Counted' /\ Rested' /\ Concluded'
    BY <1>1, <1>2, <1>3, Stays
<1> HIDE DEF i, v
<1>5. ExportTypes'
    BY <1>1, <1>4 DEF ExportIInv, ExportTypes, Threads
<1>6. Truthful'
    BY <1>1, <1>3, <1>4 DEF ExportIInv, Truthful, i
<1>7. Directories'
    <2>1. i \notin dirs' \/ outcome'[i] # "none"
        <3>1. ASSUME worker[w].i \in dirs PROVE outcome[worker[w].i] # "none"
            <4>1. outcome[worker[w].i] # "none" \/ worker[w] = Doing("storing", worker[w].i)
                BY <1>1, <1>4, <3>1, DirectoryOf
            <4> QED BY <1>1, <4>1 DEF Doing
        <3> QED BY <3>1, <1>1 DEF i
    <2>2. outcome'[i] # "ok"
        BY <1>1 DEF ExportIInv, Truthful, i
    <2>3. \A k \in Resources \ {i} : outcome'[k] = outcome[k]
        BY <1>1
    <2> QED BY <1>1, <1>3, <1>4, <2>1, <2>2, <2>3, TreeKnown DEF i, v
<1> QED BY <1>4, <1>5, <1>6, <1>7 DEF ExportIInv

LEMMA DecodeFailsKeeps ==
    ASSUME ExportIInv, NEW w \in Workers, DecodeFails(w)
    PROVE  ExportIInv'
<1> DEFINE i == worker[w].i
           v == [step |-> "reporting", i |-> i, ok |-> FALSE]
<1>1. /\ worker[w].step \in {"decoding", "decoded"} /\ Busy(w) /\ i \in Resources
      /\ UNCHANGED <<stage, cancel, next, channel, listening, counts, dirty, journal, summary, dirs>>
      /\ staging' = staging \ {i}
      /\ outcome' = [outcome EXCEPT ![i] = "failed"]
      /\ worker' = [worker EXCEPT ![w] = v]
    BY ThreadTypes, BusyShape DEF DecodeFails, Busy, ExportIInv, Ok
<1>2. v \in Threads /\ v.step = "reporting" /\ v.i = i /\ v.ok = FALSE
    BY <1>1 DEF Threads
<1>3. /\ worker' \in [Workers -> Threads] /\ worker'[w] = v
      /\ \A o \in Workers \ {w} : worker'[o] = worker[o]
      /\ stage = "exporting"
      /\ Apart' /\ Accounted' /\ Counted' /\ Rested' /\ Concluded'
    BY <1>1, <1>2, Stays
<1>4. outcome'[i] = "failed" /\ \A k \in Resources \ {i} : outcome'[k] = outcome[k]
    BY <1>1 DEF ExportIInv, ExportTypes
<1> HIDE DEF i, v
<1>5. ExportTypes'
    BY <1>1, <1>3 DEF ExportIInv, ExportTypes, Threads
<1>6. Truthful'
    BY <1>1, <1>2, <1>3, <1>4, EndKnown DEF ExportIInv, i, Fate
<1>7. Directories'
    BY <1>1, <1>2, <1>3, <1>4, TreeKnown DEF i
<1> QED BY <1>3, <1>5, <1>6, <1>7 DEF ExportIInv

LEMMA PromoteKeeps ==
    ASSUME ExportIInv, NEW w \in Workers, Promote(w)
    PROVE  ExportIInv'
<1> DEFINE i == worker[w].i
           v == IF Cached THEN Doing("storing", i) ELSE [step |-> "reporting", i |-> i, ok |-> TRUE]
<1>1. /\ worker[w].step = "decoded" /\ Busy(w) /\ i \in Resources
      /\ UNCHANGED <<stage, cancel, next, channel, listening, counts, dirty, journal, summary>>
      /\ staging' = staging \ {i}
      /\ dirs' = dirs \cup {i}
      /\ outcome' = IF Cached THEN outcome ELSE [outcome EXCEPT ![i] = "ok"]
    BY ThreadTypes, BusyShape DEF Promote, Busy, ExportIInv
<1>2. worker' = [worker EXCEPT ![w] = v]
    <2>1. CASE Cached
        BY <1>1, <2>1, ThreadTypes, StepTaken DEF Promote, ExportIInv
    <2>2. CASE ~Cached
        BY <2>2 DEF Promote, Ok
    <2> QED BY <2>1, <2>2
<1>3. /\ v \in Threads /\ v.i = i
      /\ Cached => v = Doing("storing", i) /\ v.step = "storing"
      /\ ~Cached => v.step = "reporting" /\ v.ok = TRUE
    <2>1. CASE Cached
        BY <1>1, <2>1 DEF Threads, Doing
    <2>2. CASE ~Cached
        BY <1>1, <2>2 DEF Threads
    <2> QED BY <2>1, <2>2
<1>4. v.step \in {"storing", "reporting"}
    BY <1>3
<1> HIDE DEF v
<1>5. /\ worker' \in [Workers -> Threads] /\ worker'[w] = v
      /\ \A o \in Workers \ {w} : worker'[o] = worker[o]
      /\ stage = "exporting"
      /\ Apart' /\ Accounted' /\ Counted' /\ Rested' /\ Concluded'
    BY <1>1, <1>2, <1>3, <1>4, Stays
<1>6. /\ outcome' \in [Resources -> {"none", "ok", "failed"}]
      /\ outcome'[i] = IF Cached THEN outcome[i] ELSE "ok"
      /\ \A k \in Resources \ {i} : outcome'[k] = outcome[k]
    BY <1>1 DEF ExportIInv, ExportTypes
<1> HIDE DEF i
<1>7. ExportTypes'
    BY <1>1, <1>5, <1>6 DEF ExportIInv, ExportTypes, Threads
<1>8. Truthful'
    <2>1. Cached => outcome'[i] = "none"
        BY <1>1, <1>6 DEF ExportIInv, Truthful, i
    <2> QED BY <2>1, <1>1, <1>3, <1>4, <1>5, <1>6, EndKnown DEF ExportIInv, i, Fate
<1>9. Directories'
    <2>1. outcome'[i] # "none" \/ v = Doing("storing", i)
        BY <1>3, <1>6
    <2> QED BY <1>1, <1>3, <1>4, <1>5, <1>6, <2>1, TreeKnown DEF i
<1> QED BY <1>5, <1>7, <1>8, <1>9 DEF ExportIInv

LEMMA StoreKeeps ==
    ASSUME ExportIInv, NEW w \in Workers, NEW ok \in BOOLEAN, Store(w, ok)
    PROVE  ExportIInv'
<1> DEFINE i == worker[w].i
           v == [step |-> "reporting", i |-> i, ok |-> ok]
<1>1. /\ worker[w].step = "storing" /\ Busy(w) /\ i \in Resources
      /\ UNCHANGED <<stage, cancel, next, channel, listening, counts, dirty, journal, summary, dirs, staging>>
      /\ outcome' = [outcome EXCEPT ![i] = Fate(ok)]
      /\ worker' = [worker EXCEPT ![w] = v]
    BY ThreadTypes, BusyShape DEF Store, Busy, ExportIInv, Ok, Fate
<1>2. v \in Threads /\ v.step = "reporting" /\ v.i = i /\ v.ok = ok
    BY <1>1 DEF Threads
<1>3. /\ worker' \in [Workers -> Threads] /\ worker'[w] = v
      /\ \A o \in Workers \ {w} : worker'[o] = worker[o]
      /\ stage = "exporting"
      /\ Apart' /\ Accounted' /\ Counted' /\ Rested' /\ Concluded'
    BY <1>1, <1>2, Stays
<1>4. outcome'[i] = Fate(ok) /\ \A k \in Resources \ {i} : outcome'[k] = outcome[k]
    BY <1>1 DEF ExportIInv, ExportTypes
<1>5. Fate(ok) \in {"ok", "failed"}
    BY DEF Fate
<1> HIDE DEF v
<1>6. ExportTypes'
    BY <1>1, <1>3, <1>5 DEF ExportIInv, ExportTypes, Threads
<1> HIDE DEF i
<1>7. Truthful'
    BY <1>1, <1>2, <1>3, <1>4, EndKnown DEF ExportIInv, i
<1>8. Directories'
    <2>1. i \in dirs
        BY <1>1 DEF ExportIInv, Directories, i
    <2>2. i \notin staging
        BY <1>1, <1>3, StagingOf DEF i, Doing
    <2>3. staging' = staging \ {i}
        BY <1>1, <2>2
    <2> QED BY <1>1, <1>2, <1>3, <1>4, <1>5, <2>1, <2>3, TreeKnown DEF i
<1> QED BY <1>3, <1>6, <1>7, <1>8 DEF ExportIInv

LEMMA TakeKeeps ==
    ASSUME ExportIInv, NEW w \in Workers, Take(w)
    PROVE  ExportIInv'
<1> DEFINE i == next
           v == Doing("decoding", i)
<1>1. /\ worker[w] = Idle /\ stage = "exporting" /\ i \in Resources /\ next' = next + 1 /\ next' \in 1 .. N + 1
      /\ UNCHANGED <<stage, cancel, channel, listening, counts, dirty, dirs, staging, journal, summary, outcome>>
    BY RunAssumption DEF Take, ExportIInv, ExportTypes, Resources
<1>2. v \in Threads /\ v.step = "decoding" /\ v.i = i /\ v # Stopped
    BY <1>1 DEF Threads, Doing, Stopped
<1>3. /\ worker' \in [Workers -> Threads] /\ worker'[w] = v
      /\ \A o \in Workers \ {w} : worker'[o] = worker[o]
    BY <1>2, ThreadTypes, ThreadMoves DEF Take, ExportIInv
<1> HIDE DEF v
<1>4. ExportTypes'
    BY <1>1, <1>3 DEF ExportIInv, ExportTypes, Threads
<1>5. ~Busy(w) /\ worker[w] # Stopped /\ Busy(w)'
    BY <1>1, <1>2, <1>3 DEF Busy, Idle, Stopped
<1>6. next \in Nat /\ \A k \in Resources : k < next' <=> k < next \/ k = i
    BY <1>1 DEF Resources
<1>7. \A o \in Workers \ {w} : (Busy(o)' <=> Busy(o)) /\ (Busy(o) => worker[o].i \in Resources /\ worker[o].i < i)
    BY <1>3, ThreadTypes, BusyShape DEF Busy, ExportIInv, Apart
<1>8. \A n \in DOMAIN channel : channel[n].i \in Resources /\ channel[n].i < i
    BY ReportShape DEF ExportIInv, Apart, ExportTypes
<1>9. \A n \in DOMAIN journal : journal[n].i \in Resources /\ journal[n].i < i
    BY ReportShape DEF ExportIInv, Apart, ExportTypes
<1>10. \A k \in Resources : k < i => k # i
    BY <1>1 DEF Resources
<1>11. worker'[w].i = i
    BY <1>2, <1>3
<1> HIDE DEF i
<1>12. Apart'
    <2>1. \A o \in Workers : Busy(o)' => worker'[o].i < next'
        BY <1>1, <1>3, <1>6, <1>7, <1>11 DEF i
    <2>2. \A n \in DOMAIN channel : channel[n].i < next'
        BY <1>6, <1>8 DEF i
    <2>3. \A n \in DOMAIN journal : journal[n].i < next'
        BY <1>6, <1>9 DEF i
    <2>4. \A u, o \in Workers : Busy(u)' /\ Busy(o)' /\ worker'[u].i = worker'[o].i => u = o
        BY <1>3, <1>7, <1>10, <1>11 DEF ExportIInv, Apart
    <2>5. \A o \in Workers, n \in DOMAIN channel : Busy(o)' => worker'[o].i # channel[n].i
        BY <1>3, <1>7, <1>8, <1>10, <1>11 DEF ExportIInv, Apart
    <2>6. \A o \in Workers, n \in DOMAIN journal : Busy(o)' => worker'[o].i # journal[n].i
        BY <1>3, <1>7, <1>9, <1>10, <1>11 DEF ExportIInv, Apart
    <2> QED BY <1>1, <2>1, <2>2, <2>3, <2>4, <2>5, <2>6 DEF ExportIInv, Apart
<1>13. Accounted'
    BY <1>1, <1>3, <1>5, <1>6, <1>7, <1>11 DEF ExportIInv, Accounted
<1>14. Truthful'
    <2>1. \A k \in Resources : k >= next' => k >= next
        BY <1>1, <1>6 DEF Resources
    <2>2. outcome[i] = "none"
        BY <1>1, <1>6 DEF ExportIInv, Truthful, i
    <2>3. \A o \in Workers : worker'[o].step \in {"decoding", "decoded", "storing"} => outcome[worker'[o].i] = "none"
        BY <1>3, <1>11, <2>2 DEF ExportIInv, Truthful
    <2>4. \A o \in Workers : worker'[o].step = "reporting" => outcome[worker'[o].i] = Fate(worker'[o].ok)
        BY <1>2, <1>3 DEF ExportIInv, Truthful
    <2> QED BY <1>1, <2>1, <2>3, <2>4 DEF ExportIInv, Truthful
<1>15. Directories'
    BY <1>1, <1>2, <1>3, FreeKeepsTree DEF Idle
<1>16. Counted' /\ Rested' /\ Concluded'
    <2>1. \A o \in Workers : worker'[o] = Stopped => worker[o] = Stopped
        BY <1>2, <1>3
    <2>2. (\E o \in Workers : worker[o] = Stopped) => cancel \/ ~listening
        <3>1. next # N + 1
            BY <1>1, RunAssumption DEF i, Resources
        <3> QED BY <1>1, <3>1 DEF ExportIInv, Rested
    <2> QED BY <1>1, <2>1, <2>2 DEF ExportIInv, Counted, Rested, Concluded, JournalOk, JournalFailed
<1> QED BY <1>4, <1>12, <1>13, <1>14, <1>15, <1>16 DEF ExportIInv

LEMMA StopKeeps ==
    ASSUME ExportIInv, NEW w \in Workers, Stop(w) \/ SendFails(w)
    PROVE  ExportIInv'
<1>1. /\ stage = "exporting"
      /\ worker[w].step \in {"idle", "reporting"}
      /\ worker[w] = Idle => cancel \/ next > N
      /\ worker[w] # Idle => Busy(w) /\ ~listening
      /\ UNCHANGED <<stage, cancel, next, channel, listening, counts, dirty, dirs, staging, journal, summary, outcome>>
    <2>1. CASE Stop(w)
        BY <2>1 DEF Stop, Idle
    <2>2. CASE SendFails(w)
        BY <2>2 DEF SendFails, ExportIInv, Rested, Stopped, Idle, Busy
    <2> QED BY <2>1, <2>2
<1>2. Stopped \in Threads /\ Stopped.step = "stopped"
    BY DEF Threads, Stopped
<1>3. /\ worker' \in [Workers -> Threads] /\ worker'[w] = Stopped
      /\ \A o \in Workers \ {w} : worker'[o] = worker[o]
    BY <1>2, ThreadTypes, ThreadMoves DEF Stop, SendFails, ExportIInv
<1>4. ExportTypes'
    BY <1>1, <1>3 DEF ExportIInv, ExportTypes, Threads
<1>5. \A o \in Workers : Busy(o)' => Busy(o) /\ worker'[o] = worker[o]
    BY <1>2, <1>3 DEF Busy
<1>6. Apart'
    BY <1>1, <1>5 DEF ExportIInv, Apart
<1>7. Accounted'
    <2>1. listening => ~Busy(w)
        BY <1>1 DEF Busy, Idle
    <2> QED BY <1>1, <1>3, <2>1 DEF ExportIInv, Accounted, Busy
<1>8. Truthful'
    BY <1>1, <1>2, <1>3 DEF ExportIInv, Truthful
<1>9. Directories'
    BY <1>1, <1>2, <1>3, FreeKeepsTree
<1>10. Counted' /\ Concluded'
    BY <1>1 DEF ExportIInv, Counted, Concluded, JournalOk, JournalFailed
<1>11. Rested'
    <2>1. next > N => next = N + 1
        BY RunAssumption DEF ExportIInv, ExportTypes
    <2> QED BY <1>1, <1>3, <2>1 DEF ExportIInv, Rested
<1> QED BY <1>4, <1>6, <1>7, <1>8, <1>9, <1>10, <1>11 DEF ExportIInv

LEMMA AppendIs ==
    ASSUME NEW q \in Seq(Reports), NEW r \in Reports, NEW p, p = Append(q, r)
    PROVE  /\ p \in Seq(Reports)
           /\ Len(p) = Len(q) + 1 /\ Len(q) \in Nat
           /\ DOMAIN p = DOMAIN q \cup {Len(q) + 1} /\ Len(q) + 1 \notin DOMAIN q
           /\ \A n \in DOMAIN q : p[n] = q[n]
           /\ p[Len(q) + 1] = r
OBVIOUS

LEMMA TailIs ==
    ASSUME NEW q \in Seq(Reports), q # <<>>, NEW p, p = Tail(q)
    PROVE  /\ p \in Seq(Reports) /\ Head(q) \in Reports /\ Head(q) = q[1] /\ 1 \in DOMAIN q
           /\ Len(p) = Len(q) - 1 /\ Len(q) \in Nat
           /\ \A n \in DOMAIN p : n + 1 \in DOMAIN q /\ p[n] = q[n + 1] /\ n + 1 # 1
           /\ \A n \in DOMAIN q : n # 1 => n - 1 \in DOMAIN p /\ q[n] = p[n - 1]
           /\ \A m, n \in DOMAIN p : m + 1 = n + 1 => m = n
OBVIOUS

LEMMA SendKeeps ==
    ASSUME ExportIInv, NEW w \in Workers, Send(w)
    PROVE  ExportIInv'
<1> DEFINE r == Report(worker[w].i, worker[w].ok)
           c == Len(channel) + 1
<1>1. /\ worker[w].step = "reporting" /\ Busy(w) /\ listening
      /\ worker[w].i \in Resources /\ worker[w].ok \in BOOLEAN
      /\ Len(channel) < Cardinality(Workers) /\ Cardinality(Workers) \in Nat
      /\ channel' = Append(channel, r)
      /\ UNCHANGED <<stage, cancel, next, listening, counts, dirty, dirs, staging, journal, summary, outcome>>
    BY RunAssumption, FS_CardinalityType, ThreadTypes, BusyShape DEF Send, Busy, ExportIInv
<1>2. stage = "exporting"
    BY <1>1 DEF ExportIInv, Rested, Stopped
<1>3. r \in Reports /\ r.i = worker[w].i /\ r.ok = worker[w].ok
    BY <1>1 DEF Reports, Report
<1>4. channel \in Seq(Reports)
    BY DEF ExportIInv, ExportTypes
<1>5. /\ channel' \in Seq(Reports)
      /\ Len(channel') = c /\ c \in Nat
      /\ DOMAIN channel' = DOMAIN channel \cup {c} /\ c \notin DOMAIN channel
      /\ \A n \in DOMAIN channel : channel'[n] = channel[n]
      /\ channel'[c] = r
    <2> HIDE DEF r
    <2> QED BY <1>1, <1>3, <1>4, AppendIs
<1>6. Idle \in Threads /\ Idle.step = "idle"
    BY DEF Threads, Idle
<1>7. /\ worker' \in [Workers -> Threads] /\ worker'[w] = Idle
      /\ \A o \in Workers \ {w} : worker'[o] = worker[o]
    BY <1>6, ThreadTypes, ThreadMoves DEF Send, ExportIInv
<1>8. c <= Cardinality(Workers)
    BY <1>1, <1>4
<1> HIDE DEF c, r
<1>9. ExportTypes'
    BY <1>1, <1>5, <1>7, <1>8 DEF ExportIInv, ExportTypes, Threads
<1>10. \A o \in Workers : Busy(o)' => Busy(o) /\ worker'[o] = worker[o] /\ o # w
    BY <1>6, <1>7 DEF Busy
<1>11. \A n \in DOMAIN channel' : IF n = c THEN channel'[n] = r ELSE n \in DOMAIN channel /\ channel'[n] = channel[n]
    BY <1>5
<1>12. Apart'
    <2>1. \A n \in DOMAIN channel' : channel'[n].i < next
        BY <1>1, <1>3, <1>11 DEF ExportIInv, Apart
    <2>2. \A m, n \in DOMAIN channel' : channel'[m].i = channel'[n].i => m = n
        BY <1>1, <1>3, <1>11 DEF ExportIInv, Apart
    <2>3. \A o \in Workers, n \in DOMAIN channel' : Busy(o)' => worker'[o].i # channel'[n].i
        BY <1>1, <1>3, <1>10, <1>11 DEF ExportIInv, Apart
    <2>4. \A m \in DOMAIN channel', n \in DOMAIN journal : channel'[m].i # journal[n].i
        BY <1>1, <1>3, <1>11 DEF ExportIInv, Apart
    <2> QED BY <1>1, <1>10, <2>1, <2>2, <2>3, <2>4 DEF ExportIInv, Apart
<1>13. Accounted'
    <2> SUFFICES ASSUME listening, stage # "killed", NEW i \in Resources, i < next
                 PROVE  \/ \E o \in Workers : Busy(o)' /\ worker'[o].i = i
                        \/ \E n \in DOMAIN channel' : channel'[n].i = i
                        \/ \E n \in DOMAIN journal : journal[n].i = i
        BY <1>1 DEF Accounted
    <2>1. CASE \E n \in DOMAIN channel : channel[n].i = i
        BY <1>5, <2>1
    <2>2. ASSUME NEW o \in Workers, Busy(o), worker[o].i = i
          PROVE  \/ \E u \in Workers : Busy(u)' /\ worker'[u].i = i
                 \/ \E n \in DOMAIN channel' : channel'[n].i = i
        <3>1. CASE o = w
            BY <1>3, <1>5, <2>2, <3>1
        <3>2. CASE o # w
            BY <1>7, <2>2, <3>2 DEF Busy
        <3> QED BY <3>1, <3>2
    <2> QED BY <2>1, <2>2 DEF ExportIInv, Accounted
<1>14. Truthful'
    <2>1. \A n \in DOMAIN channel' : outcome[channel'[n].i] = Fate(channel'[n].ok)
        BY <1>1, <1>3, <1>11 DEF ExportIInv, Truthful
    <2> QED BY <1>1, <1>6, <1>7, <2>1 DEF ExportIInv, Truthful
<1>15. Directories'
    BY <1>1, <1>6, <1>7, FreeKeepsTree
<1>16. Counted' /\ Rested' /\ Concluded'
    <2>1. \A o \in Workers : worker'[o] = Stopped => worker[o] = Stopped
        BY <1>7 DEF Idle, Stopped
    <2>2. stage # "finished" /\ ~summary.complete
        BY <1>2 DEF ExportIInv, Concluded
    <2> QED BY <1>1, <1>2, <2>1, <2>2 DEF ExportIInv, Counted, Rested, Concluded, JournalOk, JournalFailed
<1> QED BY <1>9, <1>12, <1>13, <1>14, <1>15, <1>16 DEF ExportIInv

LEMMA JournalCards ==
    /\ IsFiniteSet(Resources) /\ Cardinality(Resources) = N
    /\ IsFiniteSet(JournalOk) /\ IsFiniteSet(JournalFailed)
    /\ JournalOk \subseteq Resources /\ JournalFailed \subseteq Resources
    /\ Cardinality(JournalOk) \in 0 .. N /\ Cardinality(JournalFailed) \in 0 .. N
<1>1. IsFiniteSet(Resources) /\ Cardinality(Resources) = N
    BY RunAssumption, FS_Interval DEF Resources
<1>2. JournalOk \subseteq Resources /\ JournalFailed \subseteq Resources
    BY DEF JournalOk, JournalFailed
<1>3. \A S \in SUBSET Resources : IsFiniteSet(S) /\ Cardinality(S) \in Nat /\ Cardinality(S) <= N
    BY <1>1, FS_Subset, FS_CardinalityType
<1>4. \A n \in Nat : n <= N => n \in 0 .. N
    BY RunAssumption
<1> QED BY <1>1, <1>2, <1>3, <1>4

LEMMA JournalGrows ==
    ASSUME journal \in Seq(Reports), NEW r \in Reports, journal' = Append(journal, r)
    PROVE  /\ JournalOk' = IF r.ok THEN JournalOk \cup {r.i} ELSE JournalOk
           /\ JournalFailed' = IF r.ok THEN JournalFailed ELSE JournalFailed \cup {r.i}
<1>1. /\ DOMAIN journal' = DOMAIN journal \cup {Len(journal) + 1}
      /\ \A n \in DOMAIN journal : journal'[n] = journal[n]
      /\ journal'[Len(journal) + 1] = r
    BY AppendIs
<1>2. \A i, ok : (\E n \in DOMAIN journal' : journal'[n] = Report(i, ok))
                   <=> (\E n \in DOMAIN journal : journal[n] = Report(i, ok)) \/ r = Report(i, ok)
    <2> SUFFICES ASSUME NEW i, NEW ok
                 PROVE  (\E n \in DOMAIN journal' : journal'[n] = Report(i, ok))
                   <=> (\E n \in DOMAIN journal : journal[n] = Report(i, ok)) \/ r = Report(i, ok)
        OBVIOUS
    <2> QED BY <1>1
<1>3. r.i \in Resources /\ r.ok \in BOOLEAN /\ r = Report(r.i, r.ok)
    BY DEF Reports, Report
<1>4. \A i, ok : r = Report(i, ok) <=> i = r.i /\ ok = r.ok
    BY <1>3 DEF Report
<1>5. /\ \A i : i \in JournalOk' <=> i \in Resources /\ (i \in JournalOk \/ r = Report(i, TRUE))
      /\ \A i : i \in JournalFailed' <=> i \in Resources /\ (i \in JournalFailed \/ r = Report(i, FALSE))
    BY <1>2 DEF JournalOk, JournalFailed
<1>6. JournalOk \subseteq Resources /\ JournalFailed \subseteq Resources
    BY DEF JournalOk, JournalFailed
<1>7. CASE r.ok
    <2>1. \A i : r = Report(i, TRUE) <=> i = r.i
        BY <1>3, <1>4, <1>7
    <2>2. \A i : r # Report(i, FALSE)
        BY <1>4, <1>7
    <2> QED BY <1>3, <1>5, <1>6, <1>7, <2>1, <2>2
<1>8. CASE ~r.ok
    <2>1. \A i : r = Report(i, FALSE) <=> i = r.i
        BY <1>3, <1>4, <1>8
    <2>2. \A i : r # Report(i, TRUE)
        BY <1>4, <1>8
    <2> QED BY <1>3, <1>5, <1>6, <1>8, <2>1, <2>2
<1> QED BY <1>7, <1>8

LEMMA ReceiveKeeps ==
    ASSUME ExportIInv, Receive
    PROVE  ExportIInv'
<1> DEFINE r == Head(channel)
           c == Len(journal) + 1
<1>1. /\ stage = "exporting" /\ listening /\ ~dirty /\ dirty' = TRUE
      /\ channel # <<>> /\ channel' = Tail(channel)
      /\ counts' = IF r.ok THEN [counts EXCEPT !.succeeded = @ + 1] ELSE [counts EXCEPT !.failed = @ + 1]
      /\ journal' = Append(journal, r)
      /\ UNCHANGED <<stage, cancel, next, worker, listening, dirs, staging, summary, outcome>>
    BY DEF Receive
<1>2. channel \in Seq(Reports) /\ journal \in Seq(Reports)
    BY DEF ExportIInv, ExportTypes
<1>3. /\ channel' \in Seq(Reports) /\ r \in Reports /\ r = channel[1] /\ 1 \in DOMAIN channel
      /\ Len(channel') = Len(channel) - 1 /\ Len(channel) \in Nat
      /\ \A n \in DOMAIN channel' : n + 1 \in DOMAIN channel /\ channel'[n] = channel[n + 1] /\ n + 1 # 1
      /\ \A n \in DOMAIN channel : n # 1 => n - 1 \in DOMAIN channel' /\ channel[n] = channel'[n - 1]
      /\ \A m, n \in DOMAIN channel' : m + 1 = n + 1 => m = n
    BY <1>1, <1>2, TailIs
<1>4. /\ journal' \in Seq(Reports)
      /\ Len(journal') = c /\ Len(journal) \in Nat
      /\ DOMAIN journal' = DOMAIN journal \cup {c} /\ c \notin DOMAIN journal
      /\ \A n \in DOMAIN journal : journal'[n] = journal[n]
      /\ journal'[c] = r
    <2> HIDE DEF r
    <2> QED BY <1>1, <1>2, <1>3, AppendIs
<1>5. r.i \in Resources /\ r.ok \in BOOLEAN
    BY <1>2, <1>3, ReportShape
<1>6. /\ JournalOk' = IF r.ok THEN JournalOk \cup {r.i} ELSE JournalOk
      /\ JournalFailed' = IF r.ok THEN JournalFailed ELSE JournalFailed \cup {r.i}
    <2> HIDE DEF r
    <2> QED BY <1>1, <1>2, <1>3, JournalGrows
<1>7. \A n \in DOMAIN journal : journal[n].i # r.i
    BY <1>3 DEF ExportIInv, Apart
<1>8. r.i \notin JournalOk /\ r.i \notin JournalFailed
    <2>1. \A ok : Report(r.i, ok).i = r.i
        BY DEF Report
    <2> HIDE DEF r
    <2> QED BY <1>7, <2>1 DEF JournalOk, JournalFailed
<1> HIDE DEF r
<1>9. counts' = [succeeded |-> Cardinality(JournalOk)', failed |-> Cardinality(JournalFailed)', complete |-> FALSE]
    <2>1. counts = [succeeded |-> Cardinality(JournalOk), failed |-> Cardinality(JournalFailed), complete |-> FALSE]
        BY DEF ExportIInv, Counted
    <2>2. CASE r.ok
        <3>1. Cardinality(JournalOk)' = Cardinality(JournalOk) + 1 /\ JournalFailed' = JournalFailed
            BY <1>6, <1>8, <2>2, JournalCards, FS_AddElement
        <3> QED BY <1>1, <2>1, <2>2, <3>1
    <2>3. CASE ~r.ok
        <3>1. Cardinality(JournalFailed)' = Cardinality(JournalFailed) + 1 /\ JournalOk' = JournalOk
            BY <1>6, <1>8, <2>3, JournalCards, FS_AddElement
        <3> QED BY <1>1, <2>1, <2>3, <3>1
    <2> QED BY <2>2, <2>3
<1>10. Counted'
    <2>1. Len(journal) = counts.succeeded + counts.failed
        BY DEF ExportIInv, Counted
    <2>2. counts.succeeded \in Nat /\ counts.failed \in Nat
        BY RunAssumption DEF ExportIInv, ExportTypes, Summaries
    <2>3. counts'.succeeded + counts'.failed = counts.succeeded + counts.failed + 1
        <3>1. counts = [succeeded |-> counts.succeeded, failed |-> counts.failed, complete |-> counts.complete]
            BY DEF ExportIInv, Counted
        <3> QED BY <1>1, <2>2, <3>1
    <2> QED BY <1>4, <1>9, <2>1, <2>3 DEF Counted
<1>11. ExportTypes'
    <2>1. /\ Cardinality(JournalOk)' \in 0 .. N /\ Cardinality(JournalFailed)' \in 0 .. N
        <3>1. JournalOk' \subseteq Resources /\ JournalFailed' \subseteq Resources
            BY <1>5, <1>6, JournalCards
        <3>2. \A S \in SUBSET Resources : Cardinality(S) \in Nat /\ Cardinality(S) <= N
            BY JournalCards, FS_Subset, FS_CardinalityType
        <3>3. \A n \in Nat : n <= N => n \in 0 .. N
            BY RunAssumption
        <3> QED BY <3>1, <3>2, <3>3
    <2>2. counts' \in Summaries
        BY <1>9, <2>1 DEF Summaries
    <2>3. Len(channel') <= Cardinality(Workers)
        BY <1>3, RunAssumption, FS_CardinalityType DEF ExportIInv, ExportTypes
    <2> QED BY <1>1, <1>3, <1>4, <2>2, <2>3 DEF ExportIInv, ExportTypes
<1> HIDE DEF c
<1>12. \A n \in DOMAIN journal' : IF n = c THEN journal'[n] = r ELSE n \in DOMAIN journal /\ journal'[n] = journal[n]
    BY <1>4
<1>13. \A n \in DOMAIN channel' : channel'[n].i # r.i
    BY <1>3 DEF ExportIInv, Apart
<1>14. Apart'
    <2>1. \A n \in DOMAIN channel' : channel'[n].i < next
        BY <1>3 DEF ExportIInv, Apart
    <2>2. \A n \in DOMAIN journal' : journal'[n].i < next
        BY <1>3, <1>12 DEF ExportIInv, Apart
    <2>3. \A m, n \in DOMAIN channel' : channel'[m].i = channel'[n].i => m = n
        BY <1>3 DEF ExportIInv, Apart
    <2>4. \A m, n \in DOMAIN journal' : journal'[m].i = journal'[n].i => m = n
        BY <1>7, <1>12 DEF ExportIInv, Apart
    <2>5. \A o \in Workers, n \in DOMAIN channel' : Busy(o) => worker[o].i # channel'[n].i
        BY <1>3 DEF ExportIInv, Apart
    <2>6. \A o \in Workers, n \in DOMAIN journal' : Busy(o) => worker[o].i # journal'[n].i
        BY <1>3, <1>12 DEF ExportIInv, Apart
    <2>7. \A m \in DOMAIN channel', n \in DOMAIN journal' : channel'[m].i # journal'[n].i
        <3>1. \A m \in DOMAIN channel', n \in DOMAIN journal : channel'[m].i # journal[n].i
            BY <1>3 DEF ExportIInv, Apart
        <3> QED BY <1>12, <1>13, <3>1
    <2>8. \A o \in Workers : Busy(o)' <=> Busy(o)
        BY <1>1 DEF Busy
    <2> QED BY <1>1, <2>1, <2>2, <2>3, <2>4, <2>5, <2>6, <2>7, <2>8 DEF ExportIInv, Apart
<1>15. Accounted'
    <2> SUFFICES ASSUME listening, stage # "killed", NEW i \in Resources, i < next
                 PROVE  \/ \E o \in Workers : Busy(o) /\ worker[o].i = i
                        \/ \E n \in DOMAIN channel' : channel'[n].i = i
                        \/ \E n \in DOMAIN journal' : journal'[n].i = i
        BY <1>1 DEF Accounted, Busy
    <2>1. ASSUME NEW n \in DOMAIN channel, channel[n].i = i
          PROVE  \/ \E m \in DOMAIN channel' : channel'[m].i = i
                 \/ \E m \in DOMAIN journal' : journal'[m].i = i
        <3>1. CASE n = 1
            BY <1>3, <1>4, <2>1, <3>1
        <3>2. CASE n # 1
            BY <1>3, <2>1, <3>2
        <3> QED BY <3>1, <3>2
    <2>2. (\E n \in DOMAIN journal : journal[n].i = i) => \E n \in DOMAIN journal' : journal'[n].i = i
        BY <1>4
    <2> QED BY <2>1, <2>2 DEF ExportIInv, Accounted
<1>16. Truthful'
    <2>1. \A n \in DOMAIN channel' : outcome[channel'[n].i] = Fate(channel'[n].ok)
        BY <1>3 DEF ExportIInv, Truthful
    <2>2. \A n \in DOMAIN journal' : outcome[journal'[n].i] = Fate(journal'[n].ok)
        BY <1>3, <1>12 DEF ExportIInv, Truthful
    <2> QED BY <1>1, <2>1, <2>2 DEF ExportIInv, Truthful
<1>17. Directories'
    BY <1>1 DEF ExportIInv, Directories
<1>18. Rested' /\ Concluded'
    BY <1>1 DEF ExportIInv, Rested, Concluded
<1> QED BY <1>10, <1>11, <1>14, <1>15, <1>16, <1>17, <1>18 DEF ExportIInv

(* Steps that leave the workers, the reports and the tree alone.           *)
LEMMA OthersKeep ==
    ASSUME ExportIInv, Summarise \/ CollectorFails \/ Cancel
    PROVE  ExportIInv'
<1>1. /\ stage = "exporting" /\ UNCHANGED <<stage, next, worker, channel, counts, dirs, staging, journal, outcome>>
      /\ listening' => listening
      /\ listening' \in BOOLEAN /\ dirty' \in BOOLEAN /\ cancel' \in BOOLEAN
      /\ cancel \/ ~listening => cancel' \/ ~listening'
      /\ summary' \in {summary, counts}
      /\ ~listening' => ~dirty'
    <2>1. CASE Summarise
        BY <2>1 DEF Summarise, ExportIInv, Rested, ExportTypes
    <2>2. CASE CollectorFails
        BY <2>2 DEF CollectorFails, ExportIInv, ExportTypes
    <2>3. CASE Cancel
        BY <2>3 DEF Cancel, ExportIInv, ExportTypes, Rested
    <2> QED BY <2>1, <2>2, <2>3
<1>2. ExportTypes'
    BY <1>1 DEF ExportIInv, ExportTypes
<1>3. Apart' /\ Accounted' /\ Truthful' /\ Directories'
    BY <1>1 DEF ExportIInv, Apart, Accounted, Truthful, Directories, Busy
<1>4. Counted' /\ Rested'
    BY <1>1 DEF ExportIInv, Counted, Rested, JournalOk, JournalFailed
<1>5. Concluded'
    <2>1. ~summary.complete /\ ~counts.complete
        BY <1>1 DEF ExportIInv, Concluded, Counted
    <2> QED BY <1>1, <2>1 DEF Concluded
<1> QED BY <1>2, <1>3, <1>4, <1>5 DEF ExportIInv

(* The end of a run: all that is left are files.                           *)
LEMMA EndKeeps ==
    ASSUME ExportIInv, Finish \/ Fail
    PROVE  ExportIInv'
<1>1. /\ stage = "exporting" /\ \A w \in Workers : worker[w] = Stopped
      /\ UNCHANGED <<cancel, next, worker, channel, listening, counts, dirty, dirs, staging, journal, outcome>>
      /\ stage' \in {"finished", "failed", "cancelled"}
      /\ ~dirty
    <2>1. CASE Finish
        BY <2>1 DEF Finish, Joined
    <2>2. CASE Fail
        BY <2>2 DEF Fail, Joined, ExportIInv, Rested
    <2> QED BY <2>1, <2>2
<1>2. PICK w \in Workers : worker[w] = Stopped
    BY <1>1, RunAssumption
<1>3. Apart' /\ Accounted' /\ Truthful' /\ Directories'
    BY <1>1 DEF ExportIInv, Apart, Accounted, Truthful, Directories, Busy
<1>4. Counted'
    BY <1>1 DEF ExportIInv, Counted, JournalOk, JournalFailed
<1>5. counts = [succeeded |-> counts.succeeded, failed |-> counts.failed, complete |-> FALSE]
    BY DEF ExportIInv, Counted
<1>6. counts.succeeded \in 0 .. N /\ counts.failed \in 0 .. N
    BY DEF ExportIInv, ExportTypes, Summaries
<1>7. ~summary.complete
    BY <1>1 DEF ExportIInv, Concluded
<1>8. CASE Finish
    <2>1. /\ summary' = [counts EXCEPT !.complete = counts.failed = 0 /\ counts.succeeded = N]
          /\ listening /\ channel = <<>>
          /\ stage' = IF cancel THEN "cancelled" ELSE "finished"
        BY <1>8 DEF Finish
    <2>2. summary' = [succeeded |-> counts.succeeded, failed |-> counts.failed,
                      complete |-> (counts.failed = 0 /\ counts.succeeded = N)]
        BY <1>5, <2>1
    <2>3. summary' \in Summaries
        BY <1>6, <2>2 DEF Summaries
    <2>4. ExportTypes'
        BY <1>1, <2>3 DEF ExportIInv, ExportTypes, Ended
    <2>5. stage' = "finished" => next = N + 1
        BY <1>1, <1>2, <2>1 DEF ExportIInv, Rested
    <2>6. Rested'
        BY <1>1, <2>5 DEF ExportIInv, Rested
    <2>7. Concluded'
        BY <1>1, <2>1 DEF Concluded
    <2> QED BY <1>3, <1>4, <2>4, <2>6, <2>7 DEF ExportIInv
<1>9. CASE Fail
    <2>1. stage' # "finished" /\ summary' = summary
        BY <1>9 DEF Fail
    <2>2. ExportTypes'
        BY <1>1, <2>1 DEF ExportIInv, ExportTypes, Ended
    <2>3. Rested'
        BY <1>1, <2>1 DEF ExportIInv, Rested
    <2>4. Concluded'
        BY <1>7, <2>1 DEF Concluded
    <2> QED BY <1>3, <1>4, <2>2, <2>3, <2>4 DEF ExportIInv
<1> QED BY <1>8, <1>9

LEMMA KillKeeps ==
    ASSUME ExportIInv, Kill
    PROVE  ExportIInv'
<1>1. /\ stage = "exporting" /\ stage' = "killed" /\ ~dirty' /\ dirty' \in BOOLEAN
      /\ worker' = [w \in Workers |-> Stopped]
      /\ UNCHANGED <<cancel, next, channel, listening, counts, dirs, staging, journal, summary, outcome>>
    BY DEF Kill
<1>2. Stopped \in Threads /\ Stopped.step = "stopped"
    BY DEF Threads, Stopped
<1>3. worker' \in [Workers -> Threads] /\ \A w \in Workers : worker'[w] = Stopped
    BY <1>1, <1>2
<1>4. ExportTypes'
    BY <1>1, <1>3 DEF ExportIInv, ExportTypes, Threads, Ended
<1>5. Apart'
    BY <1>1, <1>2, <1>3 DEF ExportIInv, Apart, Busy
<1>6. Accounted' /\ Rested'
    BY <1>1, <1>3 DEF ExportIInv, Accounted, Rested
<1>7. Truthful' /\ Directories'
    BY <1>1, <1>2, <1>3 DEF ExportIInv, Truthful, Directories
<1>8. Counted' /\ Concluded'
    BY <1>1 DEF ExportIInv, Counted, Concluded, JournalOk, JournalFailed
<1> QED BY <1>4, <1>5, <1>6, <1>7, <1>8 DEF ExportIInv

LEMMA RunStarts == ExportInit => ExportIInv
<1> SUFFICES ASSUME ExportInit PROVE ExportIInv
    OBVIOUS
<1>1. JournalOk = {} /\ JournalFailed = {}
    BY DEF ExportInit, JournalOk, JournalFailed
<1>2. Cardinality({}) = 0 /\ 0 \in 0 .. N /\ 1 \in 1 .. N + 1 /\ Cardinality(Workers) \in Nat
    BY FS_EmptySet, FS_CardinalityType, RunAssumption
<1>3. ExportTypes
    <2>1. NoSummary \in Summaries
        BY <1>2 DEF NoSummary, Summaries
    <2>2. <<>> \in Seq(Reports) /\ Len(<<>>) = 0
        OBVIOUS
    <2>3. Len(channel) <= Cardinality(Workers)
        BY <1>2, <2>2 DEF ExportInit
    <2> QED BY <1>2, <2>1, <2>2, <2>3 DEF ExportInit, ExportTypes
<1>4. \A w \in Workers : worker[w].step = "idle" /\ worker[w] # Stopped
    BY DEF ExportInit, Idle, Stopped
<1>5. Apart /\ Truthful /\ Directories
    BY <1>4, RunAssumption DEF ExportInit, Apart, Truthful, Directories, Busy, Resources
<1>6. Accounted
    BY RunAssumption DEF ExportInit, Accounted, Resources
<1>7. Counted
    <2>1. Cardinality(JournalOk) = 0 /\ Cardinality(JournalFailed) = 0
        BY <1>1, <1>2
    <2>2. Len(journal) = 0
        BY DEF ExportInit
    <2> QED BY <2>1, <2>2 DEF ExportInit, Counted, NoSummary
<1>8. Rested /\ Concluded
    BY <1>4 DEF ExportInit, Rested, Concluded, NoSummary
<1> QED BY <1>3, <1>5, <1>6, <1>7, <1>8 DEF ExportIInv

LEMMA RunKeeps == ASSUME ExportIInv, [ExportNext]_exportVars PROVE ExportIInv'
<1>1. CASE UNCHANGED exportVars
    BY <1>1 DEF exportVars, ExportIInv, ExportTypes, Apart, Accounted, Truthful, Directories, Counted, Rested,
        Concluded, Busy, JournalOk, JournalFailed
<1>2. CASE Collect
    BY <1>2, ReceiveKeeps, OthersKeep, EndKeeps DEF Collect
<1>3. CASE Cancel \/ Kill
    BY <1>3, OthersKeep, KillKeeps
<1>4. ASSUME NEW w \in Workers, Work(w) PROVE ExportIInv'
    BY <1>4, TakeKeeps, StopKeeps, DecodeKeeps, DecodeFailsKeeps, PromoteKeeps, SendKeeps, StoreKeeps DEF Work
<1> QED BY <1>1, <1>2, <1>3, <1>4 DEF ExportNext

LEMMA RunInductive == ExportSpec => []ExportIInv
BY RunStarts, RunKeeps, PTL DEF ExportSpec

-----------------------------------------------------------------------------
(* What the counts and the journal say of a run that is over.              *)
LEMMA AllReported ==
    ASSUME ExportIInv, Cardinality(JournalOk) + Cardinality(JournalFailed) = N
    PROVE  JournalOk \cup JournalFailed = Resources
<1>1. JournalOk \cap JournalFailed = {}
    <2> SUFFICES ASSUME NEW i \in JournalOk, i \in JournalFailed PROVE FALSE
        OBVIOUS
    <2>1. PICK m, n \in DOMAIN journal : journal[m] = Report(i, TRUE) /\ journal[n] = Report(i, FALSE)
        BY DEF JournalOk, JournalFailed
    <2>2. m = n
        BY <2>1 DEF ExportIInv, Apart, Report
    <2> QED BY <2>1, <2>2 DEF Report
<1>2. Cardinality(JournalOk \cup JournalFailed) = N
    <2>1. Cardinality(JournalOk \cap JournalFailed) = 0
        BY <1>1, FS_EmptySet
    <2>2. Cardinality(JournalOk) \in Nat /\ Cardinality(JournalFailed) \in Nat
        BY JournalCards, FS_CardinalityType
    <2>3. Cardinality(JournalOk \cup JournalFailed)
            = Cardinality(JournalOk) + Cardinality(JournalFailed) - Cardinality(JournalOk \cap JournalFailed)
        BY JournalCards, FS_Union
    <2> QED BY <2>1, <2>2, <2>3, RunAssumption
<1> QED BY <1>2, JournalCards, FS_Subset

LEMMA Reported ==
    ASSUME ExportIInv, NEW i \in Resources
    PROVE  /\ i \in JournalOk => outcome[i] = "ok"
           /\ i \in JournalFailed => outcome[i] = "failed"
BY DEF ExportIInv, Truthful, JournalOk, JournalFailed, Report, Fate

LEMMA AllDone ==
    ASSUME ExportIInv, listening, channel = <<>>, next = N + 1, stage # "killed",
           \A w \in Workers : worker[w] = Stopped
    PROVE  JournalOk \cup JournalFailed = Resources
<1> SUFFICES ASSUME NEW i \in Resources PROVE i \in JournalOk \cup JournalFailed
    BY JournalCards
<1>1. i < next
    BY RunAssumption DEF Resources
<1>2. PICK n \in DOMAIN journal : journal[n].i = i
    BY <1>1 DEF ExportIInv, Accounted, Busy, Stopped
<1>3. journal[n].ok \in BOOLEAN /\ journal[n] = Report(i, journal[n].ok)
    BY <1>2, ReportShape DEF ExportIInv, ExportTypes
<1> QED BY <1>3 DEF JournalOk, JournalFailed

LEMMA NobodyAtWork ==
    ASSUME ExportIInv, stage # "killed", \A w \in Workers : worker[w] = Stopped
    PROVE  staging = {} /\ \A i \in dirs : outcome[i] # "none"
<1>1. ASSUME NEW w \in Workers, NEW s \in {"storing", "decoded"}, NEW i PROVE worker[w] # Doing(s, i)
    <2>1. worker[w].step = "stopped" /\ Doing(s, i).step = s
        BY DEF Stopped, Doing
    <2> QED BY <2>1
<1> QED BY <1>1 DEF ExportIInv, Directories

LEMMA AllSucceeded ==
    ASSUME ExportIInv, summary.complete
    PROVE  CompleteMeansAll
<1>1. /\ stage \in {"finished", "cancelled"} /\ summary = [counts EXCEPT !.complete = counts.failed = 0 /\ counts.succeeded = N]
      /\ \A w \in Workers : worker[w] = Stopped
    BY DEF ExportIInv, Concluded, Rested
<1>2. counts = [succeeded |-> Cardinality(JournalOk), failed |-> Cardinality(JournalFailed), complete |-> FALSE]
    BY DEF ExportIInv, Counted
<1>3. Cardinality(JournalOk) = N
    BY <1>1, <1>2
<1>4. JournalOk = Resources
    BY <1>3, JournalCards, FS_Subset
<1>5. \A i \in Resources : outcome[i] = "ok" /\ i \in dirs
    BY <1>4, Reported DEF ExportIInv, Directories
<1>6. dirs = Resources
    BY <1>5 DEF ExportIInv, ExportTypes
<1>7. staging = {}
    BY <1>1, NobodyAtWork
<1> QED BY <1>4, <1>5, <1>6, <1>7 DEF CompleteMeansAll

LEMMA FinishedFacts ==
    ASSUME ExportIInv, stage = "finished"
    PROVE  /\ JournalOk \cup JournalFailed = Resources
           /\ Len(journal) = N
           /\ summary.succeeded = Cardinality(JournalOk)
           /\ summary.failed = Cardinality(JournalFailed)
           /\ summary.complete = (summary.failed = 0)
           /\ summary.succeeded + summary.failed = N
           /\ staging = {}
           /\ \A i \in dirs : outcome[i] # "none"
<1>1. /\ summary = [counts EXCEPT !.complete = counts.failed = 0 /\ counts.succeeded = N]
      /\ listening /\ channel = <<>> /\ next = N + 1
      /\ \A w \in Workers : worker[w] = Stopped
    BY DEF ExportIInv, Concluded, Rested
<1>2. /\ counts = [succeeded |-> Cardinality(JournalOk), failed |-> Cardinality(JournalFailed), complete |-> FALSE]
      /\ Len(journal) = counts.succeeded + counts.failed
    BY DEF ExportIInv, Counted
<1>3. JournalOk \cup JournalFailed = Resources
    BY <1>1, AllDone
<1>4. Cardinality(JournalOk) + Cardinality(JournalFailed) = N
    <2>1. JournalOk \cap JournalFailed = {}
        BY Reported, JournalCards
    <2>2. Cardinality(JournalOk \cup JournalFailed)
            = Cardinality(JournalOk) + Cardinality(JournalFailed) - Cardinality(JournalOk \cap JournalFailed)
        BY JournalCards, FS_Union
    <2>3. Cardinality(JournalOk \cap JournalFailed) = 0
        BY <2>1, FS_EmptySet
    <2>4. Cardinality(JournalOk) \in Nat /\ Cardinality(JournalFailed) \in Nat
        BY JournalCards, FS_CardinalityType
    <2>5. Cardinality(JournalOk \cup JournalFailed) = N
        BY <1>3, JournalCards
    <2> QED BY <2>2, <2>3, <2>4, <2>5
<1>5. summary = [succeeded |-> Cardinality(JournalOk), failed |-> Cardinality(JournalFailed),
                 complete |-> (Cardinality(JournalFailed) = 0 /\ Cardinality(JournalOk) = N)]
    BY <1>1, <1>2
<1>6. Cardinality(JournalFailed) = 0 => Cardinality(JournalOk) = N
    BY <1>4, JournalCards, FS_CardinalityType
<1>7. Len(journal) = N
    BY <1>2, <1>4
<1>8. staging = {} /\ \A i \in dirs : outcome[i] # "none"
    BY <1>1, NobodyAtWork
<1> QED BY <1>3, <1>4, <1>5, <1>6, <1>7, <1>8

(* What the summary says is what happened, at every moment and however the *)
(* run ends: complete means that every resource succeeded, has its         *)
(* directory and its report, and a run that finishes has a report of each  *)
(* (execute, process_resource).                                            *)
THEOREM SummaryIsTrue == ExportSpec => []ExportInv
<1>1. ExportIInv => ExportInv
    <2> SUFFICES ASSUME ExportIInv PROVE ExportInv
        OBVIOUS
    <2>1. CompleteMeansAll
        BY AllSucceeded DEF CompleteMeansAll
    <2>2. FinishedReportsEach
        BY FinishedFacts DEF FinishedReportsEach
    <2> QED BY <2>1, <2>2 DEF ExportIInv, ExportInv
<1> QED BY <1>1, RunInductive, PTL

(* The verification accepts, of whatever a run left behind, only trees     *)
(* with exactly the resources that succeeded, and it accepts every         *)
(* finished export with few enough failures that left no directories       *)
(* (prepare_with_progress).                                                *)
THEOREM VerifiedExactly == ExportSpec => []AcceptedExactly
<1>1. ASSUME ExportIInv, Accepted
      PROVE  /\ \A i \in Resources : outcome[i] # "none"
             /\ dirs = {i \in Resources : outcome[i] = "ok"}
             /\ Cardinality({i \in Resources : outcome[i] = "failed"}) <= MaxFailedResources
    <2>1. JournalOk \cup JournalFailed = Resources
        BY <1>1, AllReported DEF Accepted, SummaryFits, JournalAgrees
    <2>2. \A i \in Resources : outcome[i] # "none"
        BY <1>1, <2>1, Reported
    <2>3. JournalOk = {i \in Resources : outcome[i] = "ok"}
        BY <1>1, <2>1, Reported
    <2>4. JournalFailed = {i \in Resources : outcome[i] = "failed"}
        BY <1>1, <2>1, Reported
    <2>5. dirs = JournalOk
        BY <1>1 DEF Accepted, DirectoriesStand, NothingElse
    <2>6. Cardinality(JournalFailed) <= MaxFailedResources
        BY <1>1 DEF Accepted, SummaryFits, JournalAgrees
    <2> QED BY <2>2, <2>3, <2>4, <2>5, <2>6
<1>2. ASSUME ExportIInv, stage = "finished", summary.failed <= MaxFailedResources, summary.succeeded > 0,
             \A i \in dirs : outcome[i] # "failed"
      PROVE  Accepted
    <2>1. SummaryFits
        BY <1>2, FinishedFacts DEF SummaryFits
    <2>2. JournalAgrees
        BY <1>2, FinishedFacts DEF JournalAgrees, ExportIInv, Apart
    <2>3. \A i \in Resources : i \in JournalOk <=> outcome[i] = "ok"
        BY <1>2, FinishedFacts, Reported
    <2>4. JournalOk \subseteq dirs
        BY <1>2, <2>3, JournalCards DEF ExportIInv, Directories
    <2>5. dirs \subseteq JournalOk
        BY <1>2, <2>3, FinishedFacts DEF ExportIInv, ExportTypes
    <2> QED BY <1>2, <2>1, <2>2, <2>4, <2>5, FinishedFacts DEF Accepted, DirectoriesStand, NothingElse
<1>3. ExportIInv => AcceptedExactly
    BY <1>1, <1>2 DEF AcceptedExactly, AcceptedIsWhole, CleanAccepted
<1> QED BY <1>3, RunInductive, PTL
=============================================================================
