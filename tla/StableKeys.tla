----------------------------- MODULE StableKeys -----------------------------
(***************************************************************************)
(* The keys of the stable layout (src/stable_layout.rs): each output of an *)
(* export asks for readable keys made from the names the game gave it, and *)
(* the outputs claim them in catalog order.  What asks for a key that is   *)
(* taken shares it if the content is the same, or gets the first free      *)
(* "__dupN" variant.                                                       *)
(*                                                                         *)
(* A name is abstract, the rules that clean and shorten names are left     *)
(* out.  Classes stand for the groups of Unity classes that object_key     *)
(* treats alike; a CRI resource is a leaf, with cues when it is an ACB; an *)
(* object without a container is an "other" one in that of its bundle.     *)
(***************************************************************************)
EXTENDS Integers, Sequences, FiniteSets, SequencesExt

CONSTANTS
    Catalog,            \* the resources, in the order of the catalog
    Containers, Names,  \* names of containers, and of objects and cues
    Contents,
    Lower(_),           \* a name in lower case
    Lowercase           \* Options.lowercase

Sources == {Catalog[n] : n \in DOMAIN Catalog}
NoName == ""
Classes == {"texture", "behaviour", "leaf", "other"}

ASSUME NamesAssumption ==
    /\ Catalog \in Seq(Sources)
    /\ Lower(NoName) = NoName
    /\ \A x \in Containers \cup Names \cup {NoName} : Lower(Lower(x)) = Lower(x)
    /\ Lowercase \in BOOLEAN

(* One file of an export: the object it is from and its cues, if any.      *)
Output == [id: Nat, class: Classes, container: Containers, name: Names \cup {NoName},
           cues: Seq(Names), content: Contents]

(* inside: for an object that is not at its container's own path, its      *)
(* class, its name and its number if it has none; dup: the number of its   *)
(* "__dup" suffix, 1 without one.                                          *)
Key == [container: Containers \cup {Lower(c) : c \in Containers},
        inside: Seq(Classes \X (Names \cup {Lower(n) : n \in Names} \cup {NoName}) \X Nat),
        cue: Names \cup {Lower(n) : n \in Names} \cup {NoName},
        dup: Nat \ {0}]

Folded(k) ==
    [container |-> Lower(k.container),
     inside |-> [n \in DOMAIN k.inside |-> <<k.inside[n][1], Lower(k.inside[n][2]), k.inside[n][3]>>],
     cue |-> Lower(k.cue),
     dup |-> k.dup]

-----------------------------------------------------------------------------
(* An export: what each resource gave, but for those that failed *)

(* All outputs in catalog order, with the resource they are from.          *)
Tagged(export, s) ==
    IF s \in export.failed THEN <<>>
    ELSE [n \in DOMAIN export.outputs[s] |-> [source |-> s, output |-> export.outputs[s][n]]]

Listing(export) == FlattenSeq([n \in DOMAIN Catalog |-> Tagged(export, Catalog[n])])

-----------------------------------------------------------------------------
(* The keys an output asks for *)

(* A texture has exactly its container's name, a behaviour nearly.         *)
LikeContainer(o) ==
    IF o.class = "texture" THEN o.name = o.container ELSE Lower(o.name) = Lower(o.container)

Together(o, p) == Lower(o.container) = Lower(p.container)

(* The objects of class Texture2D in the container of an output: a texture *)
(* that two resources bring counts twice.                                  *)
Textures(outs, o) ==
    {<<outs[n].source, outs[n].output.id>> : n \in
        {m \in DOMAIN outs : outs[m].output.class = "texture" /\ Together(outs[m].output, o)}}

Flat(outs, o) ==
    CASE o.class = "leaf" -> TRUE
      [] o.class = "behaviour" -> LikeContainer(o)
      [] o.class = "texture" -> LikeContainer(o) /\ Cardinality(Textures(outs, o)) = 1
      [] OTHER -> FALSE

(* An object without a name is numbered within its container and class, in *)
(* catalog order; all its outputs have the same number.                    *)
Unnamed(outs, o) ==
    {n \in DOMAIN outs :
        LET p == outs[n].output
        IN p.name = NoName /\ p.class = o.class /\ Together(p, o) /\ ~Flat(outs, p)}

Number(outs, o) ==
    LET same == Unnamed(outs, o)
        before == {n \in same : \A m \in same : outs[m].output.id = o.id => n < m}
    IN Cardinality({outs[n].output.id : n \in before})

Base(outs, o) ==
    [container |-> o.container,
     inside |-> IF Flat(outs, o) THEN <<>>
                ELSE <<<<o.class, o.name, IF o.name = NoName THEN Number(outs, o) ELSE 0>>>>,
     cue |-> NoName,
     dup |-> 1]

(* One key, or one for each cue that plays the track.                      *)
Asked(outs, o) ==
    LET base == Base(outs, o)
        keys == IF o.cues = <<>> THEN <<base>>
                ELSE [n \in DOMAIN o.cues |-> [base EXCEPT !.cue = o.cues[n]]]
    IN IF Lowercase THEN [n \in DOMAIN keys |-> Folded(keys[n])] ELSE keys

(* The claims of an export in the order they are made.                     *)
ClaimsOf(outs, t) ==
    LET asked == Asked(outs, t.output)
    IN [n \in DOMAIN asked |->
           [key |-> asked[n], content |-> t.output.content, source |-> t.source]]

Claims(export) ==
    LET outs == Listing(export)
    IN FlattenSeq([n \in DOMAIN outs |-> ClaimsOf(outs, outs[n])])

-----------------------------------------------------------------------------
(* Claiming *)

Entry == [content: Contents, source: Sources]

Candidate(k, n) == [k EXCEPT !.dup = n]

(* Mutation of Holders: keys that differ in case are different.            *)
HoldersExact(plan, k) == {h \in DOMAIN plan : h = k}

(* The key of the plan that compares equal, if there is one.               *)
Holders(plan, k) == {h \in DOMAIN plan : Folded(h) = Folded(k)}

Free(plan, k) == Holders(plan, k) = {}
Shared(plan, k, content) == \E h \in Holders(plan, k) : plan[h].content = content

(* Mutation of Settles: a key that is taken is shared, whatever it holds.  *)
SettlesAny(plan, c, n) == TRUE

Settles(plan, c, n) ==
    LET k == Candidate(c.key, n)
    IN Free(plan, k) \/ Shared(plan, k, c.content)

(* Among this many variants one is free.                                   *)
Variants(plan) == 1 .. Cardinality(DOMAIN plan) + 1

Claimed(plan, c) ==
    Candidate(c.key, CHOOSE n \in Variants(plan) :
        Settles(plan, c, n) /\ \A m \in 1 .. n - 1 : ~Settles(plan, c, m))

Claim(plan, c) ==
    LET k == Claimed(plan, c)
    IN IF Free(plan, k)
       THEN [x \in DOMAIN plan \cup {k} |->
                IF x = k THEN [content |-> c.content, source |-> c.source] ELSE plan[x]]
       ELSE plan

(* plan_resources: the plan of an export.                                  *)
Planned(export) == FoldLeft(Claim, <<>>, Claims(export))

-----------------------------------------------------------------------------
(* What a plan promises *)

\* No two keys of a plan compare equal when their case is ignored.
CaseApart(plan) ==
    \A k \in DOMAIN plan, h \in DOMAIN plan : Folded(k) = Folded(h) => k = h

Variant(k, base) == Folded([k EXCEPT !.dup = 1]) = Folded(base)

\* Each output is published under a key it asked for or a variant of one, with
\* its own content, and nothing else is.
AllPlanned(plan, export) ==
    LET claims == ToSet(Claims(export))
    IN /\ \A c \in claims :
             \E k \in DOMAIN plan : Variant(k, c.key) /\ plan[k].content = c.content
       /\ \A k \in DOMAIN plan :
             \E c \in claims : /\ Variant(k, c.key)
                               /\ plan[k] = [content |-> c.content, source |-> c.source]
=============================================================================
