------------------------ MODULE MC_StablePublication ------------------------
(* Two resources over three publications.  The first has one file at path  *)
(* c; the second has nothing, a file at path C, a track that two cues of   *)
(* C play, or a texture and an object without a name in container c.  Keys *)
(* keep their case, and somebody else may keep objects at c and its        *)
(* variant.                                                                *)
EXTENDS StablePublication, TLC

CONSTANTS s1, s2, a, b

MCCatalog == <<s1, s2>>

MCLower(name) == IF name = "C" THEN "c" ELSE name

MCFile(class, container, content) ==
    [id |-> IF class = "texture" THEN 1 ELSE 2, class |-> class, container |-> container,
     name |-> IF class = "texture" THEN "c" ELSE NoName, cues |-> <<>>, content |-> content]

MCOffers(s) ==
    IF s = s1
    THEN {<<MCFile("leaf", "c", x)>> : x \in Contents}
    ELSE {<<MCFile("leaf", "C", x)>> : x \in Contents}
         \cup {<<MCFile("texture", "c", x), MCFile("other", "c", a)>> : x \in Contents}
         \cup {<<[MCFile("leaf", "C", b) EXCEPT !.cues = <<"m", "c">>]>>}
         \cup {<<>>}

MCForeign == {[container |-> "c", inside |-> <<>>, cue |-> NoName, dup |-> n] : n \in {1, 2}}
=============================================================================
