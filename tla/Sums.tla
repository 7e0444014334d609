-------------------------------- MODULE Sums --------------------------------
(***************************************************************************)
(* Sums over finite sets, for the proofs about counters, budgets and       *)
(* caches: SumFunctionOnSet of module Functions adds the values of a       *)
(* function in an order that is not known.                                 *)
(*                                                                         *)
(* Its definition is recursive on the set.  The induction is on the set    *)
(* inclusion: a set of counterexamples has a smallest one.                 *)
(***************************************************************************)
EXTENDS Integers, SequencesExt, FiniteSetTheorems, SequenceTheorems, WellFoundedInduction, TLAPS

LEMMA LeastSet ==
    ASSUME NEW S, IsFiniteSet(S), NEW Bad \in SUBSET (SUBSET S), Bad # {}
    PROVE  \E T \in Bad : \A U \in Bad : U \subseteq T => U = T
<1>1. IsWellFoundedOn(StrictSubsetOrdering(S), SUBSET S)
    BY FS_StrictSubsetOrderingWellFounded, FS_FiniteSubsetsOfFinite
<1>2. PICK T \in Bad : \A U \in Bad : ~(<<U, T>> \in StrictSubsetOrdering(S))
    BY <1>1, WFMin
<1>3. ASSUME NEW U \in Bad, U \subseteq T PROVE U = T
    BY <1>2, <1>3 DEF StrictSubsetOrdering
<1> QED BY <1>3

(* The least of the numbers that a set of them has.                        *)
LEMMA LeastNumber ==
    ASSUME NEW S \in SUBSET Nat, S # {}
    PROVE  \E n \in S : \A m \in S : n <= m
<1>1. PICK n \in S : \A m \in S : ~(<<m, n>> \in OpToRel(<, Nat))
    BY NatLessThanWellFounded, WFMin
<1>2. ASSUME NEW m \in S PROVE n <= m
    <2>1. ~(m < n) BY <1>1 DEF OpToRel
    <2> QED BY <2>1
<1> QED BY <1>2

(* Induction over the numbers, for a property given as the set of those    *)
(* that have it.                                                           *)
LEMMA CountUp ==
    ASSUME NEW S, 0 \in S, \A n \in Nat : n \in S => n + 1 \in S
    PROVE  Nat \subseteq S
<1> DEFINE Bad == Nat \ S
<1>1. SUFFICES ASSUME Bad # {} PROVE FALSE
    OBVIOUS
<1>2. PICK n \in Bad : \A m \in Bad : n <= m
    <2>1. Bad \in SUBSET Nat
        OBVIOUS
    <2> HIDE DEF Bad
    <2> QED BY <1>1, <2>1, LeastNumber
<1>3. n - 1 \in Nat /\ n - 1 \notin Bad
    BY <1>2
<1> QED BY <1>2, <1>3

-----------------------------------------------------------------------------
(* The recursion *)

Picked(s) == CHOOSE x \in s : TRUE

Unfolds(f, W, S) ==
    f = [s \in SUBSET S |-> IF s = {} THEN 0 ELSE W[Picked(s)] + f[s \ {Picked(s)}]]

LEMMA SumByRecursion ==
    ASSUME NEW W, NEW S
    PROVE  SumFunctionOnSet(W, S) = (CHOOSE f : Unfolds(f, W, S))[S]
BY Zenon DEF SumFunctionOnSet, FoldFunctionOnSet, MapThenFoldSet, Picked, Unfolds

LEMMA UnfoldsAt ==
    ASSUME NEW W, NEW S, NEW f, Unfolds(f, W, S), NEW s \in SUBSET S
    PROVE  f[s] = IF s = {} THEN 0 ELSE W[Picked(s)] + f[s \ {Picked(s)}]
BY Zenon DEF Unfolds

LEMMA PickedIn == ASSUME NEW s, s # {} PROVE Picked(s) \in s
BY DEF Picked

LEMMA UnfoldsOnce ==
    ASSUME NEW W, NEW S, IsFiniteSet(S), NEW f, NEW g, Unfolds(f, W, S), Unfolds(g, W, S)
    PROVE  f = g
<1> DEFINE Bad == {s \in SUBSET S : f[s] # g[s]}
<1>1. SUFFICES ASSUME Bad # {} PROVE FALSE
    <2>1. f = [s \in SUBSET S |-> f[s]] /\ g = [s \in SUBSET S |-> g[s]]
        BY DEF Unfolds
    <2> QED BY <2>1
<1>2. PICK T \in Bad : \A U \in Bad : U \subseteq T => U = T
    <2>1. Bad \in SUBSET (SUBSET S) OBVIOUS
    <2> HIDE DEF Bad
    <2> QED BY <1>1, <2>1, LeastSet
<1>3. CASE T = {}
    BY <1>3, <1>2, UnfoldsAt
<1>4. CASE T # {}
    <2> DEFINE U == T \ {Picked(T)}
    <2>1. U \in SUBSET S /\ U \subseteq T /\ U # T
        BY <1>2, <1>4, PickedIn
    <2>2. f[U] = g[U]
        BY <1>2, <2>1
    <2>3. T \in SUBSET S OBVIOUS
    <2>4. f[T] = W[Picked(T)] + f[U] /\ g[T] = W[Picked(T)] + g[U]
        BY <1>4, <2>3, UnfoldsAt
    <2> QED BY <1>2, <2>2, <2>4
<1> QED BY <1>3, <1>4

LEMMA UnfoldsBelow ==
    ASSUME NEW W, NEW S, NEW f, Unfolds(f, W, S), NEW T \in SUBSET S
    PROVE  Unfolds([s \in SUBSET T |-> f[s]], W, T)
<1> DEFINE g == [s \in SUBSET T |-> f[s]]
<1>1. ASSUME NEW s \in SUBSET T
      PROVE  g[s] = IF s = {} THEN 0 ELSE W[Picked(s)] + g[s \ {Picked(s)}]
    <2>1. s \in SUBSET S /\ s \ {Picked(s)} \in SUBSET T
        OBVIOUS
    <2>2. g[s] = f[s] /\ g[s \ {Picked(s)}] = f[s \ {Picked(s)}]
        BY <2>1
    <2> QED BY <2>1, <2>2, UnfoldsAt
<1> QED BY <1>1 DEF Unfolds

(* Where the recursion has a solution, the sum is one element and the rest. *)
LEMMA SumUnfolds ==
    ASSUME NEW W, NEW S, IsFiniteSet(S), \A T \in SUBSET S : \E f : Unfolds(f, W, T)
    PROVE  SumFunctionOnSet(W, S) =
              IF S = {} THEN 0 ELSE W[Picked(S)] + SumFunctionOnSet(W, S \ {Picked(S)})
<1> DEFINE R == S \ {Picked(S)}
           f == CHOOSE f : Unfolds(f, W, S)
           g == CHOOSE g : Unfolds(g, W, R)
<1>1. Unfolds(f, W, S) BY Zenon
<1>2. Unfolds(g, W, R) BY Zenon
<1>3. f[S] = IF S = {} THEN 0 ELSE W[Picked(S)] + f[R]
    BY <1>1, UnfoldsAt
<1>4. IsFiniteSet(R) BY FS_Subset
<1>5. g = [s \in SUBSET R |-> f[s]]
    <2> HIDE DEF f, g
    <2>1. Unfolds([s \in SUBSET R |-> f[s]], W, R) BY <1>1, UnfoldsBelow
    <2> QED BY <1>2, <1>4, <2>1, UnfoldsOnce
<1>6. g[R] = f[R] BY <1>5
<1>7. SumFunctionOnSet(W, S) = f[S] /\ SumFunctionOnSet(W, R) = g[R]
    BY SumByRecursion
<1> QED BY <1>3, <1>6, <1>7

LEMMA SumSolves ==
    ASSUME NEW W, NEW S, IsFiniteSet(S)
    PROVE  \E f : Unfolds(f, W, S)
<1> DEFINE Bad == {T \in SUBSET S : ~ \E f : Unfolds(f, W, T)}
<1>1. SUFFICES ASSUME Bad # {} PROVE FALSE
    OBVIOUS
<1>2. PICK T \in Bad : \A U \in Bad : U \subseteq T => U = T
    <2>1. Bad \in SUBSET (SUBSET S) OBVIOUS
    <2> HIDE DEF Bad
    <2> QED BY <1>1, <2>1, LeastSet
<1>3. ASSUME NEW U \in SUBSET T, U # T
      PROVE  SumFunctionOnSet(W, U) =
                IF U = {} THEN 0 ELSE W[Picked(U)] + SumFunctionOnSet(W, U \ {Picked(U)})
    <2>1. \A V \in SUBSET U : V \in SUBSET S /\ V \notin Bad
        BY <1>2, <1>3
    <2>2. IsFiniteSet(U) BY <1>2, FS_Subset
    <2> QED BY <2>1, <2>2, SumUnfolds
<1> DEFINE f == [s \in SUBSET T |-> IF s = {} THEN 0
                                    ELSE W[Picked(s)] + SumFunctionOnSet(W, s \ {Picked(s)})]
<1>4. ASSUME NEW s \in SUBSET T
      PROVE  f[s] = IF s = {} THEN 0 ELSE W[Picked(s)] + f[s \ {Picked(s)}]
    <2>1. CASE s = {} BY <2>1
    <2>2. CASE s # {}
        <3>1. s \ {Picked(s)} \in SUBSET T /\ s \ {Picked(s)} # T
            BY <2>2, PickedIn
        <3>2. f[s \ {Picked(s)}] = SumFunctionOnSet(W, s \ {Picked(s)})
            BY <3>1, <1>3
        <3> QED BY <2>2, <3>2
    <2> QED BY <2>1, <2>2
<1>5. Unfolds(f, W, T) BY <1>4 DEF Unfolds
<1> QED BY <1>2, <1>5

(* The equation of the definition, for every finite set.                   *)
LEMMA SumStep ==
    ASSUME NEW W, NEW S, IsFiniteSet(S)
    PROVE  SumFunctionOnSet(W, S) =
              IF S = {} THEN 0 ELSE W[Picked(S)] + SumFunctionOnSet(W, S \ {Picked(S)})
<1>1. \A T \in SUBSET S : \E f : Unfolds(f, W, T)
    BY SumSolves, FS_Subset
<1> QED BY <1>1, SumUnfolds

-----------------------------------------------------------------------------
(* What the proofs cite *)

LEMMA SumEmpty == ASSUME NEW W PROVE SumFunctionOnSet(W, {}) = 0
BY SumStep, FS_EmptySet

(* Any element can be the one that is counted apart.                       *)
LEMMA SumRemove ==
    ASSUME NEW W, NEW S, IsFiniteSet(S), \A x \in S : W[x] \in Int
    PROVE  /\ SumFunctionOnSet(W, S) \in Int
           /\ \A x \in S : SumFunctionOnSet(W, S) = W[x] + SumFunctionOnSet(W, S \ {x})
<1> DEFINE Sum(T) == SumFunctionOnSet(W, T)
           Good(T) == Sum(T) \in Int /\ \A x \in T : Sum(T) = W[x] + Sum(T \ {x})
           Bad == {T \in SUBSET S : ~Good(T)}
<1>1. SUFFICES ASSUME Bad # {} PROVE FALSE
    <2>1. S \in SUBSET S OBVIOUS
    <2> QED BY <2>1
<1>2. PICK T \in Bad : \A U \in Bad : U \subseteq T => U = T
    <2>1. Bad \in SUBSET (SUBSET S) OBVIOUS
    <2> HIDE DEF Bad
    <2> QED BY <1>1, <2>1, LeastSet
<1>3. T \in SUBSET S /\ IsFiniteSet(T) /\ ~Good(T)
    BY <1>2, FS_Subset
<1>4. \A U \in SUBSET T : U # T => Good(U)
    BY <1>2, <1>3
<1>5. CASE T = {}
    BY <1>3, <1>5, SumEmpty
<1>6. CASE T # {}
    <2> DEFINE c == Picked(T)
    <2>1. c \in T /\ W[c] \in Int
        BY <1>3, <1>6, PickedIn
    <2>2. Sum(T) = W[c] + Sum(T \ {c})
        BY <1>3, <1>6, SumStep
    <2> HIDE DEF c
    <2>3. T \ {c} \in SUBSET T /\ T \ {c} # T
        BY <2>1
    <2>4. Good(T \ {c})
        BY <1>4, <2>3
    <2>5. Sum(T) \in Int
        BY <2>1, <2>2, <2>4
    <2>6. ASSUME NEW x \in T, x # c
          PROVE  Sum(T) = W[x] + Sum(T \ {x})
        <3>1. /\ T \ {x} \in SUBSET T /\ T \ {x} # T /\ c \in T \ {x} /\ x \in T \ {c}
              /\ (T \ {x}) \ {c} = (T \ {c}) \ {x}
            BY <2>1, <2>6
        <3>2. Good(T \ {x})
            BY <1>4, <3>1
        <3>3. (T \ {c}) \ {x} \in SUBSET T /\ (T \ {c}) \ {x} # T
            BY <2>6
        <3>4. Good((T \ {c}) \ {x})
            BY <1>4, <3>3
        <3>5. Sum(T \ {c}) = W[x] + Sum((T \ {c}) \ {x})
            BY <2>4, <3>1
        <3>6. Sum(T \ {x}) = W[c] + Sum((T \ {c}) \ {x})
            BY <3>1, <3>2
        <3>7. Sum((T \ {c}) \ {x}) \in Int /\ W[x] \in Int
            BY <1>3, <3>4
        <3> HIDE DEF Sum
        <3> QED BY <2>1, <2>2, <3>5, <3>6, <3>7
    <2>7. Good(T)
        BY <2>2, <2>5, <2>6
    <2> QED BY <1>3, <2>7
<1> QED BY <1>5, <1>6

LEMMA SumAdd ==
    ASSUME NEW W, NEW S, IsFiniteSet(S), NEW x, x \notin S, \A y \in S \cup {x} : W[y] \in Int
    PROVE  SumFunctionOnSet(W, S \cup {x}) = SumFunctionOnSet(W, S) + W[x]
<1>1. IsFiniteSet(S \cup {x}) BY FS_AddElement
<1>2. (S \cup {x}) \ {x} = S OBVIOUS
<1>3. SumFunctionOnSet(W, S \cup {x}) = W[x] + SumFunctionOnSet(W, S)
    BY <1>1, <1>2, SumRemove
<1>4. SumFunctionOnSet(W, S) \in Int BY SumRemove
<1> QED BY <1>3, <1>4

(* The sum depends on the values at the elements only.                     *)
LEMMA SumSame ==
    ASSUME NEW W, NEW V, NEW S, IsFiniteSet(S), \A x \in S : W[x] = V[x]
    PROVE  SumFunctionOnSet(W, S) = SumFunctionOnSet(V, S)
<1> DEFINE Bad == {T \in SUBSET S : SumFunctionOnSet(W, T) # SumFunctionOnSet(V, T)}
<1>1. SUFFICES ASSUME Bad # {} PROVE FALSE
    <2>1. S \in SUBSET S OBVIOUS
    <2> QED BY <2>1
<1>2. PICK T \in Bad : \A U \in Bad : U \subseteq T => U = T
    <2>1. Bad \in SUBSET (SUBSET S) OBVIOUS
    <2> HIDE DEF Bad
    <2> QED BY <1>1, <2>1, LeastSet
<1>3. IsFiniteSet(T) BY <1>2, FS_Subset
<1>4. CASE T = {}
    BY <1>2, <1>4, SumEmpty
<1>5. CASE T # {}
    <2>1. Picked(T) \in T /\ T \ {Picked(T)} \in SUBSET S /\ T \ {Picked(T)} # T
        BY <1>5, PickedIn
    <2>2. SumFunctionOnSet(W, T \ {Picked(T)}) = SumFunctionOnSet(V, T \ {Picked(T)})
        BY <1>2, <2>1
    <2>3. W[Picked(T)] = V[Picked(T)] BY <2>1
    <2> QED BY <1>2, <1>3, <1>5, <2>2, <2>3, SumStep
<1> QED BY <1>4, <1>5

LEMMA SumNat ==
    ASSUME NEW W, NEW S, IsFiniteSet(S), \A x \in S : W[x] \in Nat
    PROVE  SumFunctionOnSet(W, S) \in Nat
<1> DEFINE Bad == {T \in SUBSET S : SumFunctionOnSet(W, T) \notin Nat}
<1>1. SUFFICES ASSUME Bad # {} PROVE FALSE
    <2>1. S \in SUBSET S OBVIOUS
    <2> QED BY <2>1
<1>2. PICK T \in Bad : \A U \in Bad : U \subseteq T => U = T
    <2>1. Bad \in SUBSET (SUBSET S) OBVIOUS
    <2> HIDE DEF Bad
    <2> QED BY <1>1, <2>1, LeastSet
<1>3. IsFiniteSet(T) BY <1>2, FS_Subset
<1>4. CASE T = {}
    BY <1>2, <1>4, SumEmpty
<1>5. CASE T # {}
    <2>1. Picked(T) \in T /\ T \ {Picked(T)} \in SUBSET S /\ T \ {Picked(T)} # T
        BY <1>5, PickedIn
    <2>2. SumFunctionOnSet(W, T \ {Picked(T)}) \in Nat
        BY <1>2, <2>1
    <2>3. W[Picked(T)] \in Nat BY <2>1
    <2> QED BY <1>2, <1>3, <1>5, <2>2, <2>3, SumStep
<1> QED BY <1>4, <1>5

(* Less of fewer is less.                                                  *)
LEMMA SumMonotone ==
    ASSUME NEW W, NEW V, NEW S, NEW R \in SUBSET S, IsFiniteSet(S),
           \A x \in R : W[x] \in Nat, \A x \in S : V[x] \in Nat,
           \A x \in R : W[x] <= V[x]
    PROVE  SumFunctionOnSet(W, R) <= SumFunctionOnSet(V, S)
<1> DEFINE Below(T) == SumFunctionOnSet(W, R \cap T) <= SumFunctionOnSet(V, T)
           Bad == {T \in SUBSET S : ~Below(T)}
<1>1. SUFFICES ASSUME Bad # {} PROVE FALSE
    <2>1. S \in SUBSET S /\ R \cap S = R OBVIOUS
    <2> QED BY <2>1
<1>2. PICK T \in Bad : \A U \in Bad : U \subseteq T => U = T
    <2>1. Bad \in SUBSET (SUBSET S) OBVIOUS
    <2> HIDE DEF Bad
    <2> QED BY <1>1, <2>1, LeastSet
<1>3. IsFiniteSet(T) /\ IsFiniteSet(R \cap T) BY <1>2, FS_Subset
<1>4. CASE T = {}
    <2>1. R \cap T = {} BY <1>4
    <2> QED BY <1>2, <1>4, <2>1, SumEmpty
<1>5. CASE T # {}
    <2>1. PICK x \in T : TRUE BY <1>5
    <2>2. T \ {x} \in SUBSET S /\ T \ {x} # T BY <2>1
    <2>3. Below(T \ {x}) BY <1>2, <2>2
    <2>4. /\ SumFunctionOnSet(V, T) = V[x] + SumFunctionOnSet(V, T \ {x})
          /\ V[x] \in Nat
        BY <1>2, <1>3, <2>1, SumRemove
    <2>5. IsFiniteSet(T \ {x}) /\ IsFiniteSet(R \cap (T \ {x}))
        BY <1>3, FS_Subset
    <2>6. /\ SumFunctionOnSet(V, T \ {x}) \in Nat
          /\ SumFunctionOnSet(W, R \cap (T \ {x})) \in Nat
        BY <2>5, <1>2, SumNat
    <2>7. CASE x \in R
        <3>1. (R \cap T) \ {x} = R \cap (T \ {x}) OBVIOUS
        <3>2. SumFunctionOnSet(W, R \cap T) = W[x] + SumFunctionOnSet(W, R \cap (T \ {x}))
            BY <1>3, <2>1, <2>7, <3>1, SumRemove
        <3>3. W[x] \in Nat /\ W[x] <= V[x] BY <2>7
        <3> QED BY <1>2, <2>3, <2>4, <2>6, <3>2, <3>3
    <2>8. CASE x \notin R
        <3>1. R \cap T = R \cap (T \ {x}) BY <2>8
        <3>2. SumFunctionOnSet(W, R \cap T) = SumFunctionOnSet(W, R \cap (T \ {x}))
            BY <3>1, Zenon
        <3> QED BY <1>2, <2>3, <2>4, <2>6, <3>2
    <2> QED BY <2>7, <2>8
<1> QED BY <1>4, <1>5

(* One element, and two, are no more than all.                             *)
LEMMA SumCovers ==
    ASSUME NEW W, NEW S, IsFiniteSet(S), \A x \in S : W[x] \in Nat
    PROVE  /\ \A x \in S : W[x] <= SumFunctionOnSet(W, S)
           /\ \A x, y \in S : x # y => W[x] + W[y] <= SumFunctionOnSet(W, S)
<1>1. ASSUME NEW x \in S
      PROVE  /\ IsFiniteSet(S \ {x})
             /\ SumFunctionOnSet(W, S) = W[x] + SumFunctionOnSet(W, S \ {x})
             /\ SumFunctionOnSet(W, S \ {x}) \in Nat
    <2>1. IsFiniteSet(S \ {x}) BY FS_Subset
    <2> QED BY <2>1, SumRemove, SumNat
<1>2. ASSUME NEW x \in S, NEW y \in S, x # y
      PROVE  W[x] + W[y] <= SumFunctionOnSet(W, S)
    <2>1. y \in S \ {x} /\ IsFiniteSet((S \ {x}) \ {y}) BY <1>2, FS_Subset
    <2>2. SumFunctionOnSet(W, S \ {x}) = W[y] + SumFunctionOnSet(W, (S \ {x}) \ {y})
        BY <2>1, <1>1, SumRemove
    <2>3. SumFunctionOnSet(W, (S \ {x}) \ {y}) \in Nat
        BY <2>1, SumNat
    <2>4. W[x] \in Nat /\ W[y] \in Nat OBVIOUS
    <2> QED BY <1>1, <2>2, <2>3, <2>4
<1>3. ASSUME NEW x \in S PROVE W[x] <= SumFunctionOnSet(W, S)
    <2>1. W[x] \in Nat OBVIOUS
    <2>2. SumFunctionOnSet(W, S) = W[x] + SumFunctionOnSet(W, S \ {x}) BY <1>1, Zenon
    <2>3. SumFunctionOnSet(W, S \ {x}) \in Nat BY <1>1, Zenon
    <2> QED BY <2>1, <2>2, <2>3
<1> QED BY <1>2, <1>3, Zenon

(* Elements that count nothing do not matter.                              *)
LEMMA SumZeros ==
    ASSUME NEW W, NEW S, NEW R \in SUBSET S, IsFiniteSet(S),
           \A x \in S : W[x] \in Nat, \A x \in S \ R : W[x] = 0
    PROVE  SumFunctionOnSet(W, S) = SumFunctionOnSet(W, R)
<1> DEFINE Equal(T) == SumFunctionOnSet(W, R \cup T) = SumFunctionOnSet(W, R)
           Bad == {T \in SUBSET (S \ R) : ~Equal(T)}
<1>1. SUFFICES ASSUME Bad # {} PROVE FALSE
    <2>1. S \ R \in SUBSET (S \ R) /\ R \cup (S \ R) = S OBVIOUS
    <2>2. Equal(S \ R) BY <1>1, <2>1
    <2> QED BY <2>1, <2>2, Zenon
<1>2. PICK T \in Bad : \A U \in Bad : U \subseteq T => U = T
    <2>1. Bad \in SUBSET (SUBSET (S \ R)) /\ IsFiniteSet(S \ R) BY FS_Subset
    <2> HIDE DEF Bad
    <2> QED BY <1>1, <2>1, LeastSet
<1>3. IsFiniteSet(R \cup T) BY <1>2, FS_Subset
<1>4. CASE T = {}
    <2>1. R \cup T = R BY <1>4
    <2> QED BY <1>2, <2>1
<1>5. CASE T # {}
    <2>1. PICK x \in T : TRUE BY <1>5
    <2>2. T \ {x} \in SUBSET (S \ R) /\ T \ {x} # T BY <2>1
    <2>3. Equal(T \ {x}) BY <1>2, <2>2
    <2>4. (R \cup T) \ {x} = R \cup (T \ {x}) BY <1>2, <2>1
    <2>5. SumFunctionOnSet(W, R \cup T) = W[x] + SumFunctionOnSet(W, R \cup (T \ {x}))
        <3>1. \A y \in R \cup T : W[y] \in Int BY <1>2
        <3>2. SumFunctionOnSet(W, R \cup T) = W[x] + SumFunctionOnSet(W, (R \cup T) \ {x})
            BY <1>3, <2>1, <3>1, SumRemove
        <3> QED BY <2>4, <3>2, Zenon
    <2>6. IsFiniteSet(R \cup (T \ {x})) BY <1>2, FS_Subset
    <2>7. SumFunctionOnSet(W, R \cup (T \ {x})) \in Nat BY <1>2, <2>6, SumNat
    <2>8. W[x] = 0 BY <1>2, <2>1
    <2> QED BY <1>2, <2>3, <2>5, <2>7, <2>8
<1> QED BY <1>4, <1>5

(* A sum is at most the number of its terms times a bound of each.         *)
LEMMA SumBound ==
    ASSUME NEW W, NEW S, IsFiniteSet(S), NEW c \in Nat,
           \A x \in S : W[x] \in Nat /\ W[x] <= c
    PROVE  SumFunctionOnSet(W, S) <= Cardinality(S) * c
<1> DEFINE Below(T) == SumFunctionOnSet(W, T) <= Cardinality(T) * c
           Bad == {T \in SUBSET S : ~Below(T)}
<1>1. SUFFICES ASSUME Bad # {} PROVE FALSE
    <2>1. S \in SUBSET S OBVIOUS
    <2> QED BY <2>1
<1>2. PICK T \in Bad : \A U \in Bad : U \subseteq T => U = T
    <2>1. Bad \in SUBSET (SUBSET S) OBVIOUS
    <2> HIDE DEF Bad
    <2> QED BY <1>1, <2>1, LeastSet
<1>3. IsFiniteSet(T) BY <1>2, FS_Subset
<1>4. CASE T = {}
    <2>1. SumFunctionOnSet(W, T) = 0 BY <1>4, SumEmpty, Zenon
    <2>2. Cardinality(T) = 0 BY <1>4, FS_EmptySet
    <2> QED BY <1>2, <2>1, <2>2
<1>5. CASE T # {}
    <2>1. PICK x \in T : TRUE BY <1>5
    <2>2. T \ {x} \in SUBSET S /\ T \ {x} # T BY <2>1
    <2>3. Below(T \ {x}) BY <1>2, <2>2
    <2> DEFINE s == SumFunctionOnSet(W, T \ {x})
               k == Cardinality(T \ {x})
    <2>4. SumFunctionOnSet(W, T) = W[x] + s
        <3>1. \A y \in T : W[y] \in Int BY <1>2
        <3> QED BY <1>3, <2>1, <3>1, SumRemove
    <2>5. IsFiniteSet(T \ {x}) /\ s \in Nat
        <3>1. IsFiniteSet(T \ {x}) BY <1>3, FS_Subset
        <3> QED BY <1>2, <3>1, SumNat
    <2>6. k \in Nat /\ Cardinality(T) = k + 1
        BY <1>3, <2>1, <2>5, FS_RemoveElement, FS_CardinalityType
    <2>7. W[x] \in Nat /\ W[x] <= c BY <1>2, <2>1
    <2>8. s <= k * c BY <2>3
    <2> HIDE DEF s, k
    <2>9. (k + 1) * c = k * c + c BY <2>6
    <2>10. k * c \in Int BY <2>6
    <2>11. W[x] + s <= (k + 1) * c BY <2>5, <2>7, <2>8, <2>9, <2>10
    <2> QED BY <1>2, <2>4, <2>6, <2>11
<1> QED BY <1>4, <1>5

(* A sum grows by no more than one of its terms.                           *)
LEMMA SumGrows ==
    ASSUME NEW S, IsFiniteSet(S), NEW W, NEW V, NEW p \in S, NEW more \in Nat,
           \A q \in S : W[q] \in Nat /\ V[q] \in Nat,
           \A q \in S \ {p} : V[q] <= W[q], V[p] <= W[p] + more
    PROVE  SumFunctionOnSet(V, S) <= SumFunctionOnSet(W, S) + more
<1> DEFINE rest == S \ {p}
<1>1. IsFiniteSet(rest) BY FS_RemoveElement
<1>2. /\ SumFunctionOnSet(V, S) = V[p] + SumFunctionOnSet(V, rest)
      /\ SumFunctionOnSet(W, S) = W[p] + SumFunctionOnSet(W, rest)
    <2>1. (\A q \in S : W[q] \in Int) /\ (\A q \in S : V[q] \in Int) OBVIOUS
    <2> QED BY <2>1, SumRemove
<1>3. \A q \in rest : W[q] \in Nat /\ V[q] \in Nat /\ V[q] <= W[q] OBVIOUS
<1> HIDE DEF rest
<1>4. SumFunctionOnSet(V, rest) <= SumFunctionOnSet(W, rest)
    BY <1>1, <1>3, SumMonotone
<1>5. SumFunctionOnSet(V, rest) \in Nat /\ SumFunctionOnSet(W, rest) \in Nat
    BY <1>1, <1>3, SumNat
<1>6. V[p] \in Nat /\ W[p] \in Nat OBVIOUS
<1> QED BY <1>2, <1>4, <1>5, <1>6
-----------------------------------------------------------------------------
(* Sequences of sequences: FlattenSeq of the community modules.            *)

Flattens(f, seqs, n) ==
    f = [i \in 1 .. n |-> IF i = 1 THEN seqs[i] ELSE f[i - 1] \o seqs[i]]

LEMMA FlattenOne ==
    ASSUME NEW S, NEW seqs \in Seq(Seq(S)), NEW n \in Nat, n + 1 \in 1 .. Len(seqs),
           NEW f \in [1 .. n -> Seq(S)], Flattens(f, seqs, n)
    PROVE  \E g \in [1 .. n + 1 -> Seq(S)] : Flattens(g, seqs, n + 1)
<1> DEFINE last == IF n + 1 = 1 THEN seqs[n + 1] ELSE f[n] \o seqs[n + 1]
           g == [i \in 1 .. n + 1 |-> IF i = n + 1 THEN last ELSE f[i]]
<1>1. seqs[n + 1] \in Seq(S)
    OBVIOUS
<1>2. last \in Seq(S)
    <2>1. CASE n = 0
        BY <1>1, <2>1
    <2>2. CASE n # 0
        <3>1. f[n] \in Seq(S)
            BY <2>2
        <3> QED BY <1>1, <3>1, <2>2, ConcatProperties
    <2> QED BY <2>1, <2>2
<1>3. g \in [1 .. n + 1 -> Seq(S)]
    <2> HIDE DEF last
    <2> QED BY <1>2
<1>4. ASSUME NEW i \in 1 .. n + 1
      PROVE  g[i] = IF i = 1 THEN seqs[i] ELSE g[i - 1] \o seqs[i]
    <2>1. CASE i = n + 1
        <3>1. n # 0 => g[n] = f[n]
            OBVIOUS
        <3> QED BY <2>1, <3>1
    <2>2. CASE i # n + 1
        <3>1. i \in 1 .. n
            BY <2>2
        <3>2. g[i] = f[i] /\ (i # 1 => g[i - 1] = f[i - 1])
            <4> HIDE DEF last
            <4> QED BY <3>1
        <3>3. f[i] = IF i = 1 THEN seqs[i] ELSE f[i - 1] \o seqs[i]
            BY <3>1 DEF Flattens
        <3> QED BY <3>2, <3>3
    <2> QED BY <2>1, <2>2
<1>5. Flattens(g, seqs, n + 1)
    <2> HIDE DEF last
    <2> QED BY <1>4 DEF Flattens
<1> HIDE DEF g
<1> QED BY <1>3, <1>5

LEMMA FlattenSome ==
    ASSUME NEW S, NEW seqs \in Seq(Seq(S)), NEW n \in 0 .. Len(seqs)
    PROVE  \E f \in [1 .. n -> Seq(S)] : Flattens(f, seqs, n)
<1> DEFINE Good == {m \in Nat : m <= Len(seqs) =>
                       \E f \in [1 .. m -> Seq(S)] : Flattens(f, seqs, m)}
<1>1. 0 \in Good
    <2> DEFINE e == [i \in 1 .. 0 |-> <<>>]
    <2>1. e \in [1 .. 0 -> Seq(S)] /\ Flattens(e, seqs, 0)
        BY DEF Flattens
    <2> QED BY <2>1
<1>2. ASSUME NEW m \in Nat, m \in Good PROVE m + 1 \in Good
    <2>1. SUFFICES ASSUME m + 1 <= Len(seqs)
                   PROVE  \E f \in [1 .. m + 1 -> Seq(S)] : Flattens(f, seqs, m + 1)
        OBVIOUS
    <2>2. m + 1 \in 1 .. Len(seqs) /\ m <= Len(seqs)
        BY <2>1
    <2>3. PICK f \in [1 .. m -> Seq(S)] : Flattens(f, seqs, m)
        BY <1>2, <2>2
    <2> QED BY <2>2, <2>3, FlattenOne
<1>3. Nat \subseteq Good
    <2> HIDE DEF Good
    <2> QED BY <1>1, <1>2, CountUp
<1> QED BY <1>3

(* What a flattened sequence has, its parts had.                           *)
LEMMA FlattenIn ==
    ASSUME NEW S, NEW seqs \in Seq(Seq(S))
    PROVE  FlattenSeq(seqs) \in Seq(S)
<1>1. CASE Len(seqs) = 0
    BY <1>1 DEF FlattenSeq
<1>2. CASE Len(seqs) # 0
    <2> DEFINE len == Len(seqs)
               f == CHOOSE f : Flattens(f, seqs, len)
    <2>1. len \in Nat \ {0} /\ \A i \in 1 .. len : seqs[i] \in Seq(S)
        BY <1>2
    <2>2. FlattenSeq(seqs) = f[len]
        BY <1>2 DEF FlattenSeq, Flattens
    <2>3. Flattens(f, seqs, len)
        BY FlattenSome, <2>1
    <2> HIDE DEF len, f
    <2> DEFINE Good == {m \in Nat : m + 1 <= len => f[m + 1] \in Seq(S)}
    <2>4. \A i \in 1 .. len : f[i] = IF i = 1 THEN seqs[i] ELSE f[i - 1] \o seqs[i]
        BY <2>3 DEF Flattens
    <2>5. 0 \in Good
        BY <2>1, <2>4
    <2>6. ASSUME NEW m \in Nat, m \in Good PROVE m + 1 \in Good
        <3>1. SUFFICES ASSUME m + 2 <= len PROVE f[m + 2] \in Seq(S)
            OBVIOUS
        <3>2. m + 2 \in 1 .. len /\ m + 2 # 1 /\ (m + 2) - 1 = m + 1 /\ m + 1 <= len
            BY <2>1, <3>1
        <3>3. f[m + 2] = f[m + 1] \o seqs[m + 2]
            BY <2>4, <3>2
        <3>4. f[m + 1] \in Seq(S) /\ seqs[m + 2] \in Seq(S)
            BY <2>1, <2>6, <3>2
        <3> QED BY <3>3, <3>4, ConcatProperties
    <2>7. Nat \subseteq Good
        <3> HIDE DEF Good
        <3> QED BY <2>5, <2>6, CountUp
    <2>8. len - 1 \in Nat /\ (len - 1) + 1 = len
        BY <2>1
    <2>9. f[len] \in Seq(S)
        <3>1. (len - 1) + 1 <= len => f[(len - 1) + 1] \in Seq(S)
            BY <2>7, <2>8
        <3> QED BY <3>1, <2>1, <2>8
    <2> QED BY <2>2, <2>9
<1> QED BY <1>1, <1>2

(* One more sequence comes at the end.                                     *)
LEMMA FlattenSnoc ==
    ASSUME NEW S, NEW seqs \in Seq(Seq(S)), NEW s \in Seq(S)
    PROVE  FlattenSeq(Append(seqs, s)) = FlattenSeq(seqs) \o s
<1> DEFINE len == Len(seqs)
           more == Append(seqs, s)
           f == CHOOSE f : Flattens(f, seqs, len)
           g == CHOOSE g : Flattens(g, more, len + 1)
<1>1. /\ len \in Nat /\ more \in Seq(Seq(S)) /\ Len(more) = len + 1
      /\ more[len + 1] = s /\ \A i \in 1 .. len : more[i] = seqs[i]
    OBVIOUS
<1>2. FlattenSeq(more) = g[len + 1]
    <2>1. Len(more) # 0 BY <1>1
    <2> QED BY <1>1, <2>1 DEF FlattenSeq, Flattens
<1>3. Flattens(g, more, len + 1)
    <2> HIDE DEF more
    <2>1. len + 1 \in 0 .. Len(more) BY <1>1
    <2> QED BY <1>1, <2>1, FlattenSome
<1>4. CASE len = 0
    <2>1. seqs = <<>> /\ FlattenSeq(seqs) = <<>> BY <1>4 DEF FlattenSeq
    <2> HIDE DEF more, g
    <2>2. g[len + 1] = more[1] BY <1>3, <1>4 DEF Flattens
    <2>3. more[1] = s BY <1>1, <1>4
    <2> QED BY <1>2, <2>1, <2>2, <2>3, ConcatEmptySeq DEF more
<1>5. CASE len # 0
    <2>1. FlattenSeq(seqs) = f[len] BY <1>5 DEF FlattenSeq, Flattens
    <2>2. Flattens(f, seqs, len)
        <3>1. len \in 0 .. Len(seqs) BY <1>1
        <3> QED BY <3>1, FlattenSome
    <2> HIDE DEF len, more, f, g
    <2>3. /\ \A i \in 1 .. len : f[i] = IF i = 1 THEN seqs[i] ELSE f[i - 1] \o seqs[i]
          /\ \A i \in 1 .. len + 1 : g[i] = IF i = 1 THEN more[i] ELSE g[i - 1] \o more[i]
        BY <1>3, <2>2 DEF Flattens
    <2> DEFINE Good == {n \in Nat : n + 1 <= len => g[n + 1] = f[n + 1]}
    <2>4. 0 \in Good BY <1>1, <2>3
    <2>5. ASSUME NEW n \in Nat, n \in Good PROVE n + 1 \in Good
        <3>1. SUFFICES ASSUME n + 2 <= len PROVE g[n + 2] = f[n + 2]
            OBVIOUS
        <3>2. n + 2 \in 1 .. len /\ n + 2 \in 1 .. len + 1 /\ n + 2 # 1
              /\ (n + 2) - 1 = n + 1 /\ n + 1 <= len
            BY <1>1, <3>1
        <3>3. g[n + 1] = f[n + 1] BY <2>5, <3>2
        <3> QED BY <1>1, <2>3, <3>2, <3>3
    <2>6. Nat \subseteq Good
        <3> HIDE DEF Good
        <3> QED BY <2>4, <2>5, CountUp
    <2>7. len - 1 \in Nat /\ (len - 1) + 1 = len BY <1>1, <1>5
    <2>8. g[len] = f[len]
        <3>1. (len - 1) + 1 <= len => g[(len - 1) + 1] = f[(len - 1) + 1] BY <2>6, <2>7
        <3> QED BY <1>1, <2>7, <3>1
    <2>9. g[len + 1] = g[len] \o s
        <3> HIDE DEF Good
        <3>1. len \in Nat /\ len # 0 BY <1>1, <1>5
        <3>2. len + 1 \in 1 .. len + 1 /\ len + 1 # 1 /\ (len + 1) - 1 = len BY <3>1
        <3> QED BY <1>1, <2>3, <3>2
    <2> QED BY <1>2, <2>1, <2>8, <2>9 DEF more
<1> QED BY <1>4, <1>5
=============================================================================
