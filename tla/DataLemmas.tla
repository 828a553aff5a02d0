----------------------------- MODULE DataLemmas ------------------------------
(***************************************************************************)
(* Induction over data in a form that needs no operator parameter: the     *)
(* least element of a set of numbers.  It follows from the library's fact   *)
(* that strict inclusion is well-founded on finite sets, a number n being   *)
(* the set 0 .. n.  The other proof modules use it for the definitions by   *)
(* CHOOSE, for recursive functions and for cardinalities.                   *)
(***************************************************************************)
EXTENDS Integers, Sequences, FiniteSets, FiniteSetTheorems, WellFoundedInduction, TLAPS

(* A set of natural numbers that is not empty has a least element.          *)
LEMMA LeastNatural ==
    ASSUME NEW T \in SUBSET Nat, T # {}
    PROVE  \E x \in T : \A y \in T : x <= y
<1>. DEFINE Segments == {0 .. x : x \in T}
<1>1. IsWellFoundedOn(StrictSubsetOrdering(Nat), FiniteSubsetsOf(Nat))
  BY FS_StrictSubsetOrderingWellFounded
<1>2. Segments \subseteq FiniteSubsetsOf(Nat) /\ Segments # {}
  <2>1. \A x \in T : 0 .. x \in FiniteSubsetsOf(Nat)
    BY FS_Interval DEF FiniteSubsetsOf
  <2>. QED
    BY <2>1
<1>3. PICK s \in Segments : \A r \in Segments : <<r, s>> \notin StrictSubsetOrdering(Nat)
  <2>. HIDE DEF Segments
  <2>. QED
    BY <1>1, <1>2, WFMin
<1>4. PICK x \in T : s = 0 .. x
  BY DEF Segments
<1>5. ASSUME NEW y \in T, y < x PROVE FALSE
  <2>1. 0 .. y \subseteq 0 .. x /\ 0 .. y # 0 .. x
    BY <1>5
  <2>2. <<0 .. y, s>> \in StrictSubsetOrdering(Nat)
    BY <2>1, <1>4 DEF StrictSubsetOrdering
  <2>. QED
    BY <2>2, <1>3
<1>. QED
  BY <1>5

(* The same for a set of integers that has a lower bound.                   *)
LEMMA LeastInteger ==
    ASSUME NEW a \in Int, NEW T \in SUBSET Int, T # {}, \A x \in T : a <= x
    PROVE  \E x \in T : \A y \in T : x <= y
<1>. DEFINE U == {n \in Nat : a + n \in T}
<1>1. U # {}
  <2>1. PICK x \in T : TRUE
    OBVIOUS
  <2>2. x - a \in U
    BY <2>1
  <2>. QED
    BY <2>2
<1>2. PICK n \in U : \A m \in U : n <= m
  <2>. HIDE DEF U
  <2>1. U \in SUBSET Nat
    BY DEF U
  <2>. QED
    BY <1>1, <2>1, LeastNatural
<1>3. \A y \in T : a + n <= y
  <2>1. \A y \in T : y - a \in U
    OBVIOUS
  <2>. QED
    BY <1>2, <2>1
<1>. QED
  BY <1>2, <1>3

(* A set of integers between two bounds has a greatest element.             *)
LEMMA GreatestInteger ==
    ASSUME NEW b \in Int, NEW T \in SUBSET Int, T # {}, \A x \in T : x <= b
    PROVE  \E x \in T : \A y \in T : y <= x
<1>. DEFINE U == {n \in Nat : b - n \in T}
<1>1. U # {}
  <2>1. PICK x \in T : TRUE
    OBVIOUS
  <2>2. b - x \in U
    BY <2>1
  <2>. QED
    BY <2>2
<1>2. PICK n \in U : \A m \in U : n <= m
  <2>. HIDE DEF U
  <2>1. U \in SUBSET Nat
    BY DEF U
  <2>. QED
    BY <1>1, <2>1, LeastNatural
<1>3. ASSUME NEW y \in T PROVE y <= b - n
  <2>1. b - y \in U /\ n \in Int /\ y \in Int
    OBVIOUS
  <2>2. n <= b - y
    BY <1>2, <2>1
  <2>. QED
    BY <2>1, <2>2
<1>. QED
  BY <1>2, <1>3

(* Induction: a set that has a and with each of its numbers the next one    *)
(* has every number from a on.                                              *)
LEMMA InductionFrom ==
    ASSUME NEW a \in Int, NEW b \in Int, NEW S, a \in S,
           \A n \in a .. b - 1 : n \in S => n + 1 \in S
    PROVE  \A n \in a .. b : n \in S
<1>. DEFINE Missing == {n \in a .. b : n \notin S}
<1>. SUFFICES ASSUME Missing # {} PROVE FALSE
  OBVIOUS
<1>1. PICK n \in Missing : \A m \in Missing : n <= m
  <2>1. Missing \in SUBSET Int /\ \A x \in Missing : a <= x
    OBVIOUS
  <2>. HIDE DEF Missing
  <2>. QED
    BY <2>1, LeastInteger
<1>2. n - 1 \in a .. b - 1 /\ n - 1 \in S
  BY <1>1
<1>. QED
  BY <1>1, <1>2

(* A function onto a set makes it no larger than a finite set, and finite.   *)
LEMMA ImageNotLarger ==
    ASSUME NEW S, IsFiniteSet(S), NEW T, NEW f \in [S -> T], \A t \in T : \E s \in S : f[s] = t
    PROVE  IsFiniteSet(T) /\ Cardinality(T) <= Cardinality(S)
<1>1. f \in Surjection(S, T)
  BY DEF Surjection
<1>. QED
  BY <1>1, FS_Surjection

(* Two disjoint parts of a finite set.                                      *)
LEMMA PartsNotLarger ==
    ASSUME NEW S, IsFiniteSet(S), NEW A \in SUBSET S, NEW B \in SUBSET S, A \cap B = {}
    PROVE  Cardinality(A) + Cardinality(B) <= Cardinality(S)
<1>1. IsFiniteSet(A) /\ IsFiniteSet(B)
  BY FS_Subset
<1>2. Cardinality(A \cup B) = Cardinality(A) + Cardinality(B) /\ A \cup B \in SUBSET S
  <2>1. Cardinality(A) \in Nat /\ Cardinality(B) \in Nat
    BY <1>1, FS_CardinalityType
  <2>2. Cardinality(A \cup B) = Cardinality(A) + Cardinality(B) - Cardinality(A \cap B)
    BY <1>1, FS_Union
  <2>3. Cardinality(A \cap B) = 0
    BY FS_EmptySet, Zenon
  <2>. QED
    BY <2>1, <2>2, <2>3
<1>3. Cardinality(A \cup B) <= Cardinality(S)
  BY <1>2, FS_Subset
<1>. QED
  BY <1>2, <1>3

(* Division with remainder by a number that is not written out.             *)
LEMMA DivMod ==
    ASSUME NEW a \in Int, NEW d \in Nat \ {0}
    PROVE  a = d * (a \div d) + (a % d) /\ a \div d \in Int /\ a % d \in 0 .. d - 1
OBVIOUS

LEMMA Quotient ==
    ASSUME NEW a \in Nat, NEW d \in Nat \ {0}
    PROVE  \E q \in Nat, r \in 0 .. d - 1 : q = a \div d /\ r = a % d /\ a = d * q + r
<1>1. PICK q \in Int : q = a \div d
  OBVIOUS
<1>2. PICK r \in 0 .. d - 1 : r = a % d
  OBVIOUS
<1>3. a = d * q + r /\ q \in Nat
  BY <1>1, <1>2
<1>. QED
  BY <1>1, <1>2, <1>3

LEMMA DivUnique ==
    ASSUME NEW q \in Int, NEW d \in Nat \ {0}, NEW r \in 0 .. d - 1
    PROVE  (d * q + r) \div d = q /\ (d * q + r) % d = r
OBVIOUS

LEMMA DivNext ==
    ASSUME NEW a \in Nat, NEW d \in Nat \ {0}
    PROVE  IF a % d = d - 1 THEN (a + 1) % d = 0 /\ (a + 1) \div d = (a \div d) + 1
           ELSE (a + 1) % d = (a % d) + 1 /\ (a + 1) \div d = a \div d
OBVIOUS

LEMMA DivMonotone ==
    ASSUME NEW a \in Int, NEW d \in Nat \ {0}, NEW b \in Int, a <= b
    PROVE  a \div d <= b \div d
OBVIOUS

LEMMA DivNat ==
    ASSUME NEW a \in Nat, NEW d \in Nat \ {0}
    PROVE  a \div d \in Nat
OBVIOUS

(* The rank of an element among numbers: the number of those before it.      *)
Before(H, x) == {h \in H : h < x}

LEMMA RankStep ==
    ASSUME NEW a \in Int, NEW b \in Int, NEW H, \A h \in H : h \in a .. b, NEW x \in Int
    PROVE  /\ IsFiniteSet(Before(H, x)) /\ Cardinality(Before(H, x)) \in Nat
           /\ Cardinality(Before(H, x + 1))
                = Cardinality(Before(H, x)) + (IF x \in H THEN 1 ELSE 0)
<1>. DEFINE A == Before(H, x)
            B == Before(H, x + 1)
<1>0. \A h \in H : h \in Int
  OBVIOUS
<1>1. IsFiniteSet(H)
  <2>1. IsFiniteSet(a .. b)
    BY FS_Interval
  <2>2. H \in SUBSET (a .. b)
    OBVIOUS
  <2>. QED
    BY <2>1, <2>2, FS_Subset
<1>2. IsFiniteSet(A) /\ Cardinality(A) \in Nat
  <2>1. A \in SUBSET H
    BY DEF Before
  <2>. QED
    BY <1>1, <2>1, FS_Subset, FS_CardinalityType
<1>3. CASE x \in H
  <2>0. \A h \in H : h < x + 1 <=> (h < x \/ h = x)
    BY <1>0
  <2>1. B = A \cup {x} /\ x \notin A
    <3>1. \A h : h \in B <=> h \in A \cup {x}
      BY <1>3, <2>0 DEF Before
    <3>2. x \notin A
      BY DEF Before
    <3>. QED
      BY <3>1, <3>2, Zenon
  <2>. HIDE DEF A, B
  <2>2. Cardinality(B) = Cardinality(A) + 1
    BY <1>2, <2>1, FS_AddElement
  <2>. QED
    BY <1>2, <1>3, <2>2 DEF A, B
<1>4. CASE x \notin H
  <2>1. B = A
    BY <1>0, <1>4 DEF Before
  <2>2. Cardinality(A) = Cardinality(A) + 0
    BY <1>2
  <2>. QED
    BY <1>2, <1>4, <2>1, <2>2, Zenon
<1>. QED
  BY <1>3, <1>4

LEMMA RankOnto ==
    ASSUME NEW a \in Int, NEW b \in Int, NEW H, \A h \in H : h \in a .. b,
           NEW i \in Nat, i < Cardinality(H)
    PROVE  \E j \in H : Cardinality(Before(H, j)) = i
<1>. DEFINE C(x) == Cardinality(Before(H, x))
            T == {x \in a .. b + 1 : C(x) > i}
<1>0. \A h \in H : h \in Int /\ a <= h /\ h <= b
  OBVIOUS
<1>1. H # {} /\ a <= b
  <2>1. H # {}
    BY FS_EmptySet
  <2>. QED
    BY <1>0, <2>1
<1>2. b + 1 \in T
  <2>1. Before(H, b + 1) = H
    BY <1>0 DEF Before
  <2>2. C(b + 1) > i /\ b + 1 \in a .. b + 1
    BY <1>1, <2>1
  <2>. QED
    BY <2>2
<1>3. PICK x \in T : \A y \in T : x <= y
  <2>1. T \in SUBSET Int /\ \A y \in T : a <= y
    <3>. HIDE DEF C
    <3>. QED
      OBVIOUS
  <2>2. T # {}
    BY <1>2
  <2>. HIDE DEF T
  <2>. QED
    BY <2>1, <2>2, LeastInteger
<1>4. x # a
  <2>1. Before(H, a) = {}
    BY <1>0 DEF Before
  <2>2. C(a) = 0
    BY <2>1, FS_EmptySet
  <2>. QED
    BY <1>3, <2>2
<1>5. x - 1 \in a .. b + 1 /\ x - 1 \in Int /\ (x - 1) + 1 = x /\ x - 1 \notin T
  BY <1>3, <1>4
<1>6. C(x - 1) \in Nat /\ C(x) = C(x - 1) + (IF x - 1 \in H THEN 1 ELSE 0)
  <2>. DEFINE z == x - 1
  <2>1. z \in Int /\ z + 1 = x
    BY <1>5
  <2>. HIDE DEF z
  <2>2. C(z) \in Nat /\ C(z + 1) = C(z) + (IF z \in H THEN 1 ELSE 0)
    <3>1. \A h \in H : h \in a .. b
      OBVIOUS
    <3>2. C(z) \in Nat
      BY <2>1, <3>1, RankStep
    <3>3. C(z + 1) = C(z) + (IF z \in H THEN 1 ELSE 0)
      BY <2>1, <3>1, RankStep
    <3>. QED
      BY <3>2, <3>3
  <2>. QED
    BY <2>1, <2>2, Zenon DEF z
<1>7. C(x - 1) <= i /\ C(x) > i
  <2>. HIDE DEF C
  <2>. QED
    BY <1>3, <1>5, <1>6
<1>8. x - 1 \in H /\ C(x - 1) = i
  <2>. HIDE DEF C
  <2>. QED
    BY <1>6, <1>7
<1>. QED
  BY <1>8

-----------------------------------------------------------------------------
(* Sets of positions                                                        *)

(* Positions that all move by d.                                            *)
LEMMA MovedSize ==
    ASSUME NEW S, IsFiniteSet(S), \A x \in S : x \in Int, NEW d \in Int
    PROVE  /\ IsFiniteSet({x + d : x \in S})
           /\ Cardinality({x + d : x \in S}) = Cardinality(S)
<1>. DEFINE T == {x + d : x \in S}
            f == [x \in S |-> x + d]
            g == [y \in T |-> y - d]
<1>1. f \in [S -> T] /\ \A y \in T : \E x \in S : f[x] = y
  OBVIOUS
<1>2. IsFiniteSet(T) /\ Cardinality(T) <= Cardinality(S)
  <2>1. PICK h \in [S -> T] : h = f
    BY <1>1
  <2>2. \A y \in T : \E x \in S : h[x] = y
    BY <1>1, <2>1
  <2>. HIDE DEF T, f
  <2>. QED
    BY <2>2, ImageNotLarger
<1>3. g \in [T -> S] /\ \A x \in S : \E y \in T : g[y] = x
  <2>1. \A y \in T : y - d \in S
    OBVIOUS
  <2>2. ASSUME NEW x \in S PROVE \E y \in T : g[y] = x
    <3>1. x + d \in T /\ (x + d) - d = x
      OBVIOUS
    <3>. QED
      BY <3>1
  <2>. QED
    BY <2>1, <2>2
<1>4. Cardinality(S) <= Cardinality(T)
  <2>1. PICK h \in [T -> S] : h = g
    BY <1>3
  <2>2. \A x \in S : \E y \in T : h[y] = x
    BY <1>3, <2>1
  <2>. HIDE DEF T, g
  <2>. QED
    BY <1>2, <2>2, ImageNotLarger
<1>5. Cardinality(S) \in Nat /\ Cardinality(T) \in Nat
  <2>. HIDE DEF T
  <2>. QED
    BY <1>2, FS_CardinalityType
<1>. HIDE DEF T
<1>6. IsFiniteSet(T) /\ Cardinality(T) = Cardinality(S)
  BY <1>2, <1>4, <1>5
<1>. QED
  BY <1>6 DEF T

(* One more position, or one less.                                          *)
LEMMA OneMore ==
    ASSUME NEW S, IsFiniteSet(S), NEW x, x \notin S, NEW T, NEW more \in BOOLEAN,
           T = IF more THEN S \cup {x} ELSE S
    PROVE  IsFiniteSet(T) /\ Cardinality(T) = Cardinality(S) + (IF more THEN 1 ELSE 0)
<1>1. Cardinality(S) \in Nat
  BY FS_CardinalityType
<1>2. IsFiniteSet(S \cup {x}) /\ Cardinality(S \cup {x}) = Cardinality(S) + 1
  BY FS_AddElement
<1>. QED
  BY <1>1, <1>2

LEMMA OneLess ==
    ASSUME NEW S, IsFiniteSet(S), NEW x
    PROVE  /\ IsFiniteSet(S \ {x}) /\ Cardinality(S \ {x}) \in Nat
           /\ Cardinality(S) = Cardinality(S \ {x}) + (IF x \in S THEN 1 ELSE 0)
<1>1. IsFiniteSet(S \ {x}) /\ x \notin S \ {x}
  BY FS_Subset
<1>2. S = IF x \in S THEN (S \ {x}) \cup {x} ELSE S \ {x}
  OBVIOUS
<1>3. Cardinality(S \ {x}) \in Nat
  BY <1>1, FS_CardinalityType
<1>. QED
  BY <1>1, <1>2, <1>3, OneMore
=============================================================================
