-------------------------- MODULE AnomalyModelProofs --------------------------
(***************************************************************************)
(* A sample that cannot be learned in full leaves no trace in the n-gram   *)
(* models, one that is learned is counted as often as each of its n-grams  *)
(* occurs, and the derived tables stay those of a rebuild, for any stages, *)
(* samples, orders and limits.                                             *)
(***************************************************************************)
EXTENDS AnomalyModel, FiniteSetTheorems, WellFoundedInduction, TLAPS

-------------------------------------------------------------------------------
(* Sums over finite sets.                                                  *)

(* What SumOver computes, for all subsets of a set at once *)
Sums(f, S) ==
    CHOOSE sums : sums = [s \in SUBSET S |->
        IF s = {} THEN 0
        ELSE LET x == CHOOSE x \in s : TRUE IN sums[s \ {x}] + f[x]]

LEMMA SumOverSums == ASSUME NEW f, NEW S PROVE SumOver(f, S) = Sums(f, S)[S]
  BY DEF SumOver, FoldSet, MapThenFoldSet, Sums

(* A set of natural numbers that is not empty has a least one.             *)
LEMMA Least ==
    ASSUME NEW T \in SUBSET Nat, T # {}
    PROVE  \E x \in T : \A y \in T : x <= y
<1> DEFINE R == OpToRel(<, Nat)
<1>1. IsWellFoundedOn(R, Nat)
  BY NatLessThanWellFounded
<1>2. \A x, y \in Nat : <<y, x>> \in R <=> y < x
  BY DEF OpToRel
<1> HIDE DEF R
<1>3. PICK x \in T : \A y \in T : ~ (<<y, x>> \in R)
  BY <1>1, WFMin
<1>4. ASSUME NEW y \in T PROVE x <= y
  <2>1. ~(y < x) /\ x \in Nat /\ y \in Nat
    BY <1>2, <1>3, Zenon
  <2> QED
    BY <2>1, SMT
<1> QED
  BY <1>4

(* The equation a sum satisfies on a family of sets *)
SumStep(f, g, s) ==
    IF s = {} THEN 0 ELSE LET x == CHOOSE x \in s : TRUE IN g[s \ {x}] + f[x]

Upto(S, n) == {s \in SUBSET S : Cardinality(s) <= n}

(* Functions that satisfy it on the sets up to a size exist.               *)
LEMMA SumsUpto ==
    ASSUME NEW S, IsFiniteSet(S), NEW f
    PROVE  \A n \in Nat : \E g : g = [s \in Upto(S, n) |-> SumStep(f, g, s)]
<1> DEFINE Bad == {n \in Nat : ~ \E g : g = [s \in Upto(S, n) |-> SumStep(f, g, s)]}
<1> SUFFICES ASSUME Bad # {} PROVE FALSE
  OBVIOUS
<1>1. PICK n \in Bad : \A m \in Bad : n <= m
  BY Least
<1>2. CASE n = 0
  <2> DEFINE g == [s \in Upto(S, 0) |-> 0]
  <2>1. \A s \in Upto(S, 0) : s = {}
    <3> SUFFICES ASSUME NEW s \in Upto(S, 0) PROVE s = {}
      OBVIOUS
    <3>1. IsFiniteSet(s) /\ Cardinality(s) \in Nat /\ Cardinality(s) <= 0
      BY FS_Subset, FS_CardinalityType DEF Upto
    <3> QED BY <3>1, FS_EmptySet
  <2>2. g = [s \in Upto(S, 0) |-> SumStep(f, g, s)]
    BY <2>1 DEF SumStep
  <2> QED BY <1>2, <2>2
<1>3. CASE n # 0
  <2>1. n - 1 \in Nat /\ n - 1 \notin Bad
    BY <1>1, <1>3
  <2>2. PICK g : g = [s \in Upto(S, n - 1) |-> SumStep(f, g, s)]
    BY <2>1
  <2> DEFINE h == [s \in Upto(S, n) |-> SumStep(f, g, s)]
  <2>3. ASSUME NEW s \in Upto(S, n) PROVE SumStep(f, g, s) = SumStep(f, h, s)
    <3>1. CASE s = {}
      BY <3>1 DEF SumStep
    <3>2. CASE s # {}
      <4> DEFINE x == CHOOSE x \in s : TRUE
      <4>1. x \in s
        BY <3>2
      <4> HIDE DEF x
      <4>2. s \ {x} \in Upto(S, n - 1) /\ s \ {x} \in Upto(S, n)
        <5>1. IsFiniteSet(s) /\ Cardinality(s) \in Nat /\ Cardinality(s) <= n
          BY FS_Subset, FS_CardinalityType DEF Upto
        <5>2. Cardinality(s \ {x}) = Cardinality(s) - 1
          BY <4>1, <5>1, FS_RemoveElement
        <5>3. s \ {x} \in SUBSET S
          BY DEF Upto
        <5> QED BY <5>1, <5>2, <5>3, <2>1 DEF Upto
      <4>3. g[s \ {x}] = h[s \ {x}]
        BY <2>2, <4>2
      <4> QED BY <3>2, <4>3 DEF SumStep, x
    <3> QED BY <3>1, <3>2
  <2>4. h = [s \in Upto(S, n) |-> SumStep(f, h, s)]
    BY <2>3
  <2> HIDE DEF h
  <2> QED BY <2>4
<1> QED BY <1>2, <1>3

(* The sums of a finite set satisfy the equation.                          *)
LEMMA SumsDef ==
    ASSUME NEW S, IsFiniteSet(S), NEW f
    PROVE  \A s \in SUBSET S : Sums(f, S)[s] = SumStep(f, Sums(f, S), s)
<1> DEFINE n == Cardinality(S)
<1>1. n \in Nat
  BY FS_CardinalityType
<1>2. Upto(S, n) = SUBSET S
  BY FS_Subset DEF Upto
<1> HIDE DEF n
<1>3. \E g : g = [s \in Upto(S, n) |-> SumStep(f, g, s)]
  <2>1. \A m \in Nat : \E g : g = [s \in Upto(S, m) |-> SumStep(f, g, s)]
    BY SumsUpto
  <2> QED
    BY <1>1, <2>1
<1>4. \E g : g = [s \in SUBSET S |-> SumStep(f, g, s)]
  BY <1>2, <1>3, Zenon
<1>5. Sums(f, S) = [s \in SUBSET S |-> SumStep(f, Sums(f, S), s)]
  BY <1>4 DEF Sums, SumStep
<1> QED BY <1>5, Zenon

(* Of the sets in a family, one has no smaller one in it.                  *)
LEMMA SmallestSet ==
    ASSUME NEW S, IsFiniteSet(S), NEW Bad \in SUBSET (SUBSET S), Bad # {}
    PROVE  \E s \in Bad : s \in SUBSET S /\ \A x \in s : s \ {x} \notin Bad
<1> DEFINE Sizes == {Cardinality(s) : s \in Bad}
<1>1. \A s \in SUBSET S : IsFiniteSet(s) /\ Cardinality(s) \in Nat
  BY FS_Subset, FS_CardinalityType
<1>2. Sizes \in SUBSET Nat /\ Sizes # {}
  BY <1>1
<1>3. PICK n \in Sizes : \A m \in Sizes : n <= m
  BY <1>2, Least
<1>4. PICK s \in Bad : Cardinality(s) = n
  BY <1>3
<1>5. ASSUME NEW x \in s, s \ {x} \in Bad PROVE FALSE
  <2>1. Cardinality(s \ {x}) = Cardinality(s) - 1
    BY <1>1, <1>5, FS_RemoveElement
  <2>2. n <= Cardinality(s \ {x}) /\ n \in Nat
    BY <1>2, <1>3, <1>5
  <2> QED BY <1>4, <2>1, <2>2
<1> QED BY <1>5

LEMMA SumsNat ==
    ASSUME NEW S, IsFiniteSet(S), NEW f, \A x \in S : f[x] \in Nat
    PROVE  \A s \in SUBSET S : Sums(f, S)[s] \in Nat
<1> DEFINE Bad == {s \in SUBSET S : Sums(f, S)[s] \notin Nat}
<1> SUFFICES ASSUME Bad # {} PROVE FALSE
  OBVIOUS
<1>1. PICK s \in Bad : s \in SUBSET S /\ \A x \in s : s \ {x} \notin Bad
  BY SmallestSet
<1>2. Sums(f, S)[s] = SumStep(f, Sums(f, S), s)
  BY <1>1, SumsDef
<1>3. CASE s = {}
  BY <1>1, <1>2, <1>3 DEF SumStep
<1>4. CASE s # {}
  <2> DEFINE x == CHOOSE x \in s : TRUE
  <2>1. x \in s
    BY <1>4
  <2>2. Sums(f, S)[s] = Sums(f, S)[s \ {x}] + f[x]
    BY <1>2, <1>4 DEF SumStep
  <2> HIDE DEF x
  <2>3. s \ {x} \in SUBSET S /\ Sums(f, S)[s \ {x}] \in Nat /\ f[x] \in Nat
    BY <1>1, <2>1
  <2> QED BY <1>1, <2>2, <2>3
<1> QED BY <1>3, <1>4

SumsFrom(f, S, s) == \A c \in s : Sums(f, S)[s] = Sums(f, S)[s \ {c}] + f[c]

(* The element a sum begins with does not matter.                          *)
LEMMA SumsRemove ==
    ASSUME NEW S, IsFiniteSet(S), NEW f, \A x \in S : f[x] \in Nat
    PROVE  \A s \in SUBSET S : SumsFrom(f, S, s)
<1> USE DEF SumsFrom
<1> DEFINE Good(s) == SumsFrom(f, S, s)
           Bad == {s \in SUBSET S : ~Good(s)}
<1> SUFFICES ASSUME Bad # {} PROVE FALSE
  OBVIOUS
<1>1. PICK s \in Bad : s \in SUBSET S /\ \A x \in s : s \ {x} \notin Bad
  BY SmallestSet
<1>2. PICK c \in s : Sums(f, S)[s] # Sums(f, S)[s \ {c}] + f[c]
  BY <1>1
<1> DEFINE x == CHOOSE x \in s : TRUE
<1>3. x \in s
  BY <1>2
<1>4. Sums(f, S)[s] = Sums(f, S)[s \ {x}] + f[x]
  BY <1>1, <1>2, SumsDef DEF SumStep
<1> HIDE DEF x
<1>5. x # c
  BY <1>2, <1>4
<1>6. /\ Good(s \ {x}) /\ Good(s \ {c})
      /\ c \in s \ {x} /\ x \in s \ {c}
      /\ s \ {x} \in SUBSET S /\ s \ {c} \in SUBSET S
      /\ (s \ {x}) \ {c} \in SUBSET S
      /\ (s \ {x}) \ {c} = (s \ {c}) \ {x}
  BY <1>1, <1>2, <1>3, <1>5
<1> DEFINE rest == Sums(f, S)[(s \ {x}) \ {c}]
<1>7. rest \in Nat /\ f[x] \in Nat /\ f[c] \in Nat
  BY <1>1, <1>2, <1>3, <1>6, SumsNat
<1>8. Sums(f, S)[s \ {x}] = rest + f[c] /\ Sums(f, S)[s \ {c}] = rest + f[x]
  BY <1>6
<1> HIDE DEF rest
<1> QED BY <1>2, <1>4, <1>7, <1>8

(* Sums grow with the numbers and with the set.                            *)
LEMMA SumsLess ==
    ASSUME NEW S, IsFiniteSet(S), NEW T, IsFiniteSet(T), NEW f, NEW g,
           \A x \in S : f[x] \in Nat, \A x \in T : g[x] \in Nat,
           \A x \in S \cap T : g[x] <= f[x]
    PROVE  \A s \in SUBSET S : Sums(g, T)[s \cap T] <= Sums(f, S)[s]
<1>1. \A s \in SUBSET S : SumsFrom(f, S, s)
  BY SumsRemove
<1>2. \A s \in SUBSET T : SumsFrom(g, T, s)
  BY SumsRemove
<1>3. /\ \A s \in SUBSET S : Sums(f, S)[s] \in Nat
      /\ \A s \in SUBSET T : Sums(g, T)[s] \in Nat
  BY SumsNat
<1>4. Sums(g, T)[{}] = 0
  <2>1. {} \in SUBSET T
    OBVIOUS
  <2> QED BY <2>1, SumsDef DEF SumStep
<1> DEFINE Good(s) == Sums(g, T)[s \cap T] <= Sums(f, S)[s]
           Bad == {s \in SUBSET S : ~Good(s)}
<1> SUFFICES ASSUME Bad # {} PROVE FALSE
  OBVIOUS
<1>5. PICK s \in Bad : s \in SUBSET S /\ \A x \in s : s \ {x} \notin Bad
  BY SmallestSet
<1> DEFINE sum(t) == Sums(f, S)[t]
           part(t) == Sums(g, T)[t]
<1>6. sum(s) \in Nat /\ part(s \cap T) \in Nat
  <2>1. s \cap T \in SUBSET T
    OBVIOUS
  <2> QED BY <1>3, <1>5, <2>1
<1>7. CASE s = {}
  <2>1. s \cap T = {}
    BY <1>7
  <2>2. part(s \cap T) = 0
    BY <1>4, <2>1, Zenon
  <2> HIDE DEF sum, part
  <2>3. part(s \cap T) <= sum(s)
    BY <1>6, <2>2, SMT
  <2> QED BY <1>5, <2>3 DEF sum, part
<1>8. CASE s # {}
  <2>1. PICK x \in s : TRUE
    BY <1>8
  <2>2. s \ {x} \in SUBSET S /\ f[x] \in Nat /\ part((s \ {x}) \cap T) <= sum(s \ {x})
    BY <1>5, <2>1
  <2>3. sum(s) = sum(s \ {x}) + f[x] /\ sum(s \ {x}) \in Nat
    BY <1>1, <1>3, <1>5, <2>1, <2>2 DEF SumsFrom
  <2>4. part(s \cap T) <= sum(s)
    <3>1. CASE x \notin T
      <4>1. (s \ {x}) \cap T = s \cap T
        BY <3>1
      <4>2. part(s \cap T) <= sum(s \ {x})
        BY <2>2, <4>1, Zenon
      <4> HIDE DEF sum, part
      <4> QED BY <1>6, <2>2, <2>3, <4>2, SMT
    <3>2. CASE x \in T
      <4>1. (s \ {x}) \cap T = (s \cap T) \ {x} /\ s \cap T \in SUBSET T /\ x \in s \cap T
        BY <2>1, <3>2
      <4>2. part(s \cap T) = part((s \cap T) \ {x}) + g[x]
        BY <1>2, <4>1 DEF SumsFrom
      <4>3. (s \cap T) \ {x} \in SUBSET T /\ g[x] \in Nat /\ g[x] <= f[x]
        BY <1>5, <2>1, <3>2
      <4>4. part((s \cap T) \ {x}) \in Nat
        BY <1>3, <4>3
      <4>5. part((s \cap T) \ {x}) <= sum(s \ {x})
        BY <2>2, <4>1, Zenon
      <4> HIDE DEF sum, part
      <4> QED BY <2>2, <2>3, <4>2, <4>3, <4>4, <4>5, SMT
    <3> QED BY <3>1, <3>2
  <2> QED BY <1>5, <2>4
<1> QED BY <1>7, <1>8

LEMMA SumNat ==
    ASSUME NEW S, IsFiniteSet(S), NEW f, \A x \in S : f[x] \in Nat
    PROVE  SumOver(f, S) \in Nat
  BY SumsNat, SumOverSums

LEMMA SumLess ==
    ASSUME NEW S, IsFiniteSet(S), NEW T \in SUBSET S, NEW f, NEW g,
           \A x \in S : f[x] \in Nat,
           \A x \in T : g[x] \in Nat /\ g[x] <= f[x]
    PROVE  SumOver(g, T) <= SumOver(f, S)
<1>1. IsFiniteSet(T) /\ S \cap T = T /\ S \in SUBSET S
  BY FS_Subset
<1>2. \A s \in SUBSET S : Sums(g, T)[s \cap T] <= Sums(f, S)[s]
  BY <1>1, SumsLess
<1>3. Sums(g, T)[S \cap T] <= Sums(f, S)[S]
  BY <1>1, <1>2
<1> QED BY <1>1, <1>3, SumOverSums

LEMMA SumSame ==
    ASSUME NEW S, IsFiniteSet(S), NEW f, NEW g,
           \A x \in S : f[x] \in Nat /\ g[x] = f[x]
    PROVE  SumOver(g, S) = SumOver(f, S)
<1>1. S \in SUBSET S
  OBVIOUS
<1>2. /\ \A x \in S : f[x] \in Nat
      /\ \A x \in S : g[x] \in Nat
      /\ \A x \in S : g[x] \in Nat /\ g[x] <= f[x]
      /\ \A x \in S : f[x] \in Nat /\ f[x] <= g[x]
  OBVIOUS
<1>3. SumOver(g, S) <= SumOver(f, S)
  BY <1>1, <1>2, SumLess
<1>4. SumOver(f, S) <= SumOver(g, S)
  BY <1>1, <1>2, SumLess
<1>5. SumOver(f, S) \in Nat /\ SumOver(g, S) \in Nat
  BY <1>2, SumNat
<1> QED BY <1>3, <1>4, <1>5

LEMMA SumRemove ==
    ASSUME NEW S, IsFiniteSet(S), NEW f, \A x \in S : f[x] \in Nat, NEW c \in S
    PROVE  SumOver(f, S) = SumOver(f, S \ {c}) + f[c]
<1> DEFINE T == S \ {c}
<1>1. IsFiniteSet(T) /\ T \in SUBSET S /\ T \in SUBSET T /\ S \in SUBSET S
  BY FS_Subset
<1>2. /\ S \cap T = T /\ T \cap S = T
      /\ \A x \in T : f[x] \in Nat
      /\ \A x \in T \cap S : f[x] <= f[x]
      /\ \A x \in S \cap T : f[x] <= f[x]
  OBVIOUS
<1> HIDE DEF T
<1>3. \A s \in SUBSET S : Sums(f, T)[s \cap T] <= Sums(f, S)[s]
  BY <1>1, <1>2, SumsLess
<1>4. \A s \in SUBSET T : Sums(f, S)[s \cap S] <= Sums(f, T)[s]
  BY <1>1, <1>2, SumsLess
<1>5. T \cap T = T
  OBVIOUS
<1>6. Sums(f, T)[T] <= Sums(f, S)[T] /\ Sums(f, S)[T] <= Sums(f, T)[T]
  BY <1>1, <1>2, <1>3, <1>4, <1>5
<1>7. Sums(f, T)[T] \in Nat /\ Sums(f, S)[T] \in Nat
  BY <1>1, <1>2, SumsNat
<1>8. Sums(f, S)[S] = Sums(f, S)[T] + f[c]
  BY <1>1, SumsRemove DEF T, SumsFrom
<1> QED BY <1>6, <1>7, <1>8, SumOverSums DEF T

(* One more of one element, new or not                                     *)
LEMMA SumRaised ==
    ASSUME NEW S, IsFiniteSet(S), NEW f, NEW g, NEW c,
           \A x \in S : f[x] \in Nat,
           \A x \in S \ {c} : g[x] = f[x],
           g[c] = (IF c \in S THEN f[c] ELSE 0) + 1
    PROVE  SumOver(g, S \cup {c}) = SumOver(f, S) + 1
<1> DEFINE T == S \ {c}
           U == S \cup {c}
<1>1. IsFiniteSet(T) /\ IsFiniteSet(U) /\ U \ {c} = T /\ c \in U
  BY FS_Subset, FS_AddElement
<1>2. /\ \A x \in T : f[x] \in Nat /\ g[x] = f[x]
      /\ \A x \in T : f[x] \in Nat
      /\ \A x \in U : g[x] \in Nat
  OBVIOUS
<1> HIDE DEF T, U
<1>3. SumOver(g, U) = SumOver(g, T) + g[c]
  BY <1>1, <1>2, SumRemove
<1>4. SumOver(g, T) = SumOver(f, T) /\ SumOver(f, T) \in Nat
  BY <1>1, <1>2, SumSame, SumNat
<1>5. CASE c \in S
  <2>1. SumOver(f, S) = SumOver(f, T) + f[c] /\ f[c] \in Nat
    BY <1>5, SumRemove DEF T
  <2> QED BY <1>3, <1>4, <1>5, <2>1 DEF U
<1>6. CASE c \notin S
  <2>1. S = T
    BY <1>6 DEF T
  <2> QED BY <1>3, <1>4, <1>6, <2>1 DEF U
<1> QED BY <1>5, <1>6

-------------------------------------------------------------------------------
(* Journals.                                                               *)

Act == [ctx : BOOLEAN, key : Seq(Items)]

(* Every n-gram longer than a stage is followed by its context, and no     *)
(* context stands elsewhere.                                               *)
WellFormed(J) ==
    /\ J \in Seq(Act)
    /\ \A j \in 1..Len(J) :
          /\ J[j].ctx =>
                 /\ j > 1 /\ ~J[j - 1].ctx /\ Len(J[j - 1].key) > 1
                 /\ J[j].key = Front(J[j - 1].key)
          /\ ~J[j].ctx =>
                 /\ Len(J[j].key) \in 1..MaxOrder
                 /\ Len(J[j].key) > 1 => j < Len(J) /\ J[j + 1].ctx

LEMMA GramShape ==
    ASSUME NEW items \in Seq(Items), NEW i \in 1..Len(items), NEW k \in 1..i
    PROVE  /\ SubSeq(items, i - k + 1, i) \in Seq(Items)
           /\ Len(SubSeq(items, i - k + 1, i)) = k
<1>1. i - k + 1 \in 1..Len(items) /\ i \in 1..Len(items) /\ i - (i - k + 1) + 1 = k
      /\ i - k + 1 <= i
  OBVIOUS
<1>2. SubSeq(items, i - k + 1, i) = [x \in 1..k |-> items[x + (i - k)]]
  BY <1>1
<1>3. \A x \in 1..k : items[x + (i - k)] \in Items
  BY <1>1
<1>4. [x \in 1..k |-> items[x + (i - k)]] \in Seq(Items) /\ Len([x \in 1..k |-> items[x + (i - k)]]) = k
  BY <1>3
<1> QED BY <1>2, <1>4

LEMMA FrontShape ==
    ASSUME NEW X, NEW s \in Seq(X), Len(s) > 1
    PROVE  Front(s) \in Seq(X) /\ Len(Front(s)) = Len(s) - 1
  BY DEF Front

LEMMA StageWellFormed ==
    ASSUME NEW items \in Seq(Items), NEW i \in 1..Len(items)
    PROVE  WellFormed(ActionsAt(items, i))
<1> DEFINE top     == IF i < MaxOrder THEN i ELSE MaxOrder
           gram(k) == SubSeq(items, i - k + 1, i)
           J       == [j \in 1..(2 * top - 1) |->
                          IF j > 1 /\ j % 2 = 1
                          THEN [ctx |-> TRUE,  key |-> Front(gram(j \div 2 + 1))]
                          ELSE [ctx |-> FALSE, key |-> gram(j \div 2 + 1)]]
<1>1. ActionsAt(items, i) = J
  BY DEF ActionsAt
<1>2. top \in Nat \ {0} /\ top <= MaxOrder /\ top <= i
  BY ModelAssumption
<1>3. ASSUME NEW k \in 1..top
      PROVE  gram(k) \in Seq(Items) /\ Len(gram(k)) = k
             /\ (k > 1 => Front(gram(k)) \in Seq(Items))
  <2>1. k \in 1..i
    BY <1>2
  <2>2. gram(k) \in Seq(Items) /\ Len(gram(k)) = k
    BY <2>1, GramShape
  <2> HIDE DEF gram
  <2> QED BY <2>2, FrontShape
<1> HIDE DEF top, gram
<1>4. ASSUME NEW j \in 1..(2 * top - 1)
      PROVE  /\ j \div 2 + 1 \in 1..top
             /\ j > 1 => j \div 2 + 1 > 1
             /\ j > 1 /\ j % 2 = 1 =>
                    j - 1 \in 1..(2 * top - 1) /\ (j - 1) % 2 = 0 /\ (j - 1) \div 2 = j \div 2
             /\ j % 2 = 0 /\ j > 1 => j + 1 \in 1..(2 * top - 1) /\ (j + 1) % 2 = 1
             /\ j % 2 \in {0, 1}
  BY <1>2
<1>5. J \in Seq(Act) /\ Len(J) = 2 * top - 1
  <2>1. \A j \in 1..(2 * top - 1) : J[j] \in Act
    BY <1>3, <1>4 DEF Act
  <2>2. 2 * top - 1 \in Nat
    BY <1>2
  <2> HIDE DEF J
  <2>3. J \in [1..(2 * top - 1) -> Act]
    BY <2>1 DEF J
  <2> QED BY <2>2, <2>3
<1>6. ASSUME NEW j \in 1..Len(J), J[j].ctx
      PROVE  /\ j > 1 /\ ~J[j - 1].ctx /\ Len(J[j - 1].key) > 1
             /\ J[j].key = Front(J[j - 1].key)
  <2>1. j \in 1..(2 * top - 1)
    BY <1>5
  <2>2. j > 1 /\ j % 2 = 1 /\ J[j].key = Front(gram(j \div 2 + 1))
    BY <1>6, <2>1
  <2>3. j - 1 \in 1..(2 * top - 1) /\ (j - 1) % 2 = 0 /\ (j - 1) \div 2 = j \div 2
    BY <1>4, <2>1, <2>2
  <2>4. J[j - 1] = [ctx |-> FALSE, key |-> gram(j \div 2 + 1)]
    <3>1. \A h \in 1..(2 * top - 1) : h % 2 = 0 =>
             J[h] = [ctx |-> FALSE, key |-> gram(h \div 2 + 1)]
      OBVIOUS
    <3> HIDE DEF J
    <3>2. J[j - 1] = [ctx |-> FALSE, key |-> gram((j - 1) \div 2 + 1)]
      BY <2>3, <3>1
    <3> QED BY <2>3, <3>2
  <2>5. Len(gram(j \div 2 + 1)) > 1
    BY <1>3, <1>4, <2>1, <2>2
  <2> HIDE DEF J
  <2> QED BY <2>2, <2>4, <2>5
<1>7. ASSUME NEW j \in 1..Len(J), ~J[j].ctx
      PROVE  /\ Len(J[j].key) \in 1..MaxOrder
             /\ Len(J[j].key) > 1 => j < Len(J) /\ J[j + 1].ctx
  <2>1. j \in 1..(2 * top - 1)
    BY <1>5
  <2>2. ~(j > 1 /\ j % 2 = 1) /\ J[j].key = gram(j \div 2 + 1)
    BY <1>7, <2>1
  <2>3. Len(J[j].key) = j \div 2 + 1 /\ j \div 2 + 1 \in 1..top
    BY <1>3, <1>4, <2>1, <2>2
  <2>4. Len(J[j].key) \in 1..MaxOrder
    BY <1>2, <2>3, ModelAssumption
  <2>5. ASSUME Len(J[j].key) > 1 PROVE j < Len(J) /\ J[j + 1].ctx
    <3>1. j > 1 /\ j % 2 = 0
      BY <1>4, <2>1, <2>2, <2>3, <2>5
    <3>2. j + 1 \in 1..(2 * top - 1) /\ (j + 1) % 2 = 1 /\ j + 1 > 1
      BY <1>4, <2>1, <3>1
    <3>3. J[j + 1].ctx
      <4>1. \A h \in 1..(2 * top - 1) : h > 1 /\ h % 2 = 1 => J[h].ctx
        OBVIOUS
      <4> HIDE DEF J
      <4> QED BY <3>2, <4>1
    <3> HIDE DEF J
    <3> QED BY <1>2, <1>5, <2>1, <3>2, <3>3
  <2> QED BY <2>4, <2>5
<1> HIDE DEF J
<1> QED BY <1>1, <1>5, <1>6, <1>7 DEF WellFormed

LEMMA JoinedWellFormed ==
    ASSUME NEW I, WellFormed(I), NEW J, WellFormed(J)
    PROVE  WellFormed(I \o J)
<1> DEFINE K == I \o J
<1>1. I \in Seq(Act) /\ J \in Seq(Act) /\ Len(I) \in Nat /\ Len(J) \in Nat
  BY DEF WellFormed
<1>2. K \in Seq(Act) /\ Len(K) = Len(I) + Len(J)
  BY <1>1
<1>3. ASSUME NEW j \in 1..Len(K)
      PROVE  K[j] = IF j <= Len(I) THEN I[j] ELSE J[j - Len(I)]
  BY <1>1
<1> HIDE DEF K
<1>4. ASSUME NEW j \in 1..Len(K)
      PROVE  /\ K[j].ctx =>
                    /\ j > 1 /\ ~K[j - 1].ctx /\ Len(K[j - 1].key) > 1
                    /\ K[j].key = Front(K[j - 1].key)
             /\ ~K[j].ctx =>
                    /\ Len(K[j].key) \in 1..MaxOrder
                    /\ Len(K[j].key) > 1 => j < Len(K) /\ K[j + 1].ctx
  <2>1. CASE j <= Len(I)
    <3>1. j \in 1..Len(I) /\ K[j] = I[j]
      BY <1>3, <2>1
    <3>2. j > 1 => j - 1 \in 1..Len(K) /\ K[j - 1] = I[j - 1]
      <4>1. j > 1 => j - 1 \in 1..Len(K) /\ j - 1 <= Len(I)
        BY <3>1, <1>1, <1>2
      <4> QED BY <1>3, <4>1
    <3>3. j < Len(I) => j < Len(K) /\ K[j + 1] = I[j + 1]
      <4>1. j < Len(I) => j + 1 \in 1..Len(K) /\ j + 1 <= Len(I) /\ j < Len(K)
        BY <3>1, <1>1, <1>2
      <4> QED BY <1>3, <4>1
    <3> QED BY <3>1, <3>2, <3>3 DEF WellFormed
  <2>2. CASE ~(j <= Len(I))
    <3> DEFINE i == j - Len(I)
    <3>1. i \in 1..Len(J) /\ K[j] = J[i]
      BY <1>1, <1>2, <1>3, <2>2
    <3>2. i > 1 => j > 1 /\ j - 1 \in 1..Len(K) /\ K[j - 1] = J[i - 1]
      <4>1. i > 1 => j > 1 /\ j - 1 \in 1..Len(K) /\ ~(j - 1 <= Len(I)) /\ (j - 1) - Len(I) = i - 1
        BY <3>1, <1>1, <1>2
      <4> QED BY <1>3, <4>1
    <3>3. i < Len(J) => j < Len(K) /\ K[j + 1] = J[i + 1]
      <4>1. i < Len(J) => j + 1 \in 1..Len(K) /\ ~(j + 1 <= Len(I)) /\ (j + 1) - Len(I) = i + 1 /\ j < Len(K)
        BY <3>1, <1>1, <1>2, <2>2
      <4> QED BY <1>3, <4>1
    <3> HIDE DEF i
    <3> QED BY <3>1, <3>2, <3>3 DEF WellFormed
  <2> QED BY <2>1, <2>2
<1> QED BY <1>2, <1>4 DEF WellFormed, K

(* What FlattenSeq computes, for all prefixes of its argument *)
Flat(S) ==
    CHOOSE flat : flat = [i \in 1..Len(S) |->
                             IF i = 1 THEN S[i] ELSE flat[i - 1] \o S[i]]

FlatStep(S, g, i) == IF i = 1 THEN S[i] ELSE g[i - 1] \o S[i]

LEMMA FlatUpto ==
    ASSUME NEW S
    PROVE  \A n \in Nat : \E g : g = [i \in 1..n |-> FlatStep(S, g, i)]
<1> DEFINE Bad == {n \in Nat : ~ \E g : g = [i \in 1..n |-> FlatStep(S, g, i)]}
<1> SUFFICES ASSUME Bad # {} PROVE FALSE
  OBVIOUS
<1>1. PICK n \in Bad : \A m \in Bad : n <= m
  BY Least
<1>2. CASE n = 0
  <2> DEFINE g == [i \in 1..0 |-> 0]
  <2>1. g = [i \in 1..0 |-> FlatStep(S, g, i)]
    <3>1. 1..0 = {}
      OBVIOUS
    <3> QED BY <3>1
  <2> QED BY <1>2, <2>1
<1>3. CASE n # 0
  <2>1. n - 1 \in Nat /\ n - 1 \notin Bad
    BY <1>1, <1>3
  <2>2. PICK g : g = [i \in 1..(n - 1) |-> FlatStep(S, g, i)]
    BY <2>1
  <2> DEFINE h == [i \in 1..n |-> FlatStep(S, g, i)]
  <2>3. ASSUME NEW i \in 1..n PROVE FlatStep(S, g, i) = FlatStep(S, h, i)
    <3>1. CASE i = 1
      BY <3>1 DEF FlatStep
    <3>2. CASE i # 1
      <4>1. i - 1 \in 1..(n - 1) /\ i - 1 \in 1..n
        BY <2>1, <3>2
      <4>2. g[i - 1] = FlatStep(S, g, i - 1)
        BY <2>2, <4>1
      <4>3. g[i - 1] = h[i - 1]
        BY <4>1, <4>2
      <4> HIDE DEF h
      <4> QED BY <3>2, <4>3, Zenon DEF FlatStep
    <3> QED BY <3>1, <3>2
  <2>4. h = [i \in 1..n |-> FlatStep(S, h, i)]
    BY <2>3
  <2> HIDE DEF h
  <2> QED BY <2>4
<1> QED BY <1>2, <1>3

LEMMA FlatDef ==
    ASSUME NEW S, Len(S) \in Nat
    PROVE  /\ \A i \in 1..Len(S) : Flat(S)[i] = FlatStep(S, Flat(S), i)
           /\ FlattenSeq(S) = IF Len(S) = 0 THEN S ELSE Flat(S)[Len(S)]
<1>1. \E g : g = [i \in 1..Len(S) |-> FlatStep(S, g, i)]
  <2>1. \A n \in Nat : \E g : g = [i \in 1..n |-> FlatStep(S, g, i)]
    BY FlatUpto
  <2> QED BY <2>1
<1>2. Flat(S) = [i \in 1..Len(S) |-> FlatStep(S, Flat(S), i)]
  BY <1>1 DEF Flat, FlatStep
<1>3. FlattenSeq(S) = IF Len(S) = 0 THEN S ELSE Flat(S)[Len(S)]
  BY DEF FlattenSeq, Flat
<1> QED BY <1>2, <1>3, Zenon

(* The operations of each stage of a sequence *)
Stages(items) == [i \in 1..Len(items) |-> ActionsAt(items, i)]

LEMMA JournalParts ==
    ASSUME NEW items \in Seq(Items)
    PROVE  /\ Len(Stages(items)) = Len(items)
           /\ \A i \in 1..Len(items) : Stages(items)[i] = ActionsAt(items, i)
           /\ Journal(items) = IF items = <<>> THEN <<>>
                               ELSE Flat(Stages(items))[Len(items)]
<1> DEFINE S == Stages(items)
<1>0. Len(items) \in Nat
  OBVIOUS
<1>1. S \in Seq(Range(S)) /\ Len(S) = Len(items)
  <2>1. \A i \in 1..Len(items) : S[i] \in Range(S)
    BY DEF Range, Stages
  <2>2. S \in [1..Len(items) -> Range(S)]
    BY <2>1, Zenon DEF Stages
  <2> HIDE DEF S
  <2> QED BY <1>0, <2>2
<1>2. Journal(items) = FlattenSeq(S)
  BY DEF Journal, Stages
<1>3. FlattenSeq(S) = IF Len(S) = 0 THEN S ELSE Flat(S)[Len(S)]
  BY <1>0, <1>1, FlatDef
<1>4. Len(items) = 0 <=> items = <<>>
  OBVIOUS
<1>5. Len(S) = 0 => S = <<>>
  <2> HIDE DEF S
  <2> QED BY <1>1
<1>6. \A i \in 1..Len(items) : S[i] = ActionsAt(items, i)
  BY DEF Stages
<1> HIDE DEF S
<1>7. Journal(items) = IF items = <<>> THEN <<>> ELSE Flat(S)[Len(items)]
  BY <1>1, <1>2, <1>3, <1>4, <1>5
<1> QED BY <1>1, <1>6, <1>7 DEF S

LEMMA JournalWellFormed ==
    ASSUME NEW items \in Seq(Items)
    PROVE  WellFormed(Journal(items))
<1>1. Len(items) \in Nat /\ (Len(items) = 0 <=> items = <<>>)
  OBVIOUS
<1>2. CASE items = <<>>
  <2>1. Journal(items) = <<>>
    BY <1>2, JournalParts
  <2>2. <<>> \in Seq(Act) /\ Len(<<>>) = 0
    OBVIOUS
  <2>3. 1..0 = {}
    OBVIOUS
  <2> QED BY <2>1, <2>2, <2>3 DEF WellFormed
<1>3. CASE items # <<>>
  <2> DEFINE S   == Stages(items)
             Bad == {i \in 1..Len(items) : ~WellFormed(Flat(S)[i])}
  <2>1. \A i \in 1..Len(items) :
           Flat(S)[i] = IF i = 1 THEN ActionsAt(items, i)
                        ELSE Flat(S)[i - 1] \o ActionsAt(items, i)
    <3>1. Len(S) = Len(items) /\ \A i \in 1..Len(items) : S[i] = ActionsAt(items, i)
      BY JournalParts
    <3>2. \A i \in 1..Len(S) : Flat(S)[i] = FlatStep(S, Flat(S), i)
      BY <1>1, <3>1, FlatDef
    <3> HIDE DEF S
    <3> QED BY <3>1, <3>2, Zenon DEF FlatStep
  <2> HIDE DEF S
  <2>2. Bad = {}
    <3> SUFFICES ASSUME Bad # {} PROVE FALSE
      OBVIOUS
    <3>0. Bad \in SUBSET Nat
      OBVIOUS
    <3>1. PICK i \in Bad : \A m \in Bad : i <= m
      BY <3>0, Least
    <3>2. i \in 1..Len(items) /\ WellFormed(ActionsAt(items, i))
      BY <3>1, StageWellFormed
    <3>3. CASE i = 1
      BY <2>1, <3>1, <3>2, <3>3
    <3>4. CASE i # 1
      <4>1. i - 1 \in 1..Len(items) /\ i - 1 \notin Bad
        BY <3>1, <3>2, <3>4
      <4>2. WellFormed(Flat(S)[i - 1] \o ActionsAt(items, i))
        BY <3>2, <4>1, JoinedWellFormed
      <4> QED BY <2>1, <3>1, <3>2, <3>4, <4>2
    <3> QED BY <3>3, <3>4
  <2>3. WellFormed(Flat(S)[Len(items)])
    <3>1. Len(items) \in 1..Len(items)
      BY <1>1, <1>3
    <3> QED BY <2>2, <3>1
  <2>4. Journal(items) = Flat(S)[Len(items)]
    BY <1>3, JournalParts DEF S
  <2> QED BY <2>3, <2>4
<1> QED BY <1>2, <1>3

-------------------------------------------------------------------------------
(* One operation on a model, and its inverse.                              *)

Entry == [total : Nat \ {0}, continuations : Int]

HasFields(m) ==
    m = [grams |-> m.grams, contexts |-> m.contexts, totals |-> m.totals,
         vocab |-> m.vocab, unk |-> m.unk]

IsModel(m) ==
    /\ HasFields(m)
    /\ IsFiniteSet(DOMAIN m.grams)
    /\ m.grams \in [DOMAIN m.grams -> 1..MaxCount]
    /\ \A g \in DOMAIN m.grams : g \in Seq(Items) /\ Len(g) \in 1..MaxOrder
    /\ m.contexts \in [DOMAIN m.contexts -> Entry]
    /\ DOMAIN m.contexts \subseteq Seq(Items)
    /\ m.totals \in [1..MaxOrder -> 0..MaxTotal]
    /\ m.unk \in 0..MaxTotal

(* Models that differ at most in the count of unknown stages.              *)
Agrees(m, s) ==
    /\ m.grams = s.grams /\ m.contexts = s.contexts
    /\ m.totals = s.totals /\ m.vocab = s.vocab

Counted(m, act, fresh) ==
    LET c == ContextOf(m, act.key) IN
    Put(m.contexts, act.key,
        [total |-> c.total + 1,
         continuations |-> c.continuations + (IF fresh THEN 1 ELSE 0)])

(* b is m after the operation, field by field.                             *)
Raised(b, m, act, fresh) ==
    /\ HasFields(b)
    /\ b.vocab = m.vocab
    /\ act.ctx => /\ b.grams = m.grams /\ b.totals = m.totals /\ b.unk = m.unk
                  /\ b.contexts = Counted(m, act, fresh)
    /\ ~act.ctx =>
           /\ b.grams = Put(m.grams, act.key, CountOf(m, act.key) + 1)
           /\ b.totals = [m.totals EXCEPT ![Len(act.key)] = @ + 1]
           /\ b.unk = IF Len(act.key) = 1 /\ CountOf(m, act.key) = 0
                      THEN m.unk + 1 ELSE m.unk
           /\ b.contexts = m.contexts

LEMMA AppliedFields ==
    ASSUME NEW m, IsModel(m), NEW act, NEW fresh
    PROVE  Raised(Applied(m, act, fresh), m, act, fresh)
<1>0. PICK b : b = Applied(m, act, fresh)
  OBVIOUS
<1>1. PICK G, C, T, V, U : m = [grams |-> G, contexts |-> C, totals |-> T, vocab |-> V, unk |-> U]
  BY Zenon DEF IsModel, HasFields
<1>2. m.grams = G /\ m.contexts = C /\ m.totals = T /\ m.vocab = V /\ m.unk = U
  BY <1>1
<1>3. CASE act.ctx
  <2> DEFINE D == Counted(m, act, fresh)
  <2>1. b = [m EXCEPT !.contexts = D]
    BY <1>0, <1>3, Zenon DEF Applied, Counted
  <2> HIDE DEF D
  <2>2. b = [grams |-> G, contexts |-> D, totals |-> T, vocab |-> V, unk |-> U]
    BY <1>1, <2>1
  <2>3. b.grams = G /\ b.contexts = D /\ b.totals = T /\ b.vocab = V /\ b.unk = U
    BY <2>2
  <2> QED BY <1>0, <1>2, <1>3, <2>2, <2>3 DEF D, Raised, HasFields
<1>4. CASE ~act.ctx
  <2> DEFINE H == Put(m.grams, act.key, CountOf(m, act.key) + 1)
             S == [m.totals EXCEPT ![Len(act.key)] = @ + 1]
             W == IF Len(act.key) = 1 /\ CountOf(m, act.key) = 0
                  THEN m.unk + 1 ELSE m.unk
  <2>1. b = [m EXCEPT !.grams = H, !.totals = S, !.unk = W]
    BY <1>0, <1>1, <1>2, <1>4 DEF Applied
  <2> HIDE DEF H, S, W
  <2>2. b = [grams |-> H, contexts |-> C, totals |-> S, vocab |-> V, unk |-> W]
    BY <1>1, <2>1
  <2>3. b.grams = H /\ b.contexts = C /\ b.totals = S /\ b.vocab = V /\ b.unk = W
    BY <2>2
  <2> QED BY <1>0, <1>2, <1>4, <2>2, <2>3 DEF H, S, W, Raised, HasFields
<1> QED BY <1>3, <1>4

Uncounted(m, done) ==
    LET c == ContextOf(m, done.key) IN
    IF done.inserted THEN Drop(m.contexts, done.key)
    ELSE Put(m.contexts, done.key,
             [total |-> c.total - 1,
              continuations |-> c.continuations - (IF done.fresh THEN 1 ELSE 0)])

(* b is m after undoing the operation, field by field.                     *)
Lowered(b, m, done) ==
    /\ HasFields(b)
    /\ b.vocab = m.vocab /\ b.unk = m.unk
    /\ done.ctx => /\ b.grams = m.grams /\ b.totals = m.totals
                   /\ b.contexts = Uncounted(m, done)
    /\ ~done.ctx =>
           /\ b.grams = IF done.inserted THEN Drop(m.grams, done.key)
                        ELSE Put(m.grams, done.key, CountOf(m, done.key) - 1)
           /\ b.totals = [m.totals EXCEPT ![Len(done.key)] = @ - 1]
           /\ b.contexts = m.contexts

LEMMA UndoneFields ==
    ASSUME NEW m, IsModel(m), NEW done
    PROVE  Lowered(Undone(m, done), m, done)
<1>0. PICK b : b = Undone(m, done)
  OBVIOUS
<1>1. PICK G, C, T, V, U : m = [grams |-> G, contexts |-> C, totals |-> T, vocab |-> V, unk |-> U]
  BY Zenon DEF IsModel, HasFields
<1>2. m.grams = G /\ m.contexts = C /\ m.totals = T /\ m.vocab = V /\ m.unk = U
  BY <1>1
<1>3. CASE done.ctx
  <2> DEFINE D == Uncounted(m, done)
  <2>1. b = [m EXCEPT !.contexts = D]
    BY <1>0, <1>1, <1>2, <1>3 DEF Undone, Uncounted
  <2> HIDE DEF D
  <2>2. b = [grams |-> G, contexts |-> D, totals |-> T, vocab |-> V, unk |-> U]
    BY <1>1, <2>1
  <2>3. b.grams = G /\ b.contexts = D /\ b.totals = T /\ b.vocab = V /\ b.unk = U
    BY <2>2
  <2> QED BY <1>0, <1>2, <1>3, <2>2, <2>3 DEF D, Lowered, HasFields
<1>4. CASE ~done.ctx
  <2> DEFINE H == IF done.inserted THEN Drop(m.grams, done.key)
                  ELSE Put(m.grams, done.key, CountOf(m, done.key) - 1)
             S == [m.totals EXCEPT ![Len(done.key)] = @ - 1]
  <2>1. b = [m EXCEPT !.grams = H, !.totals = S]
    BY <1>0, <1>1, <1>2, <1>4 DEF Undone
  <2> HIDE DEF H, S
  <2>2. b = [grams |-> H, contexts |-> C, totals |-> S, vocab |-> V, unk |-> U]
    BY <1>1, <2>1
  <2>3. b.grams = H /\ b.contexts = C /\ b.totals = S /\ b.vocab = V /\ b.unk = U
    BY <2>2
  <2> QED BY <1>0, <1>2, <1>4, <2>2, <2>3 DEF H, S, Lowered, HasFields
<1> QED BY <1>3, <1>4

Maps(f, R) == f \in [DOMAIN f -> R]

(* What was put can be dropped, or put back.                               *)
HasPut(p, f, k, v) ==
    /\ DOMAIN p = DOMAIN f \cup {k} /\ p[k] = v
    /\ \A x \in DOMAIN f \ {k} : p[x] = f[x]
    /\ k \notin DOMAIN f => Drop(p, k) = f
    /\ k \in DOMAIN f => Put(p, k, f[k]) = f

LEMMA PutDrop ==
    ASSUME NEW R, NEW f, Maps(f, R), NEW k, NEW v
    PROVE  /\ v \in R => Maps(Put(f, k, v), R)
           /\ HasPut(Put(f, k, v), f, k, v)
<1> DEFINE p == Put(f, k, v)
<1>0. f = [x \in DOMAIN f |-> f[x]] /\ \A x \in DOMAIN f : f[x] \in R
  BY DEF Maps
<1>1. p = [x \in DOMAIN f \cup {k} |-> IF x = k THEN v ELSE f[x]]
  BY DEF Put
<1>2. /\ DOMAIN p = DOMAIN f \cup {k} /\ p[k] = v
      /\ \A x \in DOMAIN f \ {k} : p[x] = f[x]
  BY <1>1
<1>5. v \in R => Maps(p, R)
  BY <1>0, <1>1 DEF Maps
<1> HIDE DEF p
<1>3. ASSUME k \notin DOMAIN f PROVE Drop(p, k) = f
  <2>1. Drop(p, k) = [x \in DOMAIN f |-> p[x]]
    <3>1. DOMAIN p \ {k} = DOMAIN f
      BY <1>2, <1>3
    <3> QED BY <3>1, Zenon DEF Drop
  <2>2. \A x \in DOMAIN f : p[x] = f[x]
    BY <1>2, <1>3
  <2> QED BY <1>0, <2>1, <2>2, Zenon
<1>4. ASSUME k \in DOMAIN f PROVE Put(p, k, f[k]) = f
  <2>1. Put(p, k, f[k]) = [x \in DOMAIN f |-> IF x = k THEN f[k] ELSE p[x]]
    <3>1. DOMAIN p \cup {k} = DOMAIN f
      BY <1>2, <1>4
    <3> QED BY <3>1, Zenon DEF Put
  <2>2. \A x \in DOMAIN f : (IF x = k THEN f[k] ELSE p[x]) = f[x]
    BY <1>2, <1>4
  <2> QED BY <1>0, <2>1, <2>2, Zenon
<1> QED BY <1>2, <1>3, <1>4, <1>5 DEF p, HasPut

LEMMA CountShape ==
    ASSUME NEW m, IsModel(m), NEW g
    PROVE  /\ CountOf(m, g) \in 0..MaxCount
           /\ CountOf(m, g) = 0 <=> g \notin DOMAIN m.grams
           /\ g \in DOMAIN m.grams => CountOf(m, g) = m.grams[g]
<1>1. g \in DOMAIN m.grams => m.grams[g] \in 1..MaxCount
  BY DEF IsModel
<1> QED BY <1>1, ModelAssumption DEF CountOf

LEMMA ContextShape ==
    ASSUME NEW m, IsModel(m), NEW key
    PROVE  /\ ContextOf(m, key).total \in Nat /\ ContextOf(m, key).continuations \in Int
           /\ ContextOf(m, key).total = 0 <=> key \notin DOMAIN m.contexts
           /\ key \in DOMAIN m.contexts =>
                  ContextOf(m, key) = m.contexts[key] /\ m.contexts[key] \in Entry
<1>1. key \in DOMAIN m.contexts => m.contexts[key] \in Entry
  BY DEF IsModel
<1> QED BY <1>1 DEF ContextOf, Entry

LEMMA PreviousShape ==
    ASSUME NEW m, IsModel(m), NEW act
    PROVE  Previous(m, act) \in Nat
  BY CountShape, ContextShape DEF Previous

LEMMA SameEntry ==
    ASSUME NEW a \in Entry, NEW t, NEW c, t = a.total, c = a.continuations
    PROVE  [total |-> t, continuations |-> c] = a
  BY DEF Entry

(* An operation below the limits keeps a model a model.                    *)
LEMMA AppliedModel ==
    ASSUME NEW m, IsModel(m), NEW act \in Act, ~act.ctx => Len(act.key) \in 1..MaxOrder,
           ~AtLimit(m, act), NEW fresh
    PROVE  IsModel(Applied(m, act, fresh))
<1>0. PICK b : b = Applied(m, act, fresh)
  OBVIOUS
<1> SUFFICES IsModel(b)
  BY <1>0, Zenon
<1>1. /\ HasFields(b)
      /\ act.ctx => /\ b.grams = m.grams /\ b.totals = m.totals /\ b.unk = m.unk
                    /\ b.contexts = Counted(m, act, fresh)
      /\ ~act.ctx =>
             /\ b.grams = Put(m.grams, act.key, CountOf(m, act.key) + 1)
             /\ b.totals = [m.totals EXCEPT ![Len(act.key)] = @ + 1]
             /\ b.unk = IF Len(act.key) = 1 /\ CountOf(m, act.key) = 0
                        THEN m.unk + 1 ELSE m.unk
             /\ b.contexts = m.contexts
  <2>1. Raised(b, m, act, fresh)
    BY <1>0, AppliedFields
  <2> QED BY <2>1 DEF Raised
<1>2. CASE act.ctx
  <2> DEFINE c == ContextOf(m, act.key)
             e == [total |-> c.total + 1,
                   continuations |-> c.continuations + (IF fresh THEN 1 ELSE 0)]
  <2>1. e \in Entry
    <3>1. c.total \in Nat /\ c.continuations \in Int
      BY ContextShape
    <3> HIDE DEF c
    <3> QED BY <3>1 DEF Entry
  <2>2. b.contexts = Put(m.contexts, act.key, e)
    BY <1>1, <1>2 DEF Counted
  <2> HIDE DEF e, c
  <2>3. b.contexts \in [DOMAIN b.contexts -> Entry]
    <3>1. PICK f : f = m.contexts
      OBVIOUS
    <3>2. Maps(f, Entry)
      BY <3>1 DEF IsModel, Maps
    <3>3. Maps(Put(f, act.key, e), Entry)
      BY <2>1, <3>2, PutDrop
    <3> QED BY <2>2, <3>1, <3>3, Zenon DEF Maps
  <2>4. DOMAIN b.contexts \subseteq Seq(Items)
    <3>1. DOMAIN b.contexts = DOMAIN m.contexts \cup {act.key}
      BY <2>2, Zenon DEF Put
    <3> QED BY <3>1 DEF IsModel, Act
  <2> QED BY <1>1, <1>2, <2>3, <2>4 DEF IsModel
<1>3. CASE ~act.ctx
  <2> DEFINE k == Len(act.key)
             n == CountOf(m, act.key)
  <2>1. n \in Nat /\ n < MaxCount /\ MaxCount \in Nat
    <3>1. n \in Nat /\ n = Previous(m, act) /\ MaxCount \in Nat
      BY <1>3, CountShape, ModelAssumption DEF Previous
    <3> QED BY <3>1 DEF AtLimit
  <2>2. /\ m.totals[k] # MaxTotal
        /\ k = 1 /\ n = 0 => m.unk # MaxTotal
    BY <1>3 DEF AtLimit, Previous
  <2>3. act.key \in Seq(Items) /\ k \in 1..MaxOrder
    BY <1>3 DEF Act
  <2> HIDE DEF n, k
  <2>4. b.grams = Put(m.grams, act.key, n + 1)
    BY <1>1, <1>3 DEF n
  <2>5. b.totals = [m.totals EXCEPT ![k] = @ + 1]
    BY <1>1, <1>3 DEF k
  <2>6. b.unk = IF k = 1 /\ n = 0 THEN m.unk + 1 ELSE m.unk
    BY <1>1, <1>3 DEF k, n
  <2>7. b.totals \in [1..MaxOrder -> 0..MaxTotal]
    <3>1. m.totals \in [1..MaxOrder -> 0..MaxTotal] /\ MaxTotal \in Nat
      BY ModelAssumption DEF IsModel
    <3>2. m.totals[k] + 1 \in 0..MaxTotal
      <4>1. m.totals[k] \in 0..MaxTotal
        BY <2>3, <3>1
      <4> QED BY <2>2, <3>1, <4>1
    <3> QED BY <2>5, <3>1, <3>2
  <2>8. b.unk \in 0..MaxTotal
    BY <2>2, <2>6, ModelAssumption DEF IsModel
  <2>9. DOMAIN b.grams = DOMAIN m.grams \cup {act.key}
        /\ b.grams \in [DOMAIN b.grams -> 1..MaxCount]
    <3>1. m.grams \in [DOMAIN m.grams -> 1..MaxCount]
      BY DEF IsModel
    <3>2. n + 1 \in 1..MaxCount
      BY <2>1
    <3>3. PICK f : f = m.grams
      OBVIOUS
    <3>4. Maps(f, 1..MaxCount)
      BY <3>1, <3>3 DEF Maps
    <3>5. /\ Maps(Put(f, act.key, n + 1), 1..MaxCount)
          /\ HasPut(Put(f, act.key, n + 1), f, act.key, n + 1)
      BY <3>2, <3>4, PutDrop
    <3> QED BY <2>4, <3>3, <3>5, Zenon DEF Maps, HasPut
  <2>10. IsFiniteSet(DOMAIN b.grams)
    <3>1. IsFiniteSet(DOMAIN m.grams)
      BY DEF IsModel
    <3>2. IsFiniteSet(DOMAIN m.grams \cup {act.key})
      BY <3>1, FS_AddElement
    <3> QED BY <2>9, <3>2, Zenon
  <2>11. \A g \in DOMAIN b.grams : g \in Seq(Items) /\ Len(g) \in 1..MaxOrder
    BY <2>3, <2>9 DEF IsModel, k
  <2>12. b.contexts \in [DOMAIN b.contexts -> Entry]
    BY <1>1, <1>3 DEF IsModel
  <2>13. DOMAIN b.contexts \subseteq Seq(Items)
    BY <1>1, <1>3 DEF IsModel
  <2> QED BY <1>1, <2>7, <2>8, <2>9, <2>10, <2>11, <2>12, <2>13 DEF IsModel
<1> QED BY <1>2, <1>3

(* One operation of a journal took a to b.                                 *)
IsStep(a, b, op) ==
    /\ Agrees(b, Applied(a, op, op.fresh))
    /\ op.inserted <=> Previous(a, op) = 0

(* What rollback meets is what the operation left.                         *)
LEMMA StepLeaves ==
    ASSUME NEW a, IsModel(a), NEW b, NEW op, IsStep(a, b, op),
           NEW m, Agrees(m, b)
    PROVE  IF op.inserted THEN Previous(m, op) = 1 ELSE Previous(m, op) > 1
<1>0. PICK c, fresh : fresh = op.fresh /\ c = Applied(a, op, fresh)
  OBVIOUS
<1>1. /\ op.ctx => c.contexts = Counted(a, op, fresh)
      /\ ~op.ctx => c.grams = Put(a.grams, op.key, CountOf(a, op.key) + 1)
  <2>1. Raised(c, a, op, fresh)
    BY <1>0, AppliedFields
  <2> QED BY <2>1 DEF Raised
<1>2. m.grams = c.grams /\ m.contexts = c.contexts
  BY <1>0 DEF Agrees, IsStep
<1>3. Previous(a, op) \in Nat
  BY PreviousShape
<1>4. CASE op.ctx
  <2> DEFINE t == ContextOf(a, op.key).total
             e == [total |-> t + 1,
                   continuations |-> ContextOf(a, op.key).continuations
                                     + (IF fresh THEN 1 ELSE 0)]
  <2>1. m.contexts = Put(a.contexts, op.key, e)
    BY <1>1, <1>2, <1>4 DEF Counted
  <2>2. e.total = t + 1
    OBVIOUS
  <2> HIDE DEF e
  <2>3. op.key \in DOMAIN m.contexts /\ m.contexts[op.key] = e
    BY <2>1 DEF Put
  <2>4. Previous(m, op) = t + 1
    BY <1>4, <2>2, <2>3 DEF Previous, ContextOf
  <2>5. Previous(a, op) = t
    BY <1>4 DEF Previous
  <2> HIDE DEF t
  <2> QED BY <1>3, <2>4, <2>5 DEF IsStep
<1>5. CASE ~op.ctx
  <2> DEFINE n == CountOf(a, op.key)
  <2>1. m.grams = Put(a.grams, op.key, n + 1)
    BY <1>1, <1>2, <1>5
  <2>2. Previous(a, op) = n
    BY <1>5 DEF Previous
  <2> HIDE DEF n
  <2>3. op.key \in DOMAIN m.grams /\ m.grams[op.key] = n + 1
    BY <2>1 DEF Put
  <2>4. Previous(m, op) = n + 1
    BY <1>5, <2>3 DEF Previous, CountOf
  <2> QED BY <1>3, <2>2, <2>4 DEF IsStep
<1> QED BY <1>4, <1>5

(* Undoing what an operation left restores what it began with.             *)
LEMMA StepUndone ==
    ASSUME NEW a, IsModel(a), NEW b, NEW op, IsStep(a, b, op),
           NEW m, IsModel(m), Agrees(m, b)
    PROVE  /\ Agrees(Undone(m, op), a) /\ Undone(m, op).unk = m.unk
           /\ IsModel(Undone(m, op))
<1>0. PICK c, u, fresh : fresh = op.fresh /\ c = Applied(a, op, fresh) /\ u = Undone(m, op)
  OBVIOUS
<1>1. /\ c.vocab = a.vocab
      /\ op.ctx => /\ c.grams = a.grams /\ c.totals = a.totals
                   /\ c.contexts = Counted(a, op, fresh)
      /\ ~op.ctx =>
             /\ c.grams = Put(a.grams, op.key, CountOf(a, op.key) + 1)
             /\ c.totals = [a.totals EXCEPT ![Len(op.key)] = @ + 1]
             /\ c.contexts = a.contexts
  <2>1. Raised(c, a, op, fresh)
    BY <1>0, AppliedFields
  <2> QED BY <2>1 DEF Raised
<1>2. m.grams = c.grams /\ m.contexts = c.contexts /\ m.totals = c.totals /\ m.vocab = c.vocab
  BY <1>0 DEF Agrees, IsStep
<1>3. /\ HasFields(u)
      /\ u.vocab = m.vocab /\ u.unk = m.unk
      /\ op.ctx => /\ u.grams = m.grams /\ u.totals = m.totals
                   /\ u.contexts = Uncounted(m, op)
      /\ ~op.ctx =>
             /\ u.grams = IF op.inserted THEN Drop(m.grams, op.key)
                          ELSE Put(m.grams, op.key, CountOf(m, op.key) - 1)
             /\ u.totals = [m.totals EXCEPT ![Len(op.key)] = @ - 1]
             /\ u.contexts = m.contexts
  <2>1. Lowered(u, m, op)
    BY <1>0, UndoneFields
  <2> QED BY <2>1 DEF Lowered
<1>4. op.inserted <=> Previous(a, op) = 0
  BY DEF IsStep
<1>5. CASE op.ctx
  <2> DEFINE o == ContextOf(a, op.key)
             e == [total |-> o.total + 1,
                   continuations |-> o.continuations + (IF fresh THEN 1 ELSE 0)]
  <2>0. PICK f : f = a.contexts
    OBVIOUS
  <2>1. Maps(f, Entry)
    BY <2>0 DEF IsModel, Maps
  <2>2. m.contexts = Put(f, op.key, e)
    BY <2>0, <1>1, <1>2, <1>5 DEF Counted
  <2>3. u.contexts = IF op.inserted THEN Drop(m.contexts, op.key)
                     ELSE Put(m.contexts, op.key,
                            [total |-> ContextOf(m, op.key).total - 1,
                             continuations |-> ContextOf(m, op.key).continuations
                                               - (IF fresh THEN 1 ELSE 0)])
    BY <1>0, <1>3, <1>5, Zenon DEF Uncounted
  <2>4. op.inserted <=> op.key \notin DOMAIN f
    BY <2>0, <1>4, <1>5, ContextShape DEF Previous
  <2>5. u.contexts = f
    <3>1. CASE op.inserted
      <4> HIDE DEF e
      <4>1. HasPut(Put(f, op.key, e), f, op.key, e)
        BY <2>1, PutDrop
      <4> QED BY <2>2, <2>3, <2>4, <3>1, <4>1, Zenon DEF HasPut
    <3>2. CASE ~op.inserted
      <4>1. op.key \in DOMAIN f /\ o = f[op.key] /\ o \in Entry
        BY <2>0, <2>4, <3>2, ContextShape
      <4>2. e.total - 1 = o.total
            /\ e.continuations - (IF fresh THEN 1 ELSE 0) = o.continuations
        <5> HIDE DEF o
        <5> QED BY <4>1 DEF Entry
      <4>3. ContextOf(m, op.key) = e
        <5> HIDE DEF e
        <5>1. op.key \in DOMAIN m.contexts /\ m.contexts[op.key] = e
          <6>1. HasPut(Put(f, op.key, e), f, op.key, e)
            BY <2>1, PutDrop
          <6> QED BY <2>2, <6>1, Zenon DEF HasPut
        <5> QED BY <5>1 DEF ContextOf
      <4> HIDE DEF e
      <4>4. u.contexts = Put(m.contexts, op.key,
                            [total |-> e.total - 1,
                             continuations |-> e.continuations
                                               - (IF fresh THEN 1 ELSE 0)])
        BY <2>3, <3>2, <4>3
      <4> DEFINE back == [total |-> e.total - 1,
                          continuations |-> e.continuations
                                            - (IF fresh THEN 1 ELSE 0)]
      <4>5. back = o
        <5> HIDE DEF o
        <5> QED BY <4>1, <4>2, SameEntry
      <4> HIDE DEF back, o
      <4>6. u.contexts = Put(m.contexts, op.key, f[op.key])
        BY <4>1, <4>4, <4>5, Zenon DEF back
      <4>7. HasPut(Put(f, op.key, e), f, op.key, e)
        BY <2>1, PutDrop
      <4> QED BY <2>2, <4>1, <4>6, <4>7, Zenon DEF HasPut
    <3> QED BY <3>1, <3>2
  <2>6. u.grams = a.grams /\ u.totals = a.totals
    BY <1>1, <1>2, <1>3, <1>5
  <2> QED BY <1>0, <1>1, <1>2, <1>3, <2>0, <2>5, <2>6 DEF Agrees, IsModel
<1>6. CASE ~op.ctx
  <2> DEFINE n == CountOf(a, op.key)
  <2>0. PICK f : f = a.grams
    OBVIOUS
  <2>1. Maps(f, 1..MaxCount)
    BY <2>0 DEF IsModel, Maps
  <2>2. m.grams = Put(f, op.key, n + 1)
    BY <2>0, <1>1, <1>2, <1>6
  <2>3. /\ n \in Nat
        /\ op.inserted <=> op.key \notin DOMAIN f
        /\ op.key \in DOMAIN f => n = f[op.key]
    BY <2>0, <1>4, <1>6, CountShape DEF Previous
  <2> HIDE DEF n
  <2>4. u.grams = f
    <3>0. HasPut(m.grams, f, op.key, n + 1)
      <4>1. HasPut(Put(f, op.key, n + 1), f, op.key, n + 1)
        BY <2>1, PutDrop
      <4> QED BY <2>2, <4>1, Zenon
    <3>1. CASE op.inserted
      BY <1>3, <1>6, <2>3, <3>0, <3>1, Zenon DEF HasPut
    <3>2. CASE ~op.inserted
      <4>1. op.key \in DOMAIN m.grams /\ m.grams[op.key] = n + 1
        BY <3>0, Zenon DEF HasPut
      <4>2. CountOf(m, op.key) = n + 1
        BY <4>1, Zenon DEF CountOf
      <4>3. CountOf(m, op.key) - 1 = n
        BY <2>3, <4>2
      <4>4. u.grams = Put(m.grams, op.key, f[op.key])
        BY <1>3, <1>6, <2>3, <3>2, <4>3, Zenon
      <4> QED BY <2>3, <3>0, <3>2, <4>4, Zenon DEF HasPut
    <3> QED BY <3>1, <3>2
  <2>5. u.totals = a.totals
    <3>1. PICK t, k : t = a.totals /\ k = Len(op.key)
      OBVIOUS
    <3>2. t \in [1..MaxOrder -> Int]
      <4>1. t \in [1..MaxOrder -> 0..MaxTotal] /\ MaxTotal \in Nat
        BY <3>1, ModelAssumption DEF IsModel
      <4> QED BY <4>1
    <3>3. PICK p : p = [t EXCEPT ![k] = @ + 1]
      OBVIOUS
    <3>4. m.totals = p
      BY <1>1, <1>2, <1>6, <3>1, <3>3, Zenon
    <3>5. u.totals = [p EXCEPT ![k] = @ - 1]
      BY <1>3, <1>6, <3>1, <3>4, Zenon
    <3>6. [p EXCEPT ![k] = @ - 1] = t
      <4>1. p \in [1..MaxOrder -> Int]
        <5>1. CASE k \in 1..MaxOrder
          <6>1. t[k] + 1 \in Int
            BY <3>2, <5>1
          <6> QED BY <3>2, <3>3, <6>1
        <5>2. CASE k \notin 1..MaxOrder
          BY <3>2, <3>3, <5>2
        <5> QED BY <5>1, <5>2
      <4>2. \A x \in 1..MaxOrder : [p EXCEPT ![k] = @ - 1][x] = t[x]
        BY <3>2, <3>3
      <4> QED BY <3>2, <4>1, <4>2
    <3> QED BY <3>1, <3>5, <3>6, Zenon
  <2> QED BY <1>0, <1>1, <1>2, <1>3, <1>6, <2>0, <2>4, <2>5 DEF Agrees, IsModel
<1> QED BY <1>5, <1>6

-------------------------------------------------------------------------------
(* The derived tables.                                                     *)

Longer(grams, key) == {g \in DOMAIN grams : Len(g) > 1 /\ Front(g) = key}

OfOrder(grams, k) == {g \in DOMAIN grams : Len(g) = k}

(* Contexts and totals are those of the n-grams, but for the context of an *)
(* n-gram that was counted last.                                           *)
DerivedBut(m, late, due, new) ==
    /\ \A k \in 1..MaxOrder : m.totals[k] = SumOver(m.grams, OfOrder(m.grams, k))
    /\ \A key \in Seq(Items) :
          /\ ContextOf(m, key).total + (IF late /\ key = due THEN 1 ELSE 0)
                = SumOver(m.grams, Longer(m.grams, key))
          /\ ContextOf(m, key).continuations
             + (IF late /\ key = due /\ new THEN 1 ELSE 0)
                = Cardinality(Longer(m.grams, key))

(* One more of an n-gram, in the sums and the sets it is counted in.       *)
LEMMA PutSum ==
    ASSUME NEW m, IsModel(m), NEW g, NEW p, HasPut(p, m.grams, g, CountOf(m, g) + 1),
           NEW S \in SUBSET (DOMAIN m.grams)
    PROVE  /\ IsFiniteSet(S)
           /\ (g \in DOMAIN m.grams => g \in S) =>
                  /\ SumOver(p, S \cup {g}) = SumOver(m.grams, S) + 1
                  /\ Cardinality(S \cup {g})
                        = Cardinality(S) + (IF g \in DOMAIN m.grams THEN 0 ELSE 1)
<1>1. PICK f : f = m.grams
  OBVIOUS
<1>2. IsFiniteSet(S)
  BY FS_Subset DEF IsModel
<1>3. \A x \in S : f[x] \in Nat
  <2>1. f \in [DOMAIN f -> 1..MaxCount]
    BY <1>1 DEF IsModel
  <2> QED BY <1>1, <2>1
<1>4. p[g] = CountOf(m, g) + 1 /\ \A x \in S \ {g} : p[x] = f[x]
  BY <1>1 DEF HasPut
<1>5. ASSUME g \in DOMAIN m.grams => g \in S
      PROVE  /\ SumOver(p, S \cup {g}) = SumOver(f, S) + 1
             /\ Cardinality(S \cup {g})
                   = Cardinality(S) + (IF g \in DOMAIN m.grams THEN 0 ELSE 1)
  <2>1. p[g] = (IF g \in S THEN f[g] ELSE 0) + 1
    BY <1>1, <1>4, <1>5 DEF CountOf
  <2>2. SumOver(p, S \cup {g}) = SumOver(f, S) + 1
    BY <1>2, <1>3, <1>4, <2>1, SumRaised
  <2>3. Cardinality(S \cup {g}) = Cardinality(S) + (IF g \in DOMAIN m.grams THEN 0 ELSE 1)
    <3>1. g \in S <=> g \in DOMAIN m.grams
      BY <1>5
    <3>2. Cardinality(S) \in Nat
      BY <1>2, FS_CardinalityType
    <3>3. g \in S => S \cup {g} = S
      OBVIOUS
    <3>4. g \notin S => Cardinality(S \cup {g}) = Cardinality(S) + 1
      BY <1>2, FS_AddElement
    <3> QED BY <3>1, <3>2, <3>3, <3>4
  <2> QED BY <2>2, <2>3
<1> QED BY <1>1, <1>2, <1>5

LEMMA PutOther ==
    ASSUME NEW m, IsModel(m), NEW g, NEW p, HasPut(p, m.grams, g, CountOf(m, g) + 1),
           NEW S \in SUBSET (DOMAIN m.grams), g \notin S
    PROVE  SumOver(p, S) = SumOver(m.grams, S)
<1>1. PICK f : f = m.grams
  OBVIOUS
<1>2. IsFiniteSet(S)
  BY FS_Subset DEF IsModel
<1>3. f \in [DOMAIN f -> 1..MaxCount]
  BY <1>1 DEF IsModel
<1>4. \A x \in S : f[x] \in Nat /\ p[x] = f[x]
  BY <1>1, <1>3 DEF HasPut
<1> QED BY <1>1, <1>2, <1>4, SumSame

(* An n-gram was counted: only its own context is late now.                *)
LEMMA GramDerived ==
    ASSUME NEW m, IsModel(m), NEW due, NEW new, DerivedBut(m, FALSE, due, new),
           NEW g \in Seq(Items), Len(g) \in 1..MaxOrder, NEW b,
           b.grams = Put(m.grams, g, CountOf(m, g) + 1),
           b.totals = [m.totals EXCEPT ![Len(g)] = @ + 1],
           b.contexts = m.contexts
    PROVE  DerivedBut(b, Len(g) > 1, Front(g), CountOf(m, g) = 0)
<1>1. HasPut(b.grams, m.grams, g, CountOf(m, g) + 1)
  <2>1. PICK f : f = m.grams
    OBVIOUS
  <2>2. Maps(f, 1..MaxCount)
    BY <2>1 DEF IsModel, Maps
  <2>3. HasPut(Put(f, g, CountOf(m, g) + 1), f, g, CountOf(m, g) + 1)
    BY <2>2, PutDrop
  <2> QED BY <2>1, <2>3, Zenon
<1>2. DOMAIN b.grams = DOMAIN m.grams \cup {g}
  BY <1>1 DEF HasPut
<1>3. ASSUME NEW k \in 1..MaxOrder
      PROVE  b.totals[k] = SumOver(b.grams, OfOrder(b.grams, k))
  <2> DEFINE S == OfOrder(m.grams, k)
  <2>1. S \in SUBSET (DOMAIN m.grams)
    BY DEF OfOrder
  <2>2. m.totals[k] = SumOver(m.grams, S)
    BY DEF DerivedBut
  <2>3. m.totals \in [1..MaxOrder -> 0..MaxTotal]
    BY DEF IsModel
  <2>4. CASE Len(g) = k
    <3>1. OfOrder(b.grams, k) = S \cup {g} /\ (g \in DOMAIN m.grams => g \in S)
      BY <1>2, <2>4 DEF OfOrder
    <3> HIDE DEF S
    <3>2. SumOver(b.grams, S \cup {g}) = SumOver(m.grams, S) + 1
      BY <1>1, <2>1, <3>1, PutSum
    <3>3. b.totals[k] = m.totals[k] + 1
      BY <2>3, <2>4
    <3> QED BY <2>2, <3>1, <3>2, <3>3
  <2>5. CASE Len(g) # k
    <3>1. OfOrder(b.grams, k) = S /\ g \notin S
      BY <1>2, <2>5 DEF OfOrder
    <3> HIDE DEF S
    <3>2. SumOver(b.grams, S) = SumOver(m.grams, S)
      BY <1>1, <2>1, <3>1, PutOther
    <3>3. b.totals[k] = m.totals[k]
      BY <2>3, <2>5
    <3> QED BY <2>2, <3>1, <3>2, <3>3
  <2> QED BY <2>4, <2>5
<1>4. ASSUME NEW key \in Seq(Items)
      PROVE  /\ ContextOf(b, key).total
                + (IF Len(g) > 1 /\ key = Front(g) THEN 1 ELSE 0)
                   = SumOver(b.grams, Longer(b.grams, key))
             /\ ContextOf(b, key).continuations
                + (IF Len(g) > 1 /\ key = Front(g) /\ CountOf(m, g) = 0 THEN 1 ELSE 0)
                   = Cardinality(Longer(b.grams, key))
  <2> DEFINE S == Longer(m.grams, key)
  <2>1. S \in SUBSET (DOMAIN m.grams)
    BY DEF Longer
  <2>2. /\ ContextOf(m, key).total = SumOver(m.grams, S)
        /\ ContextOf(m, key).continuations = Cardinality(S)
    <3>1. /\ ContextOf(m, key).total + 0 = SumOver(m.grams, S)
          /\ ContextOf(m, key).continuations + 0 = Cardinality(S)
      BY DEF DerivedBut
    <3>2. ContextOf(m, key).total \in Nat /\ ContextOf(m, key).continuations \in Int
      BY ContextShape
    <3> HIDE DEF S
    <3> QED BY <3>1, <3>2
  <2>3. ContextOf(b, key) = ContextOf(m, key)
    BY DEF ContextOf
  <2>4. CountOf(m, g) = 0 <=> g \notin DOMAIN m.grams
    BY CountShape
  <2>5. CASE Len(g) > 1 /\ key = Front(g)
    <3>1. Longer(b.grams, key) = S \cup {g} /\ (g \in DOMAIN m.grams => g \in S)
      BY <1>2, <2>5 DEF Longer
    <3> HIDE DEF S
    <3>2. /\ SumOver(b.grams, S \cup {g}) = SumOver(m.grams, S) + 1
          /\ Cardinality(S \cup {g})
                = Cardinality(S) + (IF g \in DOMAIN m.grams THEN 0 ELSE 1)
      BY <1>1, <2>1, <3>1, PutSum
    <3> QED BY <2>2, <2>3, <2>4, <2>5, <3>1, <3>2
  <2>6. CASE ~(Len(g) > 1 /\ key = Front(g))
    <3>1. Longer(b.grams, key) = S /\ g \notin S
      BY <1>2, <2>6 DEF Longer
    <3> HIDE DEF S
    <3>2. SumOver(b.grams, S) = SumOver(m.grams, S)
      BY <1>1, <2>1, <3>1, PutOther
    <3>3. ContextOf(m, key).total \in Nat /\ ContextOf(m, key).continuations \in Int
      BY ContextShape
    <3> QED BY <2>2, <2>3, <2>6, <3>1, <3>2, <3>3
  <2> QED BY <2>5, <2>6
<1> QED BY <1>3, <1>4 DEF DerivedBut

(* The late context was counted.                                           *)
OneMoreSeen(m, key, new) ==
    [total |-> ContextOf(m, key).total + 1,
     continuations |-> ContextOf(m, key).continuations + (IF new THEN 1 ELSE 0)]

LEMMA ContextDerived ==
    ASSUME NEW m, IsModel(m), NEW key \in Seq(Items), NEW new \in BOOLEAN,
           DerivedBut(m, TRUE, key, new), NEW b,
           b.grams = m.grams, b.totals = m.totals,
           b.contexts = Put(m.contexts, key, OneMoreSeen(m, key, new)),
           NEW due, NEW other
    PROVE  DerivedBut(b, FALSE, due, other)
<1> DEFINE e == [total |-> ContextOf(m, key).total + 1,
                 continuations |-> ContextOf(m, key).continuations
                                   + (IF new THEN 1 ELSE 0)]
<1>1. /\ e.total = ContextOf(m, key).total + 1
      /\ e.continuations = ContextOf(m, key).continuations + (IF new THEN 1 ELSE 0)
  OBVIOUS
<1>2. b.contexts = Put(m.contexts, key, e)
  BY DEF OneMoreSeen
<1> HIDE DEF e
<1>3. ContextOf(b, key) = e
  BY <1>2 DEF ContextOf, Put
<1>4. ASSUME NEW x \in Seq(Items), x # key
      PROVE  ContextOf(b, x) = ContextOf(m, x)
  BY <1>2, <1>4 DEF ContextOf, Put
<1>5. ASSUME NEW x \in Seq(Items)
      PROVE  /\ ContextOf(b, x).total + 0 = SumOver(b.grams, Longer(b.grams, x))
             /\ ContextOf(b, x).continuations + 0 = Cardinality(Longer(b.grams, x))
  <2>1. /\ ContextOf(m, x).total + (IF x = key THEN 1 ELSE 0)
              = SumOver(m.grams, Longer(m.grams, x))
        /\ ContextOf(m, x).continuations + (IF x = key /\ new THEN 1 ELSE 0)
              = Cardinality(Longer(m.grams, x))
    BY DEF DerivedBut
  <2>2. ContextOf(m, x).total \in Nat /\ ContextOf(m, x).continuations \in Int
    BY ContextShape
  <2>3. CASE x = key
    BY <1>1, <1>3, <2>1, <2>2, <2>3
  <2>4. CASE x # key
    BY <1>4, <2>1, <2>2, <2>4
  <2> QED BY <2>3, <2>4
<1>6. \A k \in 1..MaxOrder : b.totals[k] = SumOver(b.grams, OfOrder(b.grams, k))
  BY DEF DerivedBut
<1> QED BY <1>5, <1>6 DEF DerivedBut

LEMMA SumPositive ==
    ASSUME NEW S, IsFiniteSet(S), NEW f, \A x \in S : f[x] \in Nat \ {0}
    PROVE  SumOver(f, S) \in Nat /\ (SumOver(f, S) = 0 <=> S = {})
<1>1. \A x \in S : f[x] \in Nat
  OBVIOUS
<1>2. SumOver(f, S) \in Nat
  BY <1>1, SumNat
<1>3. CASE S = {}
  <2>1. S \in SUBSET S
    OBVIOUS
  <2>2. Sums(f, S)[S] = SumStep(f, Sums(f, S), S)
    BY <2>1, SumsDef
  <2> QED BY <1>2, <1>3, <2>2, SumOverSums DEF SumStep
<1>4. CASE S # {}
  <2>1. PICK c \in S : TRUE
    BY <1>4
  <2>2. SumOver(f, S) = SumOver(f, S \ {c}) + f[c]
    BY <1>1, <2>1, SumRemove
  <2>3. SumOver(f, S \ {c}) \in Nat
    <3>1. IsFiniteSet(S \ {c}) /\ \A x \in S \ {c} : f[x] \in Nat
      BY <1>1, FS_Subset
    <3> QED BY <3>1, SumNat
  <2>4. f[c] \in Nat \ {0}
    BY <2>1
  <2> QED BY <1>2, <1>4, <2>2, <2>3, <2>4
<1> QED BY <1>3, <1>4

IsTable(grams) ==
    /\ IsFiniteSet(DOMAIN grams)
    /\ grams \in [DOMAIN grams -> 1..MaxCount]
    /\ \A g \in DOMAIN grams : g \in Seq(Items) /\ Len(g) \in 1..MaxOrder

LEMMA TableSums ==
    ASSUME NEW grams, IsTable(grams), NEW S \in SUBSET (DOMAIN grams)
    PROVE  /\ IsFiniteSet(S) /\ Cardinality(S) \in Nat
           /\ SumOver(grams, S) \in Nat
           /\ SumOver(grams, S) = 0 <=> S = {}
<1>1. IsFiniteSet(S) /\ Cardinality(S) \in Nat
  BY FS_Subset, FS_CardinalityType DEF IsTable
<1>2. PICK f : f = grams
  OBVIOUS
<1>3. f \in [DOMAIN f -> 1..MaxCount] /\ S \subseteq DOMAIN f
  BY <1>2 DEF IsTable
<1>4. \A x \in S : f[x] \in Nat \ {0}
  BY <1>3
<1>5. SumOver(f, S) \in Nat /\ (SumOver(f, S) = 0 <=> S = {})
  BY <1>1, <1>4, SumPositive
<1> QED BY <1>1, <1>2, <1>5

LEMMA ContextsShape ==
    ASSUME NEW grams, IsTable(grams)
    PROVE  /\ DOMAIN Contexts(grams) = {key \in Seq(Items) : Longer(grams, key) # {}}
           /\ \A key \in DOMAIN Contexts(grams) :
                 /\ Contexts(grams)[key] \in Entry
                 /\ Contexts(grams)[key].total = SumOver(grams, Longer(grams, key))
                 /\ Contexts(grams)[key].continuations = Cardinality(Longer(grams, key))
<1> DEFINE K == {Front(g) : g \in {h \in DOMAIN grams : Len(h) > 1}}
           E(key) == [total |-> SumOver(grams, Longer(grams, key)),
                      continuations |-> Cardinality(Longer(grams, key))]
<1>1. Contexts(grams) = [key \in K |-> E(key)]
  BY Zenon DEF Contexts, Longer
<1>2. K = {key \in Seq(Items) : Longer(grams, key) # {}}
  <2>1. ASSUME NEW g \in DOMAIN grams, Len(g) > 1
        PROVE  Front(g) \in Seq(Items) /\ Longer(grams, Front(g)) # {}
    <3>1. g \in Seq(Items)
      BY DEF IsTable
    <3>2. Front(g) \in Seq(Items)
      BY <2>1, <3>1, FrontShape
    <3>3. g \in Longer(grams, Front(g))
      BY <2>1 DEF Longer
    <3> QED BY <3>2, <3>3
  <2>2. ASSUME NEW key \in Seq(Items), Longer(grams, key) # {}
        PROVE  key \in K
    BY <2>2 DEF Longer
  <2> QED BY <2>1, <2>2
<1>3. ASSUME NEW key \in K
      PROVE  /\ E(key) \in Entry
             /\ E(key).total = SumOver(grams, Longer(grams, key))
             /\ E(key).continuations = Cardinality(Longer(grams, key))
  <2> DEFINE S == Longer(grams, key)
  <2>1. S \in SUBSET (DOMAIN grams) /\ S # {}
    BY <1>2 DEF Longer
  <2> HIDE DEF S
  <2>2. Cardinality(S) \in Nat /\ SumOver(grams, S) \in Nat \ {0}
    BY <2>1, TableSums
  <2>3. [total |-> SumOver(grams, S), continuations |-> Cardinality(S)] \in Entry
    BY <2>2 DEF Entry
  <2> QED BY <2>3 DEF S
<1> HIDE DEF K, E
<1>4. DOMAIN Contexts(grams) = K /\ \A key \in K : Contexts(grams)[key] = E(key)
  BY <1>1
<1>5. \A key \in K :
         /\ Contexts(grams)[key] \in Entry
         /\ Contexts(grams)[key].total = SumOver(grams, Longer(grams, key))
         /\ Contexts(grams)[key].continuations = Cardinality(Longer(grams, key))
  BY <1>3, <1>4
<1> QED BY <1>2, <1>4, <1>5, Zenon

(* A rebuilt model is one, when its totals are below the limit.            *)
LEMMA RebuiltModel ==
    ASSUME NEW grams, IsTable(grams), NEW unk \in 0..MaxTotal,
           \A k \in 1..MaxOrder : SumOver(grams, OfOrder(grams, k)) <= MaxTotal
    PROVE  IsModel(Rebuilt(grams, unk))
<1>1. PICK m : m = Rebuilt(grams, unk)
  OBVIOUS
<1>2. /\ m.grams = grams /\ m.contexts = Contexts(grams)
      /\ m.totals = Totals(grams) /\ m.unk = unk /\ HasFields(m)
  BY <1>1 DEF Rebuilt, HasFields
<1>3. Contexts(grams) \in [DOMAIN Contexts(grams) -> Entry]
  <2>1. Contexts(grams) = [key \in DOMAIN Contexts(grams) |-> Contexts(grams)[key]]
    BY DEF Contexts
  <2>2. \A key \in DOMAIN Contexts(grams) : Contexts(grams)[key] \in Entry
    BY ContextsShape
  <2> QED BY <2>1, <2>2
<1>4. DOMAIN Contexts(grams) \subseteq Seq(Items)
  BY ContextsShape
<1>5. Totals(grams) \in [1..MaxOrder -> 0..MaxTotal]
  <2>1. ASSUME NEW k \in 1..MaxOrder
        PROVE  SumOver(grams, OfOrder(grams, k)) \in 0..MaxTotal
    <3>1. OfOrder(grams, k) \in SUBSET (DOMAIN grams)
      BY DEF OfOrder
    <3>2. SumOver(grams, OfOrder(grams, k)) \in Nat
      BY <3>1, TableSums
    <3>3. SumOver(grams, OfOrder(grams, k)) <= MaxTotal
      OBVIOUS
    <3> QED BY <3>2, <3>3, ModelAssumption
  <2>2. Totals(grams) = [k \in 1..MaxOrder |-> SumOver(grams, OfOrder(grams, k))]
    BY DEF Totals, OfOrder
  <2> QED BY <2>1, <2>2
<1>6. IsModel(m)
  BY <1>2, <1>3, <1>4, <1>5 DEF IsModel, IsTable
<1> QED BY <1>1, <1>6

LEMMA ModelTable == ASSUME NEW m, IsModel(m) PROVE IsTable(m.grams)
  BY DEF IsModel, IsTable

(* A rebuilt model is derived.                                             *)
LEMMA RebuiltDerived ==
    ASSUME NEW m, IsModel(m), m = Rebuilt(m.grams, m.unk), NEW due, NEW new
    PROVE  DerivedBut(m, FALSE, due, new)
<1>1. PICK f : f = m.grams
  OBVIOUS
<1>2. m.totals = Totals(f) /\ m.contexts = Contexts(f) /\ IsTable(f)
  BY <1>1, ModelTable DEF Rebuilt
<1>3. \A k \in 1..MaxOrder : m.totals[k] = SumOver(f, OfOrder(f, k))
  BY <1>2 DEF Totals, OfOrder
<1>4. ASSUME NEW key \in Seq(Items)
      PROVE  /\ ContextOf(m, key).total + 0 = SumOver(f, Longer(f, key))
             /\ ContextOf(m, key).continuations + 0 = Cardinality(Longer(f, key))
  <2>1. Longer(f, key) \in SUBSET (DOMAIN f)
    BY DEF Longer
  <2>2. /\ IsFiniteSet(Longer(f, key)) /\ Cardinality(Longer(f, key)) \in Nat
        /\ SumOver(f, Longer(f, key)) \in Nat
        /\ SumOver(f, Longer(f, key)) = 0 <=> Longer(f, key) = {}
    BY <1>2, <2>1, TableSums
  <2>3. /\ DOMAIN Contexts(f) = {x \in Seq(Items) : Longer(f, x) # {}}
        /\ \A x \in DOMAIN Contexts(f) :
              /\ Contexts(f)[x].total = SumOver(f, Longer(f, x))
              /\ Contexts(f)[x].continuations = Cardinality(Longer(f, x))
    BY <1>2, ContextsShape
  <2>4. CASE Longer(f, key) = {}
    <3>1. ContextOf(m, key).total = 0 /\ ContextOf(m, key).continuations = 0
      BY <1>2, <2>3, <2>4 DEF ContextOf
    <3>2. Cardinality(Longer(f, key)) = 0
      BY <2>4, FS_EmptySet
    <3> QED BY <2>2, <2>4, <3>1, <3>2
  <2>5. CASE Longer(f, key) # {}
    <3>1. ContextOf(m, key) = Contexts(f)[key] /\ key \in DOMAIN Contexts(f)
      BY <1>2, <2>3, <2>5 DEF ContextOf
    <3> QED BY <2>2, <2>3, <3>1
  <2> QED BY <2>4, <2>5
<1> QED BY <1>1, <1>3, <1>4 DEF DerivedBut

(* A derived model is a rebuilt one.                                       *)
LEMMA DerivedRebuilt ==
    ASSUME NEW m, IsModel(m), NEW due, NEW new, DerivedBut(m, FALSE, due, new),
           m.vocab = Cardinality(Unigrams(m.grams))
    PROVE  m = Rebuilt(m.grams, m.unk)
<1>1. PICK f : f = m.grams
  OBVIOUS
<1>2. IsTable(f)
  BY <1>1, ModelTable
<1>3. m.totals = Totals(f)
  <2>1. m.totals \in [1..MaxOrder -> 0..MaxTotal]
    BY DEF IsModel
  <2>2. Totals(f) = [k \in 1..MaxOrder |-> SumOver(f, OfOrder(f, k))]
    BY DEF Totals, OfOrder
  <2>3. \A k \in 1..MaxOrder : m.totals[k] = SumOver(f, OfOrder(f, k))
    BY <1>1 DEF DerivedBut
  <2> QED BY <2>1, <2>2, <2>3
<1>4. m.contexts = Contexts(f)
  <2>1. PICK C : C = m.contexts
    OBVIOUS
  <2>2. C \in [DOMAIN C -> Entry] /\ DOMAIN C \subseteq Seq(Items)
    BY <2>1 DEF IsModel
  <2>3. /\ DOMAIN Contexts(f) = {x \in Seq(Items) : Longer(f, x) # {}}
        /\ \A x \in DOMAIN Contexts(f) :
              /\ Contexts(f)[x] \in Entry
              /\ Contexts(f)[x].total = SumOver(f, Longer(f, x))
              /\ Contexts(f)[x].continuations = Cardinality(Longer(f, x))
    BY <1>2, ContextsShape
  <2>4. ASSUME NEW x \in Seq(Items)
        PROVE  /\ x \in DOMAIN C <=> Longer(f, x) # {}
               /\ x \in DOMAIN C => /\ C[x].total = SumOver(f, Longer(f, x))
                                    /\ C[x].continuations = Cardinality(Longer(f, x))
    <3>1. /\ ContextOf(m, x).total + 0 = SumOver(f, Longer(f, x))
          /\ ContextOf(m, x).continuations + 0 = Cardinality(Longer(f, x))
      BY <1>1 DEF DerivedBut
    <3>2. /\ ContextOf(m, x).total \in Nat /\ ContextOf(m, x).continuations \in Int
          /\ ContextOf(m, x).total = 0 <=> x \notin DOMAIN C
          /\ x \in DOMAIN C => ContextOf(m, x) = C[x]
      BY <2>1, ContextShape
    <3>3. Longer(f, x) \in SUBSET (DOMAIN f)
      BY DEF Longer
    <3>4. SumOver(f, Longer(f, x)) = 0 <=> Longer(f, x) = {}
      BY <1>2, <3>3, TableSums
    <3> QED BY <3>1, <3>2, <3>4
  <2>5. DOMAIN C = DOMAIN Contexts(f)
    BY <2>2, <2>3, <2>4
  <2>6. \A x \in DOMAIN C : C[x] = Contexts(f)[x]
    <3> SUFFICES ASSUME NEW x \in DOMAIN C PROVE C[x] = Contexts(f)[x]
      OBVIOUS
    <3>1. C[x] \in Entry /\ Contexts(f)[x] \in Entry
      BY <2>2, <2>3, <2>5
    <3>2. C[x].total = Contexts(f)[x].total /\ C[x].continuations = Contexts(f)[x].continuations
      BY <2>2, <2>3, <2>4, <2>5
    <3> QED BY <3>1, <3>2 DEF Entry
  <2>7. Contexts(f) = [x \in DOMAIN Contexts(f) |-> Contexts(f)[x]]
    BY DEF Contexts
  <2> QED BY <2>1, <2>2, <2>5, <2>6, <2>7
<1>5. HasFields(m) /\ m.vocab = Cardinality(Unigrams(f))
  BY <1>1 DEF IsModel
<1> QED BY <1>1, <1>3, <1>4, <1>5, Zenon DEF Rebuilt, HasFields

-------------------------------------------------------------------------------
(* One model, its journal, and what it was before.                         *)

Op == [ctx : BOOLEAN, key : Seq(Items), inserted : BOOLEAN, fresh : BOOLEAN]

(* What was applied is a prefix of the journal.                            *)
IsTxn(t) ==
    /\ t = [items |-> t.items, applied |-> t.applied, unknown |-> t.unknown]
    /\ t.items \in Seq(Items) /\ t.applied \in Seq(Op) /\ t.unknown \in Nat
    /\ Len(t.applied) <= Len(Journal(t.items))
    /\ \A k \in 1..Len(t.applied) :
          /\ t.applied[k].ctx = Journal(t.items)[k].ctx
          /\ t.applied[k].key = Journal(t.items)[k].key

(* The models between the operations applied, from b to m.                 *)
IsTrail(st, m, t, b) ==
    /\ \A k \in 0..Len(t.applied) : IsModel(st[k])
    /\ Agrees(st[0], b) /\ st[Len(t.applied)] = m
    /\ \A k \in 1..Len(t.applied) : IsStep(st[k - 1], st[k], t.applied[k])

Due(t) == Journal(t.items)[Len(t.applied) + 1]

Late(t) == Len(t.applied) < Len(Journal(t.items)) /\ Due(t).ctx

Sound(m, t, b, ph) ==
    /\ IsTxn(t) /\ IsModel(b) /\ b = Rebuilt(b.grams, b.unk)
    /\ m.unk = b.unk + t.unknown /\ m.vocab = b.vocab
    /\ \E st : IsTrail(st, m, t, b)
    /\ ph = "idle" => m = b /\ t = NoTxn
    /\ ph = "apply" => DerivedBut(m, Late(t), Due(t).key, Last(t.applied).inserted)

IInv ==
    /\ phase \in {"idle", "apply", "undo"}
    /\ models = [w \in Which |-> models[w]]
    /\ txns = [w \in Which |-> txns[w]]
    /\ base = [w \in Which |-> base[w]]
    /\ \A w \in Which : Sound(models[w], txns[w], base[w], phase)

LEMMA SoundModel ==
    ASSUME NEW m, NEW t, NEW b, NEW ph, Sound(m, t, b, ph)
    PROVE  IsModel(m)
<1>1. PICK st : IsTrail(st, m, t, b)
  BY DEF Sound
<1>2. Len(t.applied) \in 0..Len(t.applied)
  BY DEF Sound, IsTxn
<1> QED BY <1>1, <1>2 DEF IsTrail

(* A model between calls, and one with a journal just prepared.            *)
LEMMA Settled ==
    ASSUME NEW b, IsModel(b), b = Rebuilt(b.grams, b.unk),
           NEW items \in Seq(Items), NEW t,
           t = [items |-> items, applied |-> <<>>, unknown |-> 0],
           NEW ph, ph # "idle" \/ items = <<>>
    PROVE  Sound(b, t, b, ph)
<1>1. t.items = items /\ t.applied = <<>> /\ t.unknown = 0 /\ Len(<<>>) = 0
  OBVIOUS
<1>2. WellFormed(Journal(items)) /\ Len(Journal(items)) \in Nat
  <2>1. WellFormed(Journal(items))
    BY JournalWellFormed
  <2>2. Journal(items) \in Seq(Act)
    BY <2>1 DEF WellFormed
  <2> QED BY <2>1, <2>2
<1>3. IsTxn(t)
  <2>1. <<>> \in Seq(Op)
    OBVIOUS
  <2>2. 1..0 = {}
    OBVIOUS
  <2>3. 0 <= Len(Journal(items)) /\ 0 \in Nat
    BY <1>2
  <2> QED BY <1>1, <2>1, <2>2, <2>3 DEF IsTxn
<1>4. b.unk = b.unk + t.unknown
  BY <1>1, ModelAssumption DEF IsModel
<1>5. \E st : IsTrail(st, b, t, b)
  <2> DEFINE st == [k \in 0..0 |-> b]
  <2>1. st[0] = b /\ (\A k \in 0..0 : k = 0) /\ 1..0 = {}
    OBVIOUS
  <2> HIDE DEF st
  <2>2. IsTrail(st, b, t, b)
    BY <1>1, <2>1 DEF IsTrail, Agrees
  <2> QED BY <2>2
<1>6. ~Late(t)
  <2> SUFFICES ASSUME Late(t) PROVE FALSE
    OBVIOUS
  <2>1. 0 < Len(Journal(items)) /\ Journal(items)[0 + 1].ctx
    BY <1>1 DEF Late, Due
  <2>2. 1 \in 1..Len(Journal(items)) /\ Journal(items)[1].ctx
    BY <1>2, <2>1
  <2>3. 1 > 1
    BY <1>2, <2>2 DEF WellFormed
  <2> QED BY <2>3
<1>7. DerivedBut(b, Late(t), Due(t).key, Last(t.applied).inserted)
  <2>1. DerivedBut(b, FALSE, Due(t).key, Last(t.applied).inserted)
    BY RebuiltDerived
  <2>2. Late(t) = FALSE
    BY <1>6 DEF Late
  <2> QED BY <2>1, <2>2, Zenon
<1>8. ph = "idle" => t = NoTxn
  BY DEF NoTxn
<1> QED BY <1>3, <1>4, <1>5, <1>7, <1>8 DEF Sound

(* The next operation of a journal.                                        *)
LEMMA DueShape ==
    ASSUME NEW t, IsTxn(t), Len(t.applied) # Len(Journal(t.items))
    PROVE  /\ Due(t) \in Act /\ Len(t.applied) < Len(Journal(t.items))
           /\ Late(t) <=> Due(t).ctx
           /\ ~Due(t).ctx => Len(Due(t).key) \in 1..MaxOrder
           /\ Due(t).ctx =>
                 /\ Len(t.applied) > 0 /\ Last(t.applied) \in Op
                 /\ ~Last(t.applied).ctx
<1> DEFINE J == Journal(t.items)
           n == Len(t.applied)
<1>1. WellFormed(J) /\ J \in Seq(Act) /\ Len(J) \in Nat /\ n \in Nat /\ n <= Len(J)
  BY JournalWellFormed DEF WellFormed, IsTxn
<1>2. n < Len(J) /\ n + 1 \in 1..Len(J) /\ J[n + 1] \in Act
  BY <1>1
<1>3. Due(t) = J[n + 1]
  BY DEF Due
<1>4. ASSUME Due(t).ctx
      PROVE  n > 0 /\ Last(t.applied) \in Op /\ ~Last(t.applied).ctx
  <2>1. n + 1 > 1 /\ ~J[(n + 1) - 1].ctx
    BY <1>1, <1>2, <1>3, <1>4 DEF WellFormed
  <2>2. n > 0 /\ n \in 1..n /\ ~J[n].ctx
    BY <1>1, <2>1
  <2>3. t.applied \in Seq(Op) /\ t.applied[n].ctx = J[n].ctx
    BY <2>2 DEF IsTxn
  <2>4. Last(t.applied) = t.applied[n] /\ t.applied[n] \in Op
    BY <2>2, <2>3 DEF Last
  <2> QED BY <2>2, <2>3, <2>4
<1>5. ~Due(t).ctx => Len(Due(t).key) \in 1..MaxOrder
  BY <1>1, <1>2, <1>3 DEF WellFormed
<1>6. Late(t) <=> Due(t).ctx
  BY <1>2 DEF Late
<1> HIDE DEF J, n
<1> QED BY <1>2, <1>3, <1>4, <1>5, <1>6 DEF J, n

(* What the operation after it is.                                         *)
LEMMA NextDue ==
    ASSUME NEW t, IsTxn(t), Len(t.applied) # Len(Journal(t.items)),
           NEW u, u.items = t.items, Len(u.applied) = Len(t.applied) + 1
    PROVE  /\ Late(u) \in BOOLEAN
           /\ Due(t).ctx => ~Late(u)
           /\ ~Due(t).ctx =>
                 /\ Late(u) <=> Len(Due(t).key) > 1
                 /\ Late(u) => Due(u).key = Front(Due(t).key)
<1> DEFINE J == Journal(t.items)
           n == Len(t.applied)
<1>1. WellFormed(J)
  BY JournalWellFormed DEF IsTxn
<1>2. J \in Seq(Act) /\ Len(J) \in Nat /\ n \in Nat /\ n < Len(J) /\ n + 1 \in 1..Len(J)
  <2>1. n <= Len(J) /\ n # Len(J) /\ n \in Nat
    BY DEF IsTxn
  <2>2. J \in Seq(Act)
    BY <1>1 DEF WellFormed
  <2> HIDE DEF J, n
  <2> QED BY <2>1, <2>2
<1>3. Due(t) = J[n + 1] /\ Due(u) = J[(n + 1) + 1]
  BY DEF Due
<1>4. Late(u) <=> n + 1 < Len(J) /\ J[(n + 1) + 1].ctx
  BY DEF Late, Due
<1>5. Late(u) \in BOOLEAN
  BY DEF Late
<1> HIDE DEF J, n
<1>6. n + 1 < Len(J) => (n + 1) + 1 \in 1..Len(J) /\ ((n + 1) + 1) - 1 = n + 1
  BY <1>2
<1>7. ASSUME Late(u)
      PROVE  ~J[n + 1].ctx /\ Len(J[n + 1].key) > 1
             /\ J[(n + 1) + 1].key = Front(J[n + 1].key)
  <2>1. (n + 1) + 1 \in 1..Len(J) /\ ((n + 1) + 1) - 1 = n + 1 /\ J[(n + 1) + 1].ctx
    BY <1>4, <1>6, <1>7
  <2>2. PICK j \in 1..Len(J) : j = (n + 1) + 1
    BY <2>1
  <2>3. ~J[j - 1].ctx /\ Len(J[j - 1].key) > 1 /\ J[j].key = Front(J[j - 1].key)
    BY <1>1, <2>1, <2>2 DEF WellFormed
  <2> QED BY <2>1, <2>2, <2>3
<1>8. ASSUME ~J[n + 1].ctx, Len(J[n + 1].key) > 1
      PROVE  Late(u)
  <2>1. PICK j \in 1..Len(J) : j = n + 1
    BY <1>2
  <2>2. j < Len(J) /\ J[j + 1].ctx
    BY <1>1, <1>8, <2>1 DEF WellFormed
  <2> QED BY <1>4, <2>1, <2>2
<1> QED BY <1>3, <1>5, <1>7, <1>8

(* Operations on models that agree leave models that agree.                *)
LEMMA AppliedAgrees ==
    ASSUME NEW m, IsModel(m), NEW act, NEW op, op.ctx = act.ctx, op.key = act.key,
           NEW fresh
    PROVE  /\ Applied(m, op, fresh) = Applied(m, act, fresh)
           /\ Previous(m, op) = Previous(m, act)
  BY DEF Applied, Previous

(* A round of apply keeps one model and its journal sound.                 *)
LEMMA AppliedSound ==
    ASSUME NEW m, NEW t, NEW b, Sound(m, t, b, "apply"),
           Len(t.applied) # Len(Journal(t.items)), ~AtLimit(m, Due(t)),
           NEW fresh, fresh = (Due(t).ctx /\ Last(t.applied).inserted),
           NEW isNew, isNew = (Previous(m, Due(t)) = 0),
           NEW op, op = [ctx |-> Due(t).ctx, key |-> Due(t).key,
                         inserted |-> isNew, fresh |-> fresh],
           NEW u, u = [items |-> t.items, applied |-> Append(t.applied, op),
                       unknown |-> IF ~Due(t).ctx /\ Len(Due(t).key) = 1 /\ isNew
                                   THEN t.unknown + 1 ELSE t.unknown]
    PROVE  Sound(Applied(m, Due(t), fresh), u, b, "apply")
<1> DEFINE n == Len(t.applied)
<1>1. PICK act, c : act = Due(t) /\ c = Applied(m, act, fresh)
  OBVIOUS
<1>2. IsTxn(t) /\ IsModel(b) /\ b = Rebuilt(b.grams, b.unk) /\ IsModel(m)
      /\ m.unk = b.unk + t.unknown /\ m.vocab = b.vocab
      /\ DerivedBut(m, Late(t), act.key, Last(t.applied).inserted)
  BY <1>1, SoundModel DEF Sound
<1>3. /\ act \in Act /\ n < Len(Journal(t.items))
      /\ Late(t) <=> act.ctx
      /\ ~act.ctx => Len(act.key) \in 1..MaxOrder
      /\ act.ctx => n > 0 /\ Last(t.applied) \in Op
  BY <1>1, <1>2, DueShape
<1>4. IsModel(c)
  BY <1>1, <1>2, <1>3, AppliedModel
<1>5. Raised(c, m, act, fresh)
  BY <1>1, <1>2, AppliedFields
<1>6. /\ act.ctx \in BOOLEAN /\ act.key \in Seq(Items)
      /\ isNew \in BOOLEAN /\ fresh \in BOOLEAN
      /\ act.ctx => fresh = Last(t.applied).inserted
  <2>1. act.ctx \in BOOLEAN /\ act.key \in Seq(Items)
    BY <1>3 DEF Act
  <2>2. act.ctx => Last(t.applied).inserted \in BOOLEAN
    BY <1>3 DEF Op
  <2>3. isNew \in BOOLEAN
    OBVIOUS
  <2>4. fresh \in BOOLEAN /\ (act.ctx => fresh = Last(t.applied).inserted)
    BY <1>1, <2>1, <2>2, Zenon
  <2> QED BY <2>1, <2>3, <2>4
<1>7. /\ op \in Op /\ op.ctx = act.ctx /\ op.key = act.key
      /\ op.inserted = isNew /\ op.fresh = fresh
  BY <1>1, <1>6 DEF Op
<1>8. /\ u.items = t.items /\ u.applied = Append(t.applied, op)
      /\ u.unknown = IF ~act.ctx /\ Len(act.key) = 1 /\ isNew
                     THEN t.unknown + 1 ELSE t.unknown
  BY <1>1
<1>9. t.applied \in Seq(Op) /\ n \in Nat
  BY <1>2 DEF IsTxn
<1>10. /\ u.applied \in Seq(Op) /\ Len(u.applied) = n + 1
       /\ u.applied[n + 1] = op
       /\ \A k \in 1..n : u.applied[k] = t.applied[k]
  BY <1>7, <1>8, <1>9
<1> HIDE DEF n
<1>11. IsTxn(u)
  <2>1. n + 1 <= Len(Journal(t.items))
    <3>1. Journal(t.items) \in Seq(Act)
      BY <1>2, JournalWellFormed DEF IsTxn, WellFormed
    <3> QED BY <1>3, <1>9, <3>1
  <2>2. ASSUME NEW k \in 1..(n + 1)
        PROVE  /\ u.applied[k].ctx = Journal(t.items)[k].ctx
               /\ u.applied[k].key = Journal(t.items)[k].key
    <3>1. CASE k = n + 1
      <4>1. act = Journal(t.items)[n + 1]
        BY <1>1 DEF Due, n
      <4> QED BY <1>7, <1>10, <3>1, <4>1
    <3>2. CASE k # n + 1
      <4>1. k \in 1..n
        BY <1>9, <3>2
      <4> QED BY <1>2, <1>10, <4>1 DEF IsTxn, n
    <3> QED BY <3>1, <3>2
  <2>3. u.unknown \in Nat
    BY <1>2, <1>8 DEF IsTxn
  <2>4. u = [items |-> u.items, applied |-> u.applied, unknown |-> u.unknown]
    OBVIOUS
  <2>5. u.items \in Seq(Items)
    BY <1>2, <1>8 DEF IsTxn
  <2>6. Len(u.applied) <= Len(Journal(u.items))
    BY <1>8, <1>10, <2>1
  <2>7. \A k \in 1..Len(u.applied) :
           /\ u.applied[k].ctx = Journal(u.items)[k].ctx
           /\ u.applied[k].key = Journal(u.items)[k].key
    BY <1>8, <1>10, <2>2
  <2>8. u.applied \in Seq(Op)
    BY <1>10
  <2> QED BY <2>3, <2>4, <2>5, <2>6, <2>7, <2>8, Zenon DEF IsTxn
<1>12. c.unk = b.unk + u.unknown /\ c.vocab = b.vocab
  <2>1. m.unk \in Nat /\ b.unk \in Nat /\ t.unknown \in Nat
    BY <1>2, ModelAssumption DEF IsModel, IsTxn
  <2>2. c.vocab = m.vocab
    BY <1>5 DEF Raised
  <2>3. CASE act.ctx
    BY <1>2, <1>5, <1>8, <2>2, <2>3 DEF Raised
  <2>4. CASE ~act.ctx
    <3>1. c.unk = IF Len(act.key) = 1 /\ CountOf(m, act.key) = 0
                  THEN m.unk + 1 ELSE m.unk
      BY <1>5, <2>4 DEF Raised
    <3>2. isNew <=> CountOf(m, act.key) = 0
      BY <1>1, <2>4 DEF Previous
    <3> QED BY <1>2, <1>8, <2>1, <2>2, <2>4, <3>1, <3>2
  <2> QED BY <2>3, <2>4
<1>13. \E st : IsTrail(st, c, u, b)
  <2>1. PICK st : IsTrail(st, m, t, b)
    BY DEF Sound
  <2> DEFINE su == [k \in 0..(n + 1) |-> IF k = n + 1 THEN c ELSE st[k]]
  <2>2. su[n + 1] = c /\ su[0] = st[0] /\ \A k \in 0..n : su[k] = st[k]
    BY <1>9
  <2> HIDE DEF su
  <2>3. /\ \A k \in 0..n : IsModel(st[k])
        /\ Agrees(st[0], b) /\ st[n] = m
        /\ \A k \in 1..n : IsStep(st[k - 1], st[k], t.applied[k])
    BY <2>1 DEF IsTrail, n
  <2>4. ASSUME NEW k \in 0..(n + 1) PROVE IsModel(su[k])
    <3>1. k = n + 1 \/ k \in 0..n
      BY <1>9
    <3> QED BY <1>4, <2>2, <2>3, <3>1
  <2>5. ASSUME NEW k \in 1..(n + 1) PROVE IsStep(su[k - 1], su[k], u.applied[k])
    <3>1. CASE k = n + 1
      <4>1. su[k - 1] = m /\ su[k] = c /\ u.applied[k] = op
        BY <1>9, <1>10, <2>2, <2>3, <3>1
      <4>2. c = Applied(m, op, op.fresh) /\ Previous(m, op) = Previous(m, act)
        <5>1. Applied(m, op, fresh) = Applied(m, act, fresh) /\ Previous(m, op) = Previous(m, act)
          BY <1>2, <1>7, AppliedAgrees
        <5> QED BY <1>1, <1>7, <5>1
      <4>3. op.inserted <=> Previous(m, op) = 0
        BY <1>1, <1>7, <4>2
      <4> QED BY <4>1, <4>2, <4>3, Zenon DEF IsStep, Agrees
    <3>2. CASE k # n + 1
      <4>1. k \in 1..n /\ k \in 0..n /\ k - 1 \in 0..n
        BY <1>9, <3>2
      <4> QED BY <1>10, <2>2, <2>3, <4>1
    <3> QED BY <3>1, <3>2
  <2>6. IsTrail(su, c, u, b)
    BY <1>10, <2>2, <2>3, <2>4, <2>5 DEF IsTrail
  <2> QED BY <2>6
<1>14. /\ Late(u) \in BOOLEAN
       /\ act.ctx => ~Late(u)
       /\ ~act.ctx => /\ Late(u) <=> Len(act.key) > 1
                      /\ Late(u) => Due(u).key = Front(act.key)
  BY <1>1, <1>2, <1>8, <1>10, NextDue DEF n
<1>15. Last(u.applied).inserted = isNew
  BY <1>7, <1>10 DEF Last
<1>16. DerivedBut(c, Late(u), Due(u).key, isNew)
  <2>1. CASE act.ctx
    <3>1. PICK key, new : key = act.key /\ new = fresh
      OBVIOUS
    <3>2. DerivedBut(m, TRUE, key, new)
      <4>1. Late(t) = TRUE
        BY <1>3, <2>1 DEF Late
      <4> QED BY <1>2, <1>6, <2>1, <3>1, <4>1, Zenon
    <3>3. /\ c.grams = m.grams /\ c.totals = m.totals
          /\ c.contexts = Put(m.contexts, key, OneMoreSeen(m, key, new))
      BY <1>5, <2>1, <3>1, Zenon DEF Raised, Counted, OneMoreSeen
    <3>4. DerivedBut(c, FALSE, Due(u).key, isNew)
      <4>1. key \in Seq(Items) /\ new \in BOOLEAN
        BY <1>2, <1>6, <3>1, Zenon
      <4>2. IsModel(m)
        BY <1>2
      <4>3. PICK due, other : due = Due(u).key /\ other = isNew
        OBVIOUS
      <4>4. DerivedBut(c, FALSE, due, other)
        BY <3>2, <3>3, <4>1, <4>2, ContextDerived
      <4> QED BY <4>3, <4>4, Zenon
    <3>5. Late(u) = FALSE
      BY <1>14, <2>1
    <3> QED BY <3>4, <3>5, Zenon
  <2>2. CASE ~act.ctx
    <3>1. PICK g : g = act.key
      OBVIOUS
    <3>2. DerivedBut(m, FALSE, act.key, Last(t.applied).inserted)
      <4>1. Late(t) = FALSE
        BY <1>3, <2>2 DEF Late
      <4> QED BY <1>2, <4>1, Zenon
    <3>3. /\ c.grams = Put(m.grams, g, CountOf(m, g) + 1)
          /\ c.totals = [m.totals EXCEPT ![Len(g)] = @ + 1]
          /\ c.contexts = m.contexts
      BY <1>5, <2>2, <3>1, Zenon DEF Raised
    <3>4. g \in Seq(Items) /\ Len(g) \in 1..MaxOrder
      BY <1>3, <1>6, <2>2, <3>1
    <3>5. DerivedBut(c, Len(g) > 1, Front(g), CountOf(m, g) = 0)
      BY <1>2, <3>2, <3>3, <3>4, GramDerived
    <3>6. isNew = (CountOf(m, g) = 0)
      BY <1>1, <2>2, <3>1 DEF Previous
    <3>7. DerivedBut(c, Len(g) > 1, Front(g), isNew)
      BY <3>5, <3>6, Zenon
    <3> QED BY <1>14, <2>2, <3>1, <3>7 DEF DerivedBut
  <2> QED BY <2>1, <2>2
<1> QED BY <1>1, <1>2, <1>11, <1>12, <1>13, <1>15, <1>16 DEF Sound

(* A round of rollback keeps one model and its journal sound.              *)
LEMMA UndoneSound ==
    ASSUME NEW m, NEW t, NEW b, Sound(m, t, b, "undo"), t.applied # <<>>,
           NEW u, u = [items |-> t.items, applied |-> Front(t.applied),
                       unknown |-> t.unknown]
    PROVE  Sound(Undone(m, Last(t.applied)), u, b, "undo")
<1> DEFINE n == Len(t.applied)
           op == Last(t.applied)
<1>1. PICK c : c = Undone(m, op)
  OBVIOUS
<1>2. IsModel(m) /\ IsTxn(t)
  BY SoundModel DEF Sound
<1>3. /\ t.applied \in Seq(Op) /\ t.items \in Seq(Items)
      /\ Len(t.applied) <= Len(Journal(t.items))
  BY <1>2 DEF IsTxn
<1>4. n \in Nat \ {0} /\ op = t.applied[n]
  BY <1>3 DEF Last
<1>5. /\ Front(t.applied) \in Seq(Op) /\ Len(Front(t.applied)) = n - 1
      /\ \A k \in 1..(n - 1) : Front(t.applied)[k] = t.applied[k]
  BY <1>3, <1>4 DEF Front
<1>6. u.applied = Front(t.applied) /\ u.items = t.items /\ u.unknown = t.unknown
  OBVIOUS
<1>7. PICK st : IsTrail(st, m, t, b)
  BY DEF Sound
<1> HIDE DEF n, op
<1>8. /\ \A k \in 0..n : IsModel(st[k])
      /\ Agrees(st[0], b)
      /\ st[n] = m
      /\ \A k \in 1..n : IsStep(st[k - 1], st[k], t.applied[k])
  BY <1>7 DEF IsTrail, n
<1>9. PICK a : a = st[n - 1]
  OBVIOUS
<1>10. IsModel(a) /\ IsStep(a, m, op)
  <2>1. n - 1 \in 0..n /\ n \in 1..n
    BY <1>4
  <2> QED BY <1>4, <1>8, <1>9, <2>1
<1>11. Agrees(m, m)
  BY DEF Agrees
<1>12. Agrees(c, a) /\ c.unk = m.unk /\ IsModel(c)
  BY <1>1, <1>2, <1>10, <1>11, StepUndone
<1>13. c.vocab = m.vocab
  BY <1>1, <1>2, UndoneFields DEF Lowered
<1>14. IsTxn(u)
  <2>1. Len(u.applied) <= Len(Journal(u.items))
    <3>1. Journal(t.items) \in Seq(Act)
      BY <1>3, JournalWellFormed DEF WellFormed
    <3>2. Len(Journal(t.items)) \in Nat
      BY <3>1
    <3> QED BY <1>3, <1>4, <1>5, <1>6, <3>2 DEF n
  <2>2. \A k \in 1..Len(u.applied) :
           /\ u.applied[k].ctx = Journal(u.items)[k].ctx
           /\ u.applied[k].key = Journal(u.items)[k].key
    <3>1. \A k \in 1..n : /\ t.applied[k].ctx = Journal(t.items)[k].ctx
                          /\ t.applied[k].key = Journal(t.items)[k].key
      BY <1>2 DEF IsTxn, n
    <3> QED BY <1>4, <1>5, <1>6, <3>1
  <2>3. u.applied \in Seq(Op) /\ u.items \in Seq(Items) /\ u.unknown \in Nat
    BY <1>2, <1>5, <1>6 DEF IsTxn
  <2>4. u = [items |-> u.items, applied |-> u.applied, unknown |-> u.unknown]
    OBVIOUS
  <2> QED BY <2>1, <2>2, <2>3, <2>4, Zenon DEF IsTxn
<1>15. \E su : IsTrail(su, c, u, b)
  <2>1. PICK su : su = [k \in 0..(n - 1) |-> IF k = n - 1 THEN c ELSE st[k]]
    OBVIOUS
  <2>2. su[n - 1] = c /\ \A k \in 0..(n - 2) : su[k] = st[k]
    BY <1>4, <2>1
  <2>3. Len(u.applied) = n - 1
    BY <1>5, <1>6
  <2>4. \A k \in 0..(n - 1) : IsModel(su[k])
    BY <1>4, <1>8, <1>12, <2>2
  <2>5. Agrees(su[0], b)
    <3>1. CASE n = 1
      BY <1>8, <1>9, <1>12, <2>2, <3>1 DEF Agrees
    <3>2. CASE n # 1
      BY <1>4, <1>8, <2>2, <3>2
    <3> QED BY <3>1, <3>2
  <2>6. ASSUME NEW k \in 1..(n - 1)
        PROVE  IsStep(su[k - 1], su[k], u.applied[k])
    <3>1. u.applied[k] = t.applied[k] /\ su[k - 1] = st[k - 1]
      BY <1>4, <1>5, <1>6, <2>2
    <3>2. IsStep(st[k - 1], st[k], t.applied[k])
      BY <1>4, <1>8
    <3>3. CASE k = n - 1
      <4>1. su[k] = c /\ st[k] = a
        BY <1>9, <2>2, <3>3
      <4> QED BY <1>12, <3>1, <3>2, <4>1 DEF IsStep, Agrees
    <3>4. CASE k # n - 1
      <4>1. su[k] = st[k]
        BY <1>4, <2>2, <3>4
      <4> QED BY <3>1, <3>2, <4>1
    <3> QED BY <3>3, <3>4
  <2>7. IsTrail(su, c, u, b)
    BY <2>2, <2>3, <2>4, <2>5, <2>6 DEF IsTrail
  <2> QED BY <2>7
<1>16. c.unk = b.unk + u.unknown /\ c.vocab = b.vocab
  BY <1>6, <1>12, <1>13 DEF Sound
<1>17. IsModel(b) /\ b = Rebuilt(b.grams, b.unk)
  BY DEF Sound
<1>18. Sound(c, u, b, "undo")
  BY <1>14, <1>15, <1>16, <1>17 DEF Sound
<1> QED BY <1>1, <1>18 DEF op

(* With nothing left to undo, the count of unknown stages brings back the  *)
(* model as it was.                                                        *)
LEMMA SoundRestored ==
    ASSUME NEW m, NEW t, NEW b, NEW ph, Sound(m, t, b, ph), t.applied = <<>>
    PROVE  [m EXCEPT !.unk = @ - t.unknown] = b
<1>1. PICK st : IsTrail(st, m, t, b)
  BY DEF Sound
<1>2. Agrees(m, b)
  <2>1. Len(t.applied) = 0
    OBVIOUS
  <2> QED BY <1>1, <2>1 DEF IsTrail
<1>3. m.unk = b.unk + t.unknown /\ b.unk \in Nat /\ t.unknown \in Nat
  BY ModelAssumption DEF Sound, IsModel, IsTxn
<1>4. HasFields(m) /\ HasFields(b)
  BY SoundModel DEF Sound, IsModel
<1>5. m.unk - t.unknown = b.unk
  BY <1>3
<1>6. [m EXCEPT !.unk = @ - t.unknown]
         = [grams |-> m.grams, contexts |-> m.contexts, totals |-> m.totals,
            vocab |-> m.vocab, unk |-> m.unk - t.unknown]
  BY <1>4 DEF HasFields
<1>7. @ = [grams |-> b.grams, contexts |-> b.contexts, totals |-> b.totals,
           vocab |-> b.vocab, unk |-> b.unk]
  BY <1>2, <1>5 DEF Agrees
<1>8. @ = b
  BY <1>4 DEF HasFields
<1> QED BY <1>6, <1>7, <1>8

(* The model once a commit has counted its vocabulary.                     *)
Recounted(m, t) ==
    [m EXCEPT !.vocab = IF t.items = <<>> THEN @ ELSE Cardinality(Unigrams(m.grams))]

(* A journal applied in full leaves the model a rebuilt one.               *)
LEMMA CommittedRebuilt ==
    ASSUME NEW m, NEW t, NEW b, Sound(m, t, b, "apply"),
           Len(t.applied) = Len(Journal(t.items)),
           NEW c, c = Recounted(m, t)
    PROVE  IsModel(c) /\ c = Rebuilt(c.grams, c.unk)
<1>1. IsModel(m) /\ IsTxn(t) /\ IsModel(b) /\ b = Rebuilt(b.grams, b.unk)
  BY SoundModel DEF Sound
<1>2. PICK v : v = IF t.items = <<>> THEN m.vocab ELSE Cardinality(Unigrams(m.grams))
  OBVIOUS
<1>3. HasFields(m)
  BY <1>1 DEF IsModel
<1>4. c = [grams |-> m.grams, contexts |-> m.contexts, totals |-> m.totals,
           vocab |-> v, unk |-> m.unk]
  BY <1>2, <1>3 DEF HasFields, Recounted
<1>5. /\ c.grams = m.grams /\ c.contexts = m.contexts /\ c.totals = m.totals
      /\ c.vocab = v /\ c.unk = m.unk
  BY <1>4
<1>6. HasFields(c)
  BY <1>4, <1>5 DEF HasFields
<1>7. IsModel(c)
  BY <1>1, <1>5, <1>6 DEF IsModel
<1>8. DerivedBut(c, FALSE, Due(t).key, Last(t.applied).inserted)
  <2>1. Journal(t.items) \in Seq(Act)
    BY <1>1, JournalWellFormed DEF IsTxn, WellFormed
  <2>2. Len(Journal(t.items)) \in Nat
    BY <2>1
  <2>3. Late(t) = FALSE
    BY <2>2 DEF Late
  <2>4. DerivedBut(m, FALSE, Due(t).key, Last(t.applied).inserted)
    BY <2>3 DEF Sound
  <2> QED BY <1>5, <2>4 DEF DerivedBut, ContextOf
<1>9. v = Cardinality(Unigrams(m.grams))
  <2>1. CASE t.items = <<>>
    <3>1. Journal(t.items) = <<>>
      BY <1>1, <2>1, JournalParts DEF IsTxn
    <3>2. t.applied = <<>>
      <4>1. t.applied \in Seq(Op)
        BY <1>1 DEF IsTxn
      <4>2. Len(t.applied) = 0
        BY <3>1
      <4> QED BY <4>1, <4>2
    <3>3. PICK st : IsTrail(st, m, t, b)
      BY DEF Sound
    <3>4. Agrees(m, b)
      BY <3>2, <3>3 DEF IsTrail
    <3>5. b.vocab = Cardinality(Unigrams(b.grams))
      <4>1. PICK g : g = b.grams
        OBVIOUS
      <4>2. PICK k : k = b.unk
        OBVIOUS
      <4>3. b = Rebuilt(g, k)
        BY <1>1, <4>1, <4>2
      <4>4. b.vocab = Cardinality(Unigrams(g))
        BY <4>3 DEF Rebuilt
      <4> QED BY <4>1, <4>4
    <3> QED BY <1>2, <2>1, <3>4, <3>5 DEF Agrees
  <2>2. CASE t.items # <<>>
    BY <1>2, <2>2
  <2> QED BY <2>1, <2>2
<1>10. c.vocab = Cardinality(Unigrams(c.grams))
  BY <1>5, <1>9
<1> QED BY <1>7, <1>8, <1>10, DerivedRebuilt

-------------------------------------------------------------------------------
(* Decay, prune and reset.                                                 *)

LEMMA ScaledLess ==
    ASSUME NEW n \in Nat, NEW p \in Nat, NEW q \in Nat \ {0}, p < q
    PROVE  (n * p) \div q \in 0..n
<1>1. PICK np : np = n * p
  OBVIOUS
<1>2. np \in Nat
  BY <1>1
<1>3. PICK r : r = np \div q
  OBVIOUS
<1>4. r \in Nat /\ q * r <= np
  BY <1>2, <1>3
<1>5. np <= n * q
  <2>1. n * p + n * (q - p) = n * q
    OBVIOUS
  <2>2. q - p \in Nat
    OBVIOUS
  <2>3. n * (q - p) \in Nat
    BY <2>2
  <2>4. n * q \in Nat
    OBVIOUS
  <2> QED BY <1>1, <1>2, <2>1, <2>3, <2>4
<1>6. r <= n
  <2>1. SUFFICES ASSUME r > n PROVE FALSE
    BY <1>4
  <2>2. q * r = q * n + q * (r - n)
    BY <1>4
  <2>3. q * (r - n) >= 1
    <3>1. r - n \in Nat \ {0}
      BY <1>4, <2>1
    <3> QED BY <3>1
  <2>4. q * n = n * q /\ n * q \in Nat
    OBVIOUS
  <2> QED BY <1>2, <1>4, <1>5, <2>2, <2>3, <2>4
<1> QED BY <1>1, <1>3, <1>4, <1>6

(* A model rebuilt from fewer n-grams, none counted more often than before.*)
LEMMA ShrunkModel ==
    ASSUME NEW m, IsModel(m), m = Rebuilt(m.grams, m.unk),
           NEW T \in SUBSET (DOMAIN m.grams), NEW grams, DOMAIN grams = T,
           grams = [g \in T |-> grams[g]],
           \A g \in T : grams[g] \in Nat /\ 1 <= grams[g] /\ grams[g] <= m.grams[g],
           NEW unk \in 0..m.unk
    PROVE  IsModel(Rebuilt(grams, unk))
<1>1. PICK f : f = m.grams
  OBVIOUS
<1>2. IsFiniteSet(DOMAIN f) /\ f \in [DOMAIN f -> 1..MaxCount]
  BY <1>1 DEF IsModel
<1>3. \A g \in DOMAIN f : f[g] \in 1..MaxCount
  BY <1>2
<1>4. IsTable(grams)
  <2>1. IsFiniteSet(DOMAIN grams)
    BY <1>1, <1>2, FS_Subset
  <2>2. \A g \in T : grams[g] \in 1..MaxCount
    BY <1>1, <1>3, ModelAssumption
  <2>3. grams \in [DOMAIN grams -> 1..MaxCount]
    BY <2>2
  <2>4. \A g \in DOMAIN grams : g \in Seq(Items) /\ Len(g) \in 1..MaxOrder
    BY DEF IsModel
  <2> QED BY <2>1, <2>3, <2>4 DEF IsTable
<1>5. m.unk \in 0..MaxTotal
  BY DEF IsModel
<1>6. unk \in 0..MaxTotal
  BY <1>5, ModelAssumption
<1>7. ASSUME NEW k \in 1..MaxOrder
      PROVE  SumOver(grams, OfOrder(grams, k)) <= MaxTotal
  <2>1. PICK S : S = OfOrder(f, k)
    OBVIOUS
  <2>2. PICK R : R = OfOrder(grams, k)
    OBVIOUS
  <2>3. S \in SUBSET (DOMAIN f) /\ R \in SUBSET S /\ R \in SUBSET T
    BY <1>1, <2>1, <2>2 DEF OfOrder
  <2>4. IsFiniteSet(S)
    BY <1>2, <2>3, FS_Subset
  <2>5. \A g \in S : f[g] \in Nat
    BY <1>3, <2>3, ModelAssumption
  <2>6. \A g \in R : grams[g] \in Nat /\ grams[g] <= f[g]
    BY <1>1, <2>3
  <2>7. SumOver(grams, R) <= SumOver(f, S)
    BY <2>3, <2>4, <2>5, <2>6, SumLess
  <2>8. SumOver(f, S) \in Nat
    BY <2>4, <2>5, SumNat
  <2>9. SumOver(grams, R) \in Nat
    BY <1>4, <2>3, TableSums
  <2>10. m.totals[k] = SumOver(f, S)
    <3>1. DerivedBut(m, FALSE, 0, 0)
      BY RebuiltDerived
    <3> QED BY <1>1, <2>1, <3>1 DEF DerivedBut
  <2>11. m.totals[k] <= MaxTotal
    BY ModelAssumption DEF IsModel
  <2> QED BY <2>2, <2>7, <2>8, <2>9, <2>10, <2>11, ModelAssumption
<1> QED BY <1>4, <1>6, <1>7, RebuiltModel

LEMMA RebuiltParts ==
    ASSUME NEW grams, NEW unk
    PROVE  /\ Rebuilt(grams, unk).grams = grams /\ Rebuilt(grams, unk).unk = unk
           /\ Rebuilt(grams, unk)
                 = Rebuilt(Rebuilt(grams, unk).grams, Rebuilt(grams, unk).unk)
<1>1. PICK r : r = Rebuilt(grams, unk)
  OBVIOUS
<1>2. r.grams = grams /\ r.unk = unk
  BY <1>1 DEF Rebuilt
<1> QED BY <1>1, <1>2

(* The empty model is rebuilt from no n-gram.                              *)
LEMMA EmptyModel == IsModel(Empty) /\ Empty = Rebuilt(Empty.grams, Empty.unk)
<1>1. PICK e : e = Empty
  OBVIOUS
<1>2. /\ e.contexts = <<>> /\ e.grams = <<>> /\ e.unk = 0 /\ e.vocab = 0
      /\ e.totals = [k \in 1..MaxOrder |-> 0]
  BY <1>1 DEF Empty
<1>3. e = [grams |-> <<>>, contexts |-> <<>>,
           totals |-> [k \in 1..MaxOrder |-> 0], vocab |-> 0, unk |-> 0]
  BY <1>1 DEF Empty
<1>4. DOMAIN <<>> = {}
  OBVIOUS
<1>5. IsFiniteSet({}) /\ Cardinality({}) = 0
  BY FS_EmptySet
<1>6. <<>> = [x \in {} |-> 0]
  OBVIOUS
<1>7. HasFields(e)
  BY <1>2, <1>3 DEF HasFields
<1>8. IsModel(e)
  <2>1. e.grams \in [DOMAIN e.grams -> 1..MaxCount]
    BY <1>2, <1>4, <1>6
  <2>2. e.contexts \in [DOMAIN e.contexts -> Entry]
    BY <1>2, <1>4, <1>6
  <2>3. e.totals \in [1..MaxOrder -> 0..MaxTotal] /\ e.unk \in 0..MaxTotal
    BY <1>2, ModelAssumption
  <2> QED BY <1>2, <1>4, <1>5, <1>7, <2>1, <2>2, <2>3 DEF IsModel
<1>9. DerivedBut(e, FALSE, 0, 0)
  <2>1. \A S : S \in SUBSET (DOMAIN e.grams) => S = {}
    BY <1>2, <1>4
  <2>2. SumOver(e.grams, {}) = 0
    <3>1. IsTable(e.grams)
      BY <1>8, ModelTable
    <3>2. {} \in SUBSET (DOMAIN e.grams)
      OBVIOUS
    <3> QED BY <3>1, <3>2, TableSums
  <2>3. \A k : OfOrder(e.grams, k) = {}
    BY <2>1 DEF OfOrder
  <2>4. \A key : Longer(e.grams, key) = {}
    BY <2>1 DEF Longer
  <2>5. \A key : ContextOf(e, key) = [total |-> 0, continuations |-> 0]
    BY <1>2, <1>4 DEF ContextOf
  <2>6. \A k \in 1..MaxOrder : e.totals[k] = 0
    BY <1>2
  <2>7. \A k \in 1..MaxOrder : e.totals[k] = SumOver(e.grams, OfOrder(e.grams, k))
    BY <2>2, <2>3, <2>6
  <2>8. ASSUME NEW key \in Seq(Items)
        PROVE  /\ ContextOf(e, key).total + 0 = SumOver(e.grams, Longer(e.grams, key))
               /\ ContextOf(e, key).continuations + 0
                     = Cardinality(Longer(e.grams, key))
    <3>1. ContextOf(e, key).total = 0 /\ ContextOf(e, key).continuations = 0
      BY <2>5
    <3>2. SumOver(e.grams, Longer(e.grams, key)) = 0
      BY <2>2, <2>4
    <3>3. Cardinality(Longer(e.grams, key)) = 0
      BY <1>5, <2>4
    <3> QED BY <3>1, <3>2, <3>3
  <2> QED BY <2>7, <2>8 DEF DerivedBut
<1>10. e.vocab = Cardinality(Unigrams(e.grams))
  <2>1. Unigrams(e.grams) = {}
    BY <1>2, <1>4 DEF Unigrams
  <2> QED BY <1>2, <1>5, <2>1
<1>11. e = Rebuilt(e.grams, e.unk)
  BY <1>8, <1>9, <1>10, DerivedRebuilt
<1> QED BY <1>1, <1>8, <1>11

-------------------------------------------------------------------------------
(* The invariant, action by action.                                        *)

(* Both models are sound in the next state when each is.                   *)
LEMMA Steps ==
    ASSUME phase' \in {"idle", "apply", "undo"},
           models' = [w \in Which |-> models'[w]],
           txns' = [w \in Which |-> txns'[w]],
           base' = [w \in Which |-> base'[w]],
           \A w \in Which : Sound(models'[w], txns'[w], base'[w], phase')
    PROVE  IInv'
BY DEF IInv

LEMMA Idle ==
    ASSUME IInv, phase = "idle", NEW w \in Which
    PROVE  /\ models[w] = base[w] /\ txns[w] = NoTxn
           /\ IsModel(base[w]) /\ base[w] = Rebuilt(base[w].grams, base[w].unk)
BY Zenon DEF IInv, Sound

LEMMA InitIInv == Init => IInv
<1>1. PICK none : none = <<>>
  OBVIOUS
<1>2. none \in Seq(Items)
  BY <1>1
<1>3. IsModel(Empty) /\ Empty = Rebuilt(Empty.grams, Empty.unk)
  BY EmptyModel
<1>4. Sound(Empty, NoTxn, Empty, "idle")
  <2>1. NoTxn = [items |-> none, applied |-> <<>>, unknown |-> 0]
    BY <1>1 DEF NoTxn
  <2> QED BY <1>1, <1>2, <1>3, <2>1, Settled
<1>5. SUFFICES ASSUME Init PROVE IInv
  OBVIOUS
<1>6. \A w \in Which : models[w] = Empty /\ base[w] = Empty /\ txns[w] = NoTxn
  BY <1>5 DEF Init
<1>7. /\ models = [w \in Which |-> models[w]]
      /\ txns = [w \in Which |-> txns[w]]
      /\ base = [w \in Which |-> base[w]]
  BY <1>5 DEF Init
<1> QED BY <1>4, <1>5, <1>6, <1>7 DEF Init, IInv

LEMMA BeginIInv ==
    ASSUME IInv, NEW sample \in Samples, Begin(sample)
    PROVE  IInv'
<1>1. phase = "idle" /\ phase' = "apply" /\ models' = models /\ base' = base
  BY DEF Begin
<1>2. txns' = [w \in Which |-> [NoTxn EXCEPT !.items = sample[w]]]
  BY DEF Begin
<1>3. ASSUME NEW w \in Which
      PROVE  Sound(models'[w], txns'[w], base'[w], "apply")
  <2>1. PICK items : items = sample[w]
    OBVIOUS
  <2>2. items \in Seq(Items)
    <3>1. sample \in [Which -> Seq(Items)]
      BY ModelAssumption
    <3> QED BY <2>1, <3>1
  <2>3. PICK t : t = txns'[w]
    OBVIOUS
  <2>4. t = [items |-> items, applied |-> <<>>, unknown |-> 0]
    BY <1>2, <2>1, <2>3 DEF NoTxn
  <2>5. PICK b : b = base[w]
    OBVIOUS
  <2>6. models[w] = b /\ IsModel(b) /\ b = Rebuilt(b.grams, b.unk)
    BY <1>1, <2>5, Idle
  <2>7. Sound(b, t, b, "apply")
    BY <2>2, <2>4, <2>6, Settled
  <2> QED BY <1>1, <2>3, <2>5, <2>6, <2>7
<1>4. /\ models' = [w \in Which |-> models'[w]]
      /\ txns' = [w \in Which |-> txns'[w]]
      /\ base' = [w \in Which |-> base'[w]]
  <2>1. models' = [w \in Which |-> models'[w]] /\ base' = [w \in Which |-> base'[w]]
    BY <1>1 DEF IInv
  <2>2. txns' = [w \in Which |-> txns'[w]]
    BY <1>2
  <2> QED BY <2>1, <2>2
<1> QED BY <1>1, <1>3, <1>4, Steps

(* A round of apply, told of the model that is active: fresh, the operation*)
(* as the journal records it, and the journal after it.                    *)
Applies(w, fresh, op, u) ==
    LET t     == txns[w]
        m     == models[w]
        act   == Due(t)
        isNew == Previous(m, act) = 0
    IN /\ Len(t.applied) # Len(Journal(t.items)) /\ ~AtLimit(m, act)
       /\ fresh = (act.ctx /\ Last(t.applied).inserted)
       /\ op = [ctx |-> act.ctx, key |-> act.key,
                inserted |-> isNew, fresh |-> fresh]
       /\ u = [items |-> t.items, applied |-> Append(t.applied, op),
               unknown |-> IF ~act.ctx /\ Len(act.key) = 1 /\ isNew
                           THEN t.unknown + 1 ELSE t.unknown]
       /\ models' = [models EXCEPT ![w] = Applied(m, act, fresh)]
       /\ txns' = [txns EXCEPT ![w] = u]

(* The action of the active model is the next of its journal.              *)
LEMMA ApplyShape ==
    ASSUME IInv, Apply
    PROVE  /\ phase = "apply" /\ phase' = "apply" /\ base' = base
           /\ \E w \in Which : \E fresh, op, u : Applies(w, fresh, op, u)
<1>1. PICK w \in Which : w = Active
  BY DEF Active, Which
<1>2. PICK t : t = txns[w]
  OBVIOUS
<1>3. PICK m : m = models[w]
  OBVIOUS
<1>4. phase = "apply" /\ phase' = "apply" /\ base' = base
  BY DEF Apply
<1>5. PICK act : act = Due(t)
  OBVIOUS
<1>6. Action = act
  BY <1>1, <1>2, <1>5 DEF Action, Due
<1>7. Len(t.applied) # Len(Journal(t.items)) /\ ~AtLimit(m, act)
  BY <1>1, <1>2, <1>3, <1>6 DEF Apply, Finished
<1>8. PICK isNew : isNew = (Previous(m, act) = 0)
  OBVIOUS
<1>9. PICK fresh : fresh = (act.ctx /\ Last(t.applied).inserted)
  OBVIOUS
<1>10. PICK op : op = [ctx |-> act.ctx, key |-> act.key,
                       inserted |-> isNew, fresh |-> fresh]
  OBVIOUS
<1>11. PICK n : n = IF ~act.ctx /\ Len(act.key) = 1 /\ isNew
                    THEN t.unknown + 1 ELSE t.unknown
  OBVIOUS
<1>12. PICK u : u = [items |-> t.items, applied |-> Append(t.applied, op),
                     unknown |-> n]
  OBVIOUS
<1>13. models' = [models EXCEPT ![w] = Applied(m, act, fresh)]
  BY <1>1, <1>2, <1>3, <1>6, <1>9 DEF Apply
<1>14. txns' = [txns EXCEPT ![w].applied = Append(@, op),
                            ![w].unknown = IF ~act.ctx /\ Len(act.key) = 1 /\ isNew
                                           THEN @ + 1 ELSE @]
  BY <1>1, <1>2, <1>3, <1>6, <1>8, <1>9, <1>10 DEF Apply
<1>15. txns = [v \in Which |-> txns[v]]
  BY DEF IInv
<1>16. t = [items |-> t.items, applied |-> t.applied, unknown |-> t.unknown]
  BY <1>2 DEF IInv, Sound, IsTxn
<1>17. txns' = [txns EXCEPT ![w] = u]
  <2>1. txns' = [txns EXCEPT ![w] =
                    [[t EXCEPT !.applied = Append(t.applied, op)]
                        EXCEPT !.unknown = n]]
    BY <1>2, <1>11, <1>14, <1>15
  <2>2. [[t EXCEPT !.applied = Append(t.applied, op)] EXCEPT !.unknown = n] = u
    <3>1. PICK a : a = Append(t.applied, op)
      OBVIOUS
    <3>2. [t EXCEPT !.applied = a]
             = [items |-> t.items, applied |-> a, unknown |-> t.unknown]
      BY <1>16
    <3>3. [[items |-> t.items, applied |-> a, unknown |-> t.unknown]
              EXCEPT !.unknown = n] = [items |-> t.items, applied |-> a, unknown |-> n]
      OBVIOUS
    <3> QED BY <1>12, <3>1, <3>2, <3>3
  <2> QED BY <2>1, <2>2
<1>18. Applies(w, fresh, op, u)
  BY <1>2, <1>3, <1>5, <1>7, <1>8, <1>9, <1>10, <1>11, <1>12, <1>13, <1>17
     DEF Applies
<1> QED BY <1>4, <1>18

LEMMA ApplyIInv == ASSUME IInv, Apply PROVE IInv'
<1>1. PICK w \in Which : \E fresh, op, u : Applies(w, fresh, op, u)
  BY ApplyShape
<1>2. PICK fresh, op, u : Applies(w, fresh, op, u)
  BY <1>1
<1>3. PICK t : t = txns[w]
  OBVIOUS
<1>4. PICK m : m = models[w]
  OBVIOUS
<1>5. PICK b : b = base[w]
  OBVIOUS
<1>6. phase = "apply" /\ phase' = "apply" /\ base' = base
  BY ApplyShape
<1>7. Sound(m, t, b, "apply")
  BY <1>3, <1>4, <1>5, <1>6 DEF IInv
<1>8. PICK c : c = Applied(m, Due(t), fresh)
  OBVIOUS
<1>9. PICK isNew : isNew = (Previous(m, Due(t)) = 0)
  OBVIOUS
<1>10. /\ Len(t.applied) # Len(Journal(t.items)) /\ ~AtLimit(m, Due(t))
       /\ fresh = (Due(t).ctx /\ Last(t.applied).inserted)
       /\ op = [ctx |-> Due(t).ctx, key |-> Due(t).key,
                inserted |-> isNew, fresh |-> fresh]
       /\ u = [items |-> t.items, applied |-> Append(t.applied, op),
               unknown |-> IF ~Due(t).ctx /\ Len(Due(t).key) = 1 /\ isNew
                           THEN t.unknown + 1 ELSE t.unknown]
       /\ models' = [models EXCEPT ![w] = c]
       /\ txns' = [txns EXCEPT ![w] = u]
  BY <1>2, <1>3, <1>4, <1>8, <1>9 DEF Applies
<1>11. Sound(c, u, b, "apply")
  BY <1>7, <1>8, <1>9, <1>10, AppliedSound
<1>12. /\ models = [v \in Which |-> models[v]]
       /\ txns = [v \in Which |-> txns[v]]
       /\ base = [v \in Which |-> base[v]]
  BY DEF IInv
<1>13. ASSUME NEW v \in Which
       PROVE  Sound(models'[v], txns'[v], base'[v], "apply")
  <2>1. CASE v = w
    <3>1. models'[v] = c /\ txns'[v] = u
      BY <1>10, <1>12, <2>1
    <3> QED BY <1>5, <1>6, <1>11, <2>1, <3>1
  <2>2. CASE v # w
    <3>1. models'[v] = models[v] /\ txns'[v] = txns[v]
      BY <1>10, <1>12, <2>2
    <3> QED BY <1>6, <3>1 DEF IInv
  <2> QED BY <2>1, <2>2
<1>14. /\ models' = [v \in Which |-> models'[v]]
       /\ txns' = [v \in Which |-> txns'[v]]
       /\ base' = [v \in Which |-> base'[v]]
  BY <1>6, <1>10, <1>12
<1> QED BY <1>6, <1>13, <1>14, Steps

LEMMA ApplyFailsIInv == ASSUME IInv, ApplyFails PROVE IInv'
<1>1. /\ phase = "apply" /\ phase' = "undo"
      /\ models' = models /\ txns' = txns /\ base' = base
  BY DEF ApplyFails
<1>2. ASSUME NEW w \in Which
      PROVE  Sound(models'[w], txns'[w], base'[w], "undo")
  <2>1. Sound(models[w], txns[w], base[w], "apply")
    BY <1>1 DEF IInv
  <2>2. Sound(models[w], txns[w], base[w], "undo")
    BY <2>1 DEF Sound
  <2> QED BY <1>1, <2>2
<1>3. /\ models' = [w \in Which |-> models'[w]]
      /\ txns' = [w \in Which |-> txns'[w]]
      /\ base' = [w \in Which |-> base'[w]]
  BY <1>1 DEF IInv
<1> QED BY <1>1, <1>2, <1>3, Steps

LEMMA UndoIInv == ASSUME IInv, Undo PROVE IInv'
<1>1. PICK w \in Which : w = IF txns["type"].applied # <<>> THEN "type" ELSE "raw"
  BY DEF Which
<1>2. PICK t : t = txns[w]
  OBVIOUS
<1>3. PICK m : m = models[w]
  OBVIOUS
<1>4. PICK b : b = base[w]
  OBVIOUS
<1>5. phase = "undo" /\ phase' = "undo" /\ base' = base /\ t.applied # <<>>
  BY <1>1, <1>2 DEF Undo
<1>6. Sound(m, t, b, "undo")
  BY <1>2, <1>3, <1>4, <1>5 DEF IInv
<1>7. PICK c : c = Undone(m, Last(t.applied))
  OBVIOUS
<1>8. PICK u : u = [items |-> t.items, applied |-> Front(t.applied),
                    unknown |-> t.unknown]
  OBVIOUS
<1>9. Sound(c, u, b, "undo")
  BY <1>5, <1>6, <1>7, <1>8, UndoneSound
<1>10. models' = [models EXCEPT ![w] = c]
  BY <1>1, <1>2, <1>3, <1>7 DEF Undo
<1>11. txns' = [txns EXCEPT ![w].applied = Front(@)]
  BY <1>1 DEF Undo
<1>12. /\ models = [v \in Which |-> models[v]]
       /\ txns = [v \in Which |-> txns[v]]
       /\ base = [v \in Which |-> base[v]]
  BY DEF IInv
<1>13. t = [items |-> t.items, applied |-> t.applied, unknown |-> t.unknown]
  BY <1>6 DEF Sound, IsTxn
<1>14. txns' = [txns EXCEPT ![w] = u]
  <2>1. txns' = [txns EXCEPT ![w] = [t EXCEPT !.applied = Front(t.applied)]]
    BY <1>2, <1>11, <1>12
  <2>2. [t EXCEPT !.applied = Front(t.applied)] = u
    BY <1>8, <1>13
  <2> QED BY <2>1, <2>2
<1>15. ASSUME NEW v \in Which
       PROVE  Sound(models'[v], txns'[v], base'[v], "undo")
  <2>1. CASE v = w
    BY <1>4, <1>5, <1>9, <1>10, <1>12, <1>14, <2>1
  <2>2. CASE v # w
    <3>1. models'[v] = models[v] /\ txns'[v] = txns[v]
      BY <1>10, <1>12, <1>14, <2>2
    <3> QED BY <1>5, <3>1 DEF IInv
  <2> QED BY <2>1, <2>2
<1>16. /\ models' = [v \in Which |-> models'[v]]
       /\ txns' = [v \in Which |-> txns'[v]]
       /\ base' = [v \in Which |-> base'[v]]
  BY <1>5, <1>10, <1>12, <1>14
<1> QED BY <1>5, <1>15, <1>16, Steps

(* A call that ended left models that are models, with no journal.         *)
LEMMA Ended ==
    ASSUME phase' = "idle", base' = models', txns' = [w \in Which |-> NoTxn],
           models' = [w \in Which |-> models'[w]],
           \A w \in Which : /\ IsModel(models'[w])
                            /\ models'[w] = Rebuilt(models'[w].grams, models'[w].unk)
    PROVE  IInv'
<1>1. ASSUME NEW w \in Which
      PROVE  Sound(models'[w], txns'[w], base'[w], "idle")
  <2>1. PICK b : b = models'[w]
    OBVIOUS
  <2>2. PICK none : none = <<>>
    OBVIOUS
  <2>3. PICK t : t = NoTxn
    OBVIOUS
  <2>4. none \in Seq(Items) /\ t = [items |-> none, applied |-> <<>>, unknown |-> 0]
    BY <2>2, <2>3 DEF NoTxn
  <2>5. IsModel(b) /\ b = Rebuilt(b.grams, b.unk)
    BY <2>1
  <2>6. Sound(b, t, b, "idle")
    BY <2>2, <2>4, <2>5, Settled
  <2>7. txns'[w] = t /\ base'[w] = b
    BY <2>1, <2>3
  <2> QED BY <2>1, <2>6, <2>7
<1>2. base' = [w \in Which |-> base'[w]] /\ txns' = [w \in Which |-> txns'[w]]
  OBVIOUS
<1> QED BY <1>1, <1>2, Steps

(* What a rollback ends with is what the update began with.                *)
LEMMA Restored == ASSUME IInv, RolledBack PROVE models' = base
<1>1. ASSUME NEW w \in Which
      PROVE  models'[w] = base[w]
  <2>1. Sound(models[w], txns[w], base[w], phase) /\ txns[w].applied = <<>>
    BY DEF IInv, RolledBack
  <2>2. [models[w] EXCEPT !.unk = @ - txns[w].unknown] = base[w]
    BY <2>1, SoundRestored
  <2> QED BY <2>2 DEF RolledBack
<1>2. models' = [w \in Which |-> models'[w]]
  BY DEF RolledBack
<1>3. base = [w \in Which |-> base[w]]
  BY DEF IInv
<1> QED BY <1>1, <1>2, <1>3

LEMMA RolledBackIInv == ASSUME IInv, RolledBack PROVE IInv'
<1>1. /\ phase' = "idle" /\ base' = models' /\ txns' = [w \in Which |-> NoTxn]
      /\ models' = [w \in Which |-> models'[w]]
  BY DEF RolledBack
<1>2. ASSUME NEW w \in Which
      PROVE  /\ IsModel(models'[w])
             /\ models'[w] = Rebuilt(models'[w].grams, models'[w].unk)
  <2>1. IsModel(base[w]) /\ base[w] = Rebuilt(base[w].grams, base[w].unk)
    BY Zenon DEF IInv, Sound
  <2> QED BY <2>1, Restored
<1> QED BY <1>1, <1>2, Ended

LEMMA CommitIInv == ASSUME IInv, Commit PROVE IInv'
<1>1. /\ phase' = "idle" /\ base' = models' /\ txns' = [w \in Which |-> NoTxn]
      /\ models' = [w \in Which |-> models'[w]]
  BY DEF Commit
<1>2. ASSUME NEW w \in Which
      PROVE  /\ IsModel(models'[w])
             /\ models'[w] = Rebuilt(models'[w].grams, models'[w].unk)
  <2>1. PICK m : m = models[w]
    OBVIOUS
  <2>2. PICK t : t = txns[w]
    OBVIOUS
  <2>3. PICK b : b = base[w]
    OBVIOUS
  <2>4. Sound(m, t, b, "apply") /\ Len(t.applied) = Len(Journal(t.items))
    BY <2>1, <2>2, <2>3 DEF IInv, Commit, Finished
  <2>5. PICK c : c = [m EXCEPT !.vocab = IF t.items = <<>> THEN @
                                         ELSE Cardinality(Unigrams(m.grams))]
    OBVIOUS
  <2>6. IsModel(c) /\ c = Rebuilt(c.grams, c.unk)
    <3>1. c = Recounted(m, t)
      BY <2>5 DEF Recounted
    <3> QED BY <2>4, <3>1, CommittedRebuilt
  <2>7. models'[w] = c
    BY <2>1, <2>2, <2>5 DEF Commit
  <2> QED BY <2>6, <2>7
<1> QED BY <1>1, <1>2, Ended

LEMMA InstallIInv ==
    ASSUME IInv, NEW w \in Which, NEW c, Install(w, c),
           IsModel(c), c = Rebuilt(c.grams, c.unk)
    PROVE  IInv'
<1>1. /\ phase = "idle" /\ phase' = "idle" /\ base' = models' /\ txns' = txns
      /\ models' = [models EXCEPT ![w] = c]
  BY DEF Install
<1>2. models = [v \in Which |-> models[v]] /\ txns = [v \in Which |-> txns[v]]
  BY DEF IInv
<1>3. ASSUME NEW v \in Which
      PROVE  /\ IsModel(models'[v])
             /\ models'[v] = Rebuilt(models'[v].grams, models'[v].unk)
  <2>1. CASE v = w
    BY <1>1, <1>2, <2>1
  <2>2. CASE v # w
    <3>1. models'[v] = models[v]
      BY <1>1, <1>2, <2>2
    <3> QED BY <1>1, <3>1, Idle
  <2> QED BY <2>1, <2>2
<1>4. txns' = [v \in Which |-> NoTxn]
  <2>1. \A v \in Which : txns[v] = NoTxn
    BY <1>1, Idle
  <2> QED BY <1>1, <1>2, <2>1
<1>5. models' = [v \in Which |-> models'[v]]
  BY <1>1, <1>2
<1> QED BY <1>1, <1>3, <1>4, <1>5, Ended

(* A replacement rebuilt from fewer n-grams.                               *)
LEMMA ShrinkIInv ==
    ASSUME IInv, NEW w \in Which,
           NEW T \in SUBSET (DOMAIN models[w].grams), NEW grams, DOMAIN grams = T,
           grams = [g \in T |-> grams[g]],
           \A g \in T : /\ grams[g] \in Nat /\ 1 <= grams[g]
                        /\ grams[g] <= models[w].grams[g],
           NEW unk \in 0..models[w].unk, Install(w, Rebuilt(grams, unk))
    PROVE  IInv'
<1>1. phase = "idle"
  BY DEF Install
<1>2. PICK m : m = models[w]
  OBVIOUS
<1>3. IsModel(m) /\ m = Rebuilt(m.grams, m.unk)
  BY <1>1, <1>2, Idle
<1>4. PICK c : c = Rebuilt(grams, unk)
  OBVIOUS
<1>5. IsModel(c)
  BY <1>2, <1>3, <1>4, ShrunkModel
<1>6. c = Rebuilt(c.grams, c.unk)
  BY <1>4, RebuiltParts
<1>7. Install(w, c)
  BY <1>4
<1> QED BY <1>5, <1>6, <1>7, InstallIInv

LEMMA DecayIInv ==
    ASSUME IInv, NEW w \in Which, NEW scale \in Scales, Decay(w, scale)
    PROVE  IInv'
<1>1. PICK m : m = models[w]
  OBVIOUS
<1>2. phase = "idle"
  BY DEF Decay, Install
<1>3. IsModel(m)
  BY <1>1, <1>2, Idle
<1>4. \A n \in Nat : Scaled(n, scale) \in 0..n
  <2>1. scale[1] \in Nat /\ scale[2] \in Nat \ {0} /\ scale[1] < scale[2]
    BY ModelAssumption
  <2> QED BY <2>1, ScaledLess DEF Scaled
<1>5. m.unk \in Nat /\ \A g \in DOMAIN m.grams : m.grams[g] \in Nat
  <2>1. m.unk \in Nat
    BY <1>3, ModelAssumption DEF IsModel
  <2>2. m.grams \in [DOMAIN m.grams -> 1..MaxCount]
    BY <1>3 DEF IsModel
  <2> QED BY <2>1, <2>2, ModelAssumption
<1>6. PICK T : T = {h \in DOMAIN m.grams : Scaled(m.grams[h], scale) >= 1}
  OBVIOUS
<1>7. PICK grams : grams = [g \in T |-> Scaled(m.grams[g], scale)]
  OBVIOUS
<1>8. /\ DOMAIN grams = T
      /\ \A g \in T : grams[g] = Scaled(m.grams[g], scale)
      /\ T \in SUBSET (DOMAIN m.grams)
  BY <1>6, <1>7
<1>9. \A g \in T : grams[g] \in Nat /\ 1 <= grams[g] /\ grams[g] <= m.grams[g]
  <2>1. TAKE g \in T
  <2>2. g \in DOMAIN m.grams /\ Scaled(m.grams[g], scale) >= 1
    BY <1>6
  <2> QED BY <1>4, <1>5, <1>8, <2>2
<1>10. PICK unk : unk = Scaled(m.unk, scale)
  OBVIOUS
<1>11. unk \in 0..m.unk
  BY <1>4, <1>5, <1>10
<1>12. Install(w, Rebuilt(grams, unk))
  BY <1>1, <1>6, <1>7, <1>10 DEF Decay
<1>13. grams = [g \in T |-> grams[g]]
  BY <1>7
<1> QED BY <1>1, <1>8, <1>9, <1>11, <1>12, <1>13, ShrinkIInv

LEMMA PruneIInv ==
    ASSUME IInv, NEW w \in Which, NEW min \in MinCounts, Prune(w, min)
    PROVE  IInv'
<1>1. PICK m : m = models[w]
  OBVIOUS
<1>2. phase = "idle"
  BY DEF Prune, Install
<1>3. IsModel(m)
  BY <1>1, <1>2, Idle
<1>4. m.unk \in 0..m.unk
  <2>1. m.unk \in Nat
    BY <1>3, ModelAssumption DEF IsModel
  <2> QED BY <2>1
<1>5. \A g \in DOMAIN m.grams : m.grams[g] \in Nat
  <2>1. m.grams \in [DOMAIN m.grams -> 1..MaxCount]
    BY <1>3 DEF IsModel
  <2> QED BY <2>1, ModelAssumption
<1>6. min \in Nat \ {0}
  BY ModelAssumption
<1>7. PICK T : T = {h \in DOMAIN m.grams : m.grams[h] >= min}
  OBVIOUS
<1>8. PICK grams : grams = [g \in T |-> m.grams[g]]
  OBVIOUS
<1>9. /\ DOMAIN grams = T /\ \A g \in T : grams[g] = m.grams[g]
      /\ T \in SUBSET (DOMAIN m.grams)
  BY <1>7, <1>8
<1>10. \A g \in T : grams[g] \in Nat /\ 1 <= grams[g] /\ grams[g] <= m.grams[g]
  <2>1. TAKE g \in T
  <2>2. g \in DOMAIN m.grams /\ m.grams[g] >= min
    BY <1>7
  <2> QED BY <1>5, <1>6, <1>9, <2>2
<1>11. Install(w, Rebuilt(grams, m.unk))
  BY <1>1, <1>7, <1>8 DEF Prune
<1>12. grams = [g \in T |-> grams[g]]
  BY <1>8
<1> QED BY <1>1, <1>4, <1>9, <1>10, <1>11, <1>12, ShrinkIInv

LEMMA ResetIInv == ASSUME IInv, NEW w \in Which, Reset(w) PROVE IInv'
BY EmptyModel, InstallIInv DEF Reset

LEMMA StutterIInv == ASSUME IInv, UNCHANGED vars PROVE IInv'
<1>1. phase' = phase /\ models' = models /\ txns' = txns /\ base' = base
  BY DEF vars
<1>2. \A w \in Which : Sound(models'[w], txns'[w], base'[w], phase')
  BY <1>1 DEF IInv
<1> QED BY <1>1, <1>2, Steps DEF IInv

LEMMA NextIInv == IInv /\ [Next]_vars => IInv'
<1>1. SUFFICES ASSUME IInv, [Next]_vars PROVE IInv'
  OBVIOUS
<1>2. ASSUME NEW sample \in Samples, Begin(sample) PROVE IInv'
  BY <1>1, <1>2, BeginIInv
<1>3. CASE Apply
  BY <1>1, <1>3, ApplyIInv
<1>4. CASE ApplyFails
  BY <1>1, <1>4, ApplyFailsIInv
<1>5. CASE Undo
  BY <1>1, <1>5, UndoIInv
<1>6. CASE RolledBack
  BY <1>1, <1>6, RolledBackIInv
<1>7. CASE Commit
  BY <1>1, <1>7, CommitIInv
<1>8. ASSUME NEW w \in Which, NEW scale \in Scales, Decay(w, scale) PROVE IInv'
  BY <1>1, <1>8, DecayIInv
<1>9. ASSUME NEW w \in Which, NEW min \in MinCounts, Prune(w, min) PROVE IInv'
  BY <1>1, <1>9, PruneIInv
<1>10. ASSUME NEW w \in Which, Reset(w) PROVE IInv'
  BY <1>1, <1>10, ResetIInv
<1>11. CASE UNCHANGED vars
  BY <1>1, <1>11, StutterIInv
<1> QED
  BY <1>1, <1>2, <1>3, <1>4, <1>5, <1>6, <1>7, <1>8, <1>9, <1>10, <1>11 DEF Next

-------------------------------------------------------------------------------
(* What a journal counts.                                                  *)

(* The operations of J that count the n-gram g                             *)
Hits(J, g) == {j \in 1..Len(J) : ~J[j].ctx /\ J[j].key = g}

(* Where, up to stage i, the n-gram g ends                                 *)
Ends(items, g, i) ==
    {p \in Len(g)..i : SubSeq(items, p - Len(g) + 1, p) = g}

LEMMA IntervalPart ==
    ASSUME NEW a \in Int, NEW b \in Int, NEW S \in SUBSET (a..b)
    PROVE  IsFiniteSet(S) /\ Cardinality(S) \in Nat
BY FS_Interval, FS_Subset, FS_CardinalityType

(* A stage counts each n-gram that ends there once, and no other.          *)
LEMMA StageHits ==
    ASSUME NEW items \in Seq(Items), NEW i \in 1..Len(items),
           NEW g \in Seq(Items), Len(g) \in 1..MaxOrder
    PROVE  LET A == ActionsAt(items, i) IN
           IF Len(g) <= i /\ SubSeq(items, i - Len(g) + 1, i) = g
           THEN \E h \in 1..Len(A) : Hits(A, g) = {h}
           ELSE Hits(A, g) = {}
<1> DEFINE top     == IF i < MaxOrder THEN i ELSE MaxOrder
           gram(k) == SubSeq(items, i - k + 1, i)
           J       == [j \in 1..(2 * top - 1) |->
                          IF j > 1 /\ j % 2 = 1
                          THEN [ctx |-> TRUE,  key |-> Front(gram(j \div 2 + 1))]
                          ELSE [ctx |-> FALSE, key |-> gram(j \div 2 + 1)]]
<1>1. ActionsAt(items, i) = J
  BY DEF ActionsAt
<1>2. top \in Nat \ {0} /\ top <= MaxOrder /\ top <= i /\ (top < i => top = MaxOrder)
  BY ModelAssumption
<1>3. PICK k : k = Len(g)
  OBVIOUS
<1>4. k \in 1..MaxOrder /\ k \in Nat \ {0}
  BY <1>3, ModelAssumption
<1>5. \A l \in 1..top : Len(gram(l)) = l
  <2>1. TAKE l \in 1..top
  <2>2. l \in 1..i
    BY <1>2
  <2> QED BY <2>2, GramShape
<1> HIDE DEF top, gram
<1>6. Len(J) = 2 * top - 1
  BY <1>2
<1>7. ASSUME NEW j \in 1..(2 * top - 1)
      PROVE  ~J[j].ctx /\ J[j].key = g
                <=> /\ j = (IF k = 1 THEN 1 ELSE 2 * (k - 1))
                    /\ k <= top /\ gram(k) = g
  <2>1. j \div 2 + 1 \in 1..top
    BY <1>2
  <2>2. PICK l : l = j \div 2 + 1
    OBVIOUS
  <2>3. Len(gram(l)) = l
    BY <1>5, <2>1, <2>2
  <2>4. CASE j > 1 /\ j % 2 = 1
    <3>1. J[j].ctx
      BY <2>4
    <3>2. j # (IF k = 1 THEN 1 ELSE 2 * (k - 1))
      BY <1>4, <2>4
    <3> QED BY <3>1, <3>2
  <2>5. CASE ~(j > 1 /\ j % 2 = 1)
    <3>1. J[j] = [ctx |-> FALSE, key |-> gram(l)]
      BY <2>2, <2>5
    <3>2. ~J[j].ctx /\ J[j].key = gram(l)
      BY <3>1
    <3> HIDE DEF J
    <3>3. j = (IF k = 1 THEN 1 ELSE 2 * (k - 1)) <=> l = k
      BY <1>4, <2>2, <2>5
    <3>4. gram(l) = g => l = k
      BY <1>3, <2>3
    <3> QED BY <2>1, <2>2, <3>2, <3>3, <3>4
  <2> QED BY <2>4, <2>5
<1> HIDE DEF J
<1>8. CASE k <= i /\ gram(k) = g
  <2>1. PICK h : h = IF k = 1 THEN 1 ELSE 2 * (k - 1)
    OBVIOUS
  <2>2. k <= top
    BY <1>2, <1>4, <1>8
  <2>3. h \in 1..(2 * top - 1)
    BY <1>2, <1>4, <2>1, <2>2
  <2>4. Hits(J, g) = {h}
    BY <1>6, <1>7, <1>8, <2>1, <2>2, <2>3 DEF Hits
  <2> QED BY <1>1, <1>3, <1>6, <1>8, <2>3, <2>4 DEF gram
<1>9. CASE ~(k <= i /\ gram(k) = g)
  <2>1. k <= top => k <= i
    BY <1>2, <1>4
  <2>2. Hits(J, g) = {}
    BY <1>6, <1>7, <1>9, <2>1 DEF Hits
  <2> QED BY <1>1, <1>3, <1>9, <2>2 DEF gram
<1> QED BY <1>8, <1>9

(* The operations of two journals in a row.                                *)
LEMMA JoinedHits ==
    ASSUME NEW I \in Seq(Act), NEW J \in Seq(Act), NEW g
    PROVE  Hits(I \o J, g) = Hits(I, g) \cup {Len(I) + h : h \in Hits(J, g)}
<1> DEFINE K == I \o J
<1>1. Len(I) \in Nat /\ Len(J) \in Nat /\ Len(K) = Len(I) + Len(J)
  OBVIOUS
<1>2. \A j \in 1..Len(I) : K[j] = I[j]
  OBVIOUS
<1>3. \A j \in 1..Len(J) : K[Len(I) + j] = J[j]
  OBVIOUS
<1> HIDE DEF K
<1>4. ASSUME NEW j \in Hits(K, g)
      PROVE  j \in Hits(I, g) \cup {Len(I) + h : h \in Hits(J, g)}
  <2>1. j \in 1..Len(K) /\ ~K[j].ctx /\ K[j].key = g
    BY DEF Hits
  <2>2. CASE j <= Len(I)
    <3>1. j \in 1..Len(I)
      BY <2>1, <2>2
    <3> QED BY <1>2, <2>1, <3>1 DEF Hits
  <2>3. CASE ~(j <= Len(I))
    <3>1. PICK h : h = j - Len(I)
      OBVIOUS
    <3>2. h \in 1..Len(J) /\ j = Len(I) + h
      BY <1>1, <2>1, <2>3, <3>1
    <3>3. h \in Hits(J, g)
      BY <1>3, <2>1, <3>2 DEF Hits
    <3> QED BY <3>2, <3>3
  <2> QED BY <2>2, <2>3
<1>5. ASSUME NEW j \in Hits(I, g)
      PROVE  j \in Hits(K, g)
  <2>1. j \in 1..Len(I) /\ ~I[j].ctx /\ I[j].key = g
    BY DEF Hits
  <2>2. j \in 1..Len(K)
    BY <1>1, <2>1
  <2> QED BY <1>2, <2>1, <2>2 DEF Hits
<1>6. ASSUME NEW h \in Hits(J, g)
      PROVE  Len(I) + h \in Hits(K, g)
  <2>1. h \in 1..Len(J) /\ ~J[h].ctx /\ J[h].key = g
    BY DEF Hits
  <2>2. Len(I) + h \in 1..Len(K)
    BY <1>1, <2>1
  <2> QED BY <1>3, <2>1, <2>2 DEF Hits
<1>7. Hits(K, g) = Hits(I, g) \cup {Len(I) + h : h \in Hits(J, g)}
  BY <1>4, <1>5, <1>6
<1> QED BY <1>7 DEF K

(* The stages up to i count an n-gram as often as it ends among them.      *)
LEMMA StagesCount ==
    ASSUME NEW items \in Seq(Items), NEW i \in 1..Len(items),
           NEW g \in Seq(Items), Len(g) \in 1..MaxOrder,
           NEW I, I \in Seq(Act), NEW J, J = ActionsAt(items, i),
           Cardinality(Hits(I, g)) = Cardinality(Ends(items, g, i - 1))
    PROVE  Cardinality(Hits(I \o J, g)) = Cardinality(Ends(items, g, i))
<1>1. J \in Seq(Act)
  BY StageWellFormed DEF WellFormed
<1>2. PICK k : k = Len(g)
  OBVIOUS
<1>3. k \in Nat \ {0} /\ i \in Nat /\ Len(I) \in Nat /\ Len(J) \in Nat
  BY <1>1, <1>2, ModelAssumption
<1>4. PICK E : E = Ends(items, g, i - 1)
  OBVIOUS
<1>5. IsFiniteSet(E) /\ Cardinality(E) \in Nat /\ i \notin E
  <2>1. E \in SUBSET (k..(i - 1))
    BY <1>2, <1>4 DEF Ends
  <2>2. i \notin k..(i - 1)
    BY <1>3
  <2>3. k \in Int /\ i - 1 \in Int
    BY <1>3
  <2>4. IsFiniteSet(E) /\ Cardinality(E) \in Nat
    BY <2>1, <2>3, IntervalPart
  <2> QED BY <2>1, <2>2, <2>4
<1>6. PICK H : H = Hits(I, g)
  OBVIOUS
<1>7. IsFiniteSet(H) /\ Cardinality(H) \in Nat /\ H \in SUBSET (1..Len(I))
  <2>1. H \in SUBSET (1..Len(I))
    BY <1>6 DEF Hits
  <2>2. 1 \in Int /\ Len(I) \in Int
    BY <1>3
  <2>3. IsFiniteSet(H) /\ Cardinality(H) \in Nat
    BY <2>1, <2>2, IntervalPart
  <2> QED BY <2>1, <2>3
<1>8. Hits(I \o J, g) = H \cup {Len(I) + h : h \in Hits(J, g)}
  BY <1>1, <1>6, JoinedHits
<1>9. CASE k <= i /\ SubSeq(items, i - k + 1, i) = g
  <2>1. PICK h \in 1..Len(J) : Hits(J, g) = {h}
    BY <1>2, <1>9, StageHits
  <2>2. Hits(I \o J, g) = H \cup {Len(I) + h}
    BY <1>8, <2>1
  <2>3. Len(I) + h \notin H
    BY <1>3, <1>7, <2>1
  <2>4. Cardinality(H \cup {Len(I) + h}) = Cardinality(H) + 1
    BY <1>7, <2>3, FS_AddElement
  <2>5. Ends(items, g, i) = E \cup {i}
    <3>1. k..i = (k..(i - 1)) \cup {i}
      BY <1>3, <1>9
    <3> QED BY <1>2, <1>4, <1>9, <3>1 DEF Ends
  <2>6. Cardinality(E \cup {i}) = Cardinality(E) + 1
    BY <1>5, FS_AddElement
  <2> QED BY <1>4, <1>6, <2>2, <2>4, <2>5, <2>6
<1>10. CASE ~(k <= i /\ SubSeq(items, i - k + 1, i) = g)
  <2>1. Hits(J, g) = {}
    BY <1>2, <1>10, StageHits
  <2>2. Hits(I \o J, g) = H
    BY <1>8, <2>1
  <2>3. \A p : p \in k..i <=> p \in k..(i - 1) \/ (p = i /\ k <= i)
    BY <1>3
  <2>4. Ends(items, g, i) = E
    <3>1. Ends(items, g, i) = {p \in k..i : SubSeq(items, p - k + 1, p) = g}
      BY <1>2 DEF Ends
    <3>2. E = {p \in k..(i - 1) : SubSeq(items, p - k + 1, p) = g}
      BY <1>2, <1>4 DEF Ends
    <3>3. ~(k <= i) \/ SubSeq(items, i - k + 1, i) # g
      BY <1>10
    <3>4. \A p : p \in Ends(items, g, i) <=> p \in E
      BY <2>3, <3>1, <3>2, <3>3, Zenon
    <3> QED BY <3>1, <3>2, <3>4, Zenon
  <2> QED BY <1>4, <1>6, <2>2, <2>4
<1> QED BY <1>9, <1>10

(* A journal counts an n-gram as often as it occurs.                       *)
LEMMA JournalCounts ==
    ASSUME NEW items \in Seq(Items), NEW g \in Seq(Items), Len(g) \in 1..MaxOrder
    PROVE  Cardinality(Hits(Journal(items), g)) = Cardinality(Ends(items, g, Len(items)))
<1>1. Len(items) \in Nat /\ (Len(items) = 0 <=> items = <<>>)
  OBVIOUS
<1>2. PICK k : k = Len(g)
  OBVIOUS
<1>3. k \in Nat \ {0}
  BY <1>2, ModelAssumption
<1>4. Ends(items, g, 0) = {}
  <2>1. k..0 = {}
    BY <1>3
  <2> QED BY <1>2, <2>1 DEF Ends
<1>5. /\ Hits(<<>>, g) = {} /\ <<>> \in Seq(Act)
      /\ Cardinality({}) = 0
  <2>1. Len(<<>>) = 0 /\ 1..0 = {}
    OBVIOUS
  <2>2. <<>> \in Seq(Act)
    OBVIOUS
  <2>3. Hits(<<>>, g) = {}
    BY <2>1 DEF Hits
  <2> QED BY <2>2, <2>3, FS_EmptySet
<1>6. CASE items = <<>>
  <2>1. Journal(items) = <<>>
    BY <1>6, JournalParts
  <2> QED BY <1>1, <1>4, <1>5, <1>6, <2>1
<1>7. CASE items # <<>>
  <2> DEFINE S   == Stages(items)
             Good(i) == /\ Flat(S)[i] \in Seq(Act)
                        /\ Cardinality(Hits(Flat(S)[i], g))
                              = Cardinality(Ends(items, g, i))
             Bad == {i \in 1..Len(items) : ~Good(i)}
  <2>1. \A i \in 1..Len(items) :
           Flat(S)[i] = IF i = 1 THEN ActionsAt(items, i)
                        ELSE Flat(S)[i - 1] \o ActionsAt(items, i)
    <3>1. Len(S) = Len(items) /\ \A i \in 1..Len(items) : S[i] = ActionsAt(items, i)
      BY JournalParts
    <3>2. \A i \in 1..Len(S) : Flat(S)[i] = FlatStep(S, Flat(S), i)
      BY <1>1, <3>1, FlatDef
    <3> HIDE DEF S
    <3> QED BY <3>1, <3>2, Zenon DEF FlatStep
  <2> HIDE DEF S
  <2>2. Bad = {}
    <3> SUFFICES ASSUME Bad # {} PROVE FALSE
      OBVIOUS
    <3>0. Bad \in SUBSET Nat
      OBVIOUS
    <3>1. PICK i \in Bad : \A l \in Bad : i <= l
      BY <3>0, Least
    <3>2. PICK J : J = ActionsAt(items, i)
      OBVIOUS
    <3>3. i \in 1..Len(items) /\ ~Good(i)
      BY <3>1
    <3>4. J \in Seq(Act)
      BY <3>2, <3>3, StageWellFormed DEF WellFormed
    <3>5. CASE i = 1
      <4>1. Flat(S)[i] = <<>> \o J
        BY <2>1, <3>2, <3>3, <3>4, <3>5
      <4>2. Cardinality(Hits(<<>>, g)) = Cardinality(Ends(items, g, i - 1))
        <5>1. PICK l : l = i - 1
          OBVIOUS
        <5>2. l = 0
          BY <3>5, <5>1
        <5> QED BY <1>4, <1>5, <5>1, <5>2
      <4>3. PICK I : I = <<>>
        OBVIOUS
      <4>4. I \in Seq(Act) /\ Cardinality(Hits(I, g)) = Cardinality(Ends(items, g, i - 1))
        BY <1>5, <4>2, <4>3
      <4>5. Cardinality(Hits(I \o J, g)) = Cardinality(Ends(items, g, i))
        BY <3>2, <3>3, <4>4, StagesCount
      <4>6. I \o J \in Seq(Act)
        BY <3>4, <4>4
      <4> QED BY <3>3, <4>1, <4>3, <4>5, <4>6
    <3>6. CASE i # 1
      <4>1. i - 1 \in 1..Len(items) /\ i - 1 \notin Bad
        BY <3>1, <3>3, <3>6
      <4>2. PICK I : I = Flat(S)[i - 1]
        OBVIOUS
      <4>3. I \in Seq(Act) /\ Cardinality(Hits(I, g)) = Cardinality(Ends(items, g, i - 1))
        BY <4>1, <4>2
      <4>4. Cardinality(Hits(I \o J, g)) = Cardinality(Ends(items, g, i))
        BY <3>2, <3>3, <4>3, StagesCount
      <4>5. I \o J \in Seq(Act)
        BY <3>4, <4>3
      <4>6. Flat(S)[i] = I \o J
        BY <2>1, <3>2, <3>3, <3>6, <4>2
      <4> QED BY <3>3, <4>4, <4>5, <4>6
    <3> QED BY <3>5, <3>6
  <2>3. Len(items) \in 1..Len(items)
    BY <1>1, <1>7
  <2>4. Journal(items) = Flat(S)[Len(items)]
    BY <1>7, JournalParts DEF S
  <2> QED BY <2>2, <2>3, <2>4
<1> QED BY <1>6, <1>7

-------------------------------------------------------------------------------
(* What an update has learned so far.                                      *)

Fresh(m, b) == {g \in DOMAIN m.grams \ DOMAIN b.grams : Len(g) = 1}

Learning(m, t, b) ==
    /\ DOMAIN b.grams \subseteq DOMAIN m.grams
    /\ \A g \in Seq(Items) :
          CountOf(m, g) = CountOf(b, g) + Cardinality(Hits(t.applied, g))
    /\ t.unknown = Cardinality(Fresh(m, b))

LEMMA AppendHits ==
    ASSUME NEW s \in Seq(Op), NEW op \in Op, NEW g
    PROVE  /\ IsFiniteSet(Hits(s, g)) /\ Cardinality(Hits(s, g)) \in Nat
           /\ Cardinality(Hits(Append(s, op), g))
                 = Cardinality(Hits(s, g)) + (IF ~op.ctx /\ op.key = g THEN 1 ELSE 0)
<1>1. PICK n : n = Len(s)
  OBVIOUS
<1>2. PICK z : z = Append(s, op)
  OBVIOUS
<1>3. n \in Nat /\ Len(z) = n + 1 /\ z[n + 1] = op /\ \A j \in 1..n : z[j] = s[j]
  BY <1>1, <1>2
<1>4. PICK H : H = Hits(s, g)
  OBVIOUS
<1>5. IsFiniteSet(H) /\ Cardinality(H) \in Nat /\ n + 1 \notin H
  <2>1. H \in SUBSET (1..n)
    BY <1>1, <1>4 DEF Hits
  <2>2. 1 \in Int /\ n \in Int
    BY <1>3
  <2>3. IsFiniteSet(H) /\ Cardinality(H) \in Nat
    BY <2>1, <2>2, IntervalPart
  <2>4. n + 1 \notin H
    BY <1>3, <2>1
  <2> QED BY <2>3, <2>4
<1>6. CASE ~op.ctx /\ op.key = g
  <2>1. Hits(z, g) = H \cup {n + 1}
    BY <1>1, <1>3, <1>4, <1>6 DEF Hits
  <2>2. Cardinality(H \cup {n + 1}) = Cardinality(H) + 1
    BY <1>5, FS_AddElement
  <2> QED BY <1>2, <1>4, <1>5, <1>6, <2>1, <2>2
<1>7. CASE ~(~op.ctx /\ op.key = g)
  <2>1. Hits(z, g) = H
    BY <1>1, <1>3, <1>4, <1>7 DEF Hits
  <2> QED BY <1>2, <1>4, <1>5, <1>7, <2>1
<1> QED BY <1>6, <1>7

(* A round of apply learns what its operation counts.                      *)
LEMMA AppliedLearning ==
    ASSUME NEW m, IsModel(m), NEW b, IsModel(b), NEW t, t.applied \in Seq(Op),
           t.unknown \in Nat, Learning(m, t, b),
           NEW act \in Act, ~act.ctx => Len(act.key) \in 1..MaxOrder,
           NEW op \in Op, op.ctx = act.ctx, op.key = act.key,
           NEW fresh, NEW c, Raised(c, m, act, fresh),
           NEW u, u.applied = Append(t.applied, op),
           u.unknown = IF ~act.ctx /\ Len(act.key) = 1 /\ Previous(m, act) = 0
                       THEN t.unknown + 1 ELSE t.unknown
    PROVE  Learning(c, u, b)
<1>1. PICK f : f = m.grams
  OBVIOUS
<1>2. PICK key : key = act.key
  OBVIOUS
<1>3. key \in Seq(Items) /\ act.ctx \in BOOLEAN
  BY <1>2 DEF Act
<1>4. \A g : CountOf(m, g) \in Nat /\ CountOf(b, g) \in Nat
  BY CountShape, ModelAssumption
<1>5. CASE act.ctx
  <2>1. c.grams = f
    BY <1>1, <1>5 DEF Raised
  <2>2. \A g : CountOf(c, g) = CountOf(m, g)
    BY <1>1, <2>1 DEF CountOf
  <2>3. ASSUME NEW g
        PROVE  Cardinality(Hits(u.applied, g)) = Cardinality(Hits(t.applied, g))
    <3>1. ~(~op.ctx /\ op.key = g)
      BY <1>5
    <3>2. PICK n : n = Cardinality(Hits(t.applied, g))
      OBVIOUS
    <3>3. n \in Nat
      BY <3>2, AppendHits
    <3>4. PICK s : s = t.applied
      OBVIOUS
    <3>5. Cardinality(Hits(Append(s, op), g))
             = Cardinality(Hits(s, g)) + (IF ~op.ctx /\ op.key = g THEN 1 ELSE 0)
      BY <3>4, AppendHits
    <3>6. Cardinality(Hits(u.applied, g)) = n + 0
      BY <3>1, <3>2, <3>4, <3>5
    <3> QED BY <3>2, <3>3, <3>6
  <2>4. Fresh(c, b) = Fresh(m, b) /\ u.unknown = t.unknown
    BY <1>1, <1>5, <2>1 DEF Fresh
  <2> QED BY <1>1, <2>1, <2>2, <2>3, <2>4 DEF Learning
<1>6. CASE ~act.ctx
  <2>1. PICK n : n = CountOf(m, key)
    OBVIOUS
  <2>2. c.grams = Put(f, key, n + 1)
    BY <1>1, <1>2, <1>6, <2>1 DEF Raised
  <2>3. PICK p : p = c.grams
    OBVIOUS
  <2>4. /\ DOMAIN p = DOMAIN f \cup {key} /\ p[key] = n + 1
        /\ \A g \in DOMAIN f \ {key} : p[g] = f[g]
    BY <2>2, <2>3 DEF Put
  <2>5. DOMAIN b.grams \subseteq DOMAIN c.grams
    BY <1>1, <2>3, <2>4 DEF Learning
  <2>6. ASSUME NEW g \in Seq(Items)
        PROVE  CountOf(c, g) = CountOf(b, g) + Cardinality(Hits(u.applied, g))
    <3>1. /\ CountOf(m, g) = CountOf(b, g) + Cardinality(Hits(t.applied, g))
          /\ Cardinality(Hits(t.applied, g)) \in Nat
      BY AppendHits DEF Learning
    <3>2. Cardinality(Hits(u.applied, g))
             = Cardinality(Hits(t.applied, g)) + (IF key = g THEN 1 ELSE 0)
      BY <1>2, <1>6, AppendHits
    <3>3. CountOf(c, g) = CountOf(m, g) + (IF key = g THEN 1 ELSE 0)
      <4>1. CASE key = g
        BY <2>1, <2>3, <2>4, <4>1 DEF CountOf
      <4>2. CASE key # g
        <5>1. CountOf(c, g) = CountOf(m, g)
          BY <1>1, <2>3, <2>4, <4>2 DEF CountOf
        <5> QED BY <1>4, <4>2, <5>1
      <4> QED BY <4>1, <4>2
    <3> QED BY <1>4, <3>1, <3>2, <3>3
  <2>7. u.unknown = Cardinality(Fresh(c, b))
    <3>1. Previous(m, act) = n
      BY <1>2, <1>6, <2>1 DEF Previous
    <3>2. n = 0 <=> key \notin DOMAIN f
      BY <1>1, <2>1, CountShape
    <3>3. t.unknown = Cardinality(Fresh(m, b))
      BY DEF Learning
    <3>4. CASE Len(key) = 1 /\ n = 0
      <4>1. key \notin DOMAIN f /\ key \notin DOMAIN b.grams
        BY <1>1, <3>2, <3>4 DEF Learning
      <4>2. Fresh(c, b) = Fresh(m, b) \cup {key} /\ key \notin Fresh(m, b)
        BY <1>1, <2>3, <2>4, <3>4, <4>1 DEF Fresh
      <4>3. IsFiniteSet(Fresh(m, b))
        <5>1. IsFiniteSet(DOMAIN m.grams)
          BY DEF IsModel
        <5>2. Fresh(m, b) \in SUBSET (DOMAIN m.grams)
          BY DEF Fresh
        <5> QED BY <5>1, <5>2, FS_Subset
      <4>4. Cardinality(Fresh(c, b)) = Cardinality(Fresh(m, b)) + 1
        BY <4>2, <4>3, FS_AddElement
      <4>5. u.unknown = t.unknown + 1
        BY <1>2, <1>6, <3>1, <3>4
      <4> QED BY <3>3, <4>4, <4>5
    <3>5. CASE ~(Len(key) = 1 /\ n = 0)
      <4>1. u.unknown = t.unknown
        BY <1>2, <3>1, <3>5
      <4>2. Fresh(c, b) = Fresh(m, b)
        <5>1. CASE Len(key) # 1
          BY <1>1, <2>3, <2>4, <5>1 DEF Fresh
        <5>2. CASE Len(key) = 1
          <6>1. key \in DOMAIN f
            BY <3>2, <3>5, <5>2
          <6>2. DOMAIN p = DOMAIN f
            BY <2>4, <6>1
          <6> QED BY <1>1, <2>3, <6>2 DEF Fresh
        <5> QED BY <5>1, <5>2
      <4> QED BY <3>3, <4>1, <4>2
    <3> QED BY <3>4, <3>5
  <2> QED BY <2>5, <2>6, <2>7 DEF Learning
<1> QED BY <1>3, <1>5, <1>6

(* An update with nothing applied has learned nothing.                     *)
LEMMA NothingLearned ==
    ASSUME NEW b, IsModel(b), NEW t, t.applied = <<>>, t.unknown = 0
    PROVE  Learning(b, t, b)
<1>1. Len(t.applied) = 0 /\ 1..0 = {}
  OBVIOUS
<1>2. \A g : Hits(t.applied, g) = {}
  BY <1>1 DEF Hits
<1>3. Cardinality({}) = 0
  BY FS_EmptySet
<1>4. \A g : CountOf(b, g) \in Nat
  BY CountShape, ModelAssumption
<1>5. Fresh(b, b) = {}
  BY DEF Fresh
<1>6. ASSUME NEW g \in Seq(Items)
      PROVE  CountOf(b, g) = CountOf(b, g) + Cardinality(Hits(t.applied, g))
  <2>1. Cardinality(Hits(t.applied, g)) = 0
    BY <1>2, <1>3
  <2> QED BY <1>4, <2>1
<1>7. t.unknown = Cardinality(Fresh(b, b))
  BY <1>3, <1>5
<1> QED BY <1>6, <1>7 DEF Learning

(* NgramCounts has its own name for the cardinality of a set.              *)
LEMMA SameCardinality == \A S : Promise!Cardinality(S) = Cardinality(S)
BY DEF Promise!Cardinality, Cardinality

(* An update applied in full has learned the sample.                       *)
LEMMA LearnedSample ==
    ASSUME NEW m, IsModel(m), NEW b, IsModel(b), NEW t, IsTxn(t), Learning(m, t, b),
           Len(t.applied) = Len(Journal(t.items))
    PROVE  /\ m.grams = Promise!Learnt(b.grams, t.items)
           /\ t.unknown = Promise!New(b.grams, t.items)
<1>1. PICK items : items = t.items
  OBVIOUS
<1>2. PICK f : f = m.grams
  OBVIOUS
<1>3. PICK e : e = b.grams
  OBVIOUS
<1>4. PICK G : G = Promise!Grams(items)
  OBVIOUS
<1>5. items \in Seq(Items) /\ Len(items) \in Nat
  BY <1>1 DEF IsTxn
<1>6. \A g : Hits(t.applied, g) = Hits(Journal(items), g)
  BY <1>1 DEF IsTxn, Hits
<1>7. ASSUME NEW g
      PROVE  Promise!Occurrences(items, g) = Cardinality(Ends(items, g, Len(items)))
  BY SameCardinality DEF Promise!Occurrences, Ends
<1>8. ASSUME NEW g \in Seq(Items), Len(g) \in 1..MaxOrder
      PROVE  CountOf(m, g) = CountOf(b, g) + Promise!Occurrences(items, g)
  <2>1. CountOf(m, g) = CountOf(b, g) + Cardinality(Hits(Journal(items), g))
    BY <1>6 DEF Learning
  <2> QED BY <1>5, <1>7, <1>8, <2>1, JournalCounts
<1>9. G = UNION {{SubSeq(items, i - k + 1, i) :
                     k \in 1..(IF i < MaxOrder THEN i ELSE MaxOrder)} :
                 i \in 1..Len(items)}
  BY <1>4 DEF Promise!Grams, Promise!Shorter
<1>10. ASSUME NEW g \in G
       PROVE  /\ g \in Seq(Items) /\ Len(g) \in 1..MaxOrder
              /\ Ends(items, g, Len(items)) # {}
  <2>1. PICK i \in 1..Len(items) :
           g \in {SubSeq(items, i - k + 1, i) :
                     k \in 1..(IF i < MaxOrder THEN i ELSE MaxOrder)}
    BY <1>9
  <2>2. PICK k \in 1..(IF i < MaxOrder THEN i ELSE MaxOrder) :
           g = SubSeq(items, i - k + 1, i)
    BY <2>1
  <2>3. k \in 1..i /\ k \in 1..MaxOrder
    BY <1>5, <2>1, <2>2, ModelAssumption
  <2>4. g \in Seq(Items) /\ Len(g) = k
    BY <1>5, <2>2, <2>3, GramShape
  <2>5. i \in k..Len(items)
    BY <1>5, <2>3
  <2>6. i \in Ends(items, g, Len(items))
    BY <2>2, <2>4, <2>5 DEF Ends
  <2> QED BY <2>3, <2>4, <2>6
<1>11. ASSUME NEW g \in Seq(Items), Len(g) \in 1..MaxOrder,
              Ends(items, g, Len(items)) # {}
       PROVE  g \in G
  <2>1. PICK i \in Ends(items, g, Len(items)) : TRUE
    BY <1>11
  <2>2. PICK k : k = Len(g)
    OBVIOUS
  <2>3. i \in k..Len(items) /\ SubSeq(items, i - k + 1, i) = g
    BY <2>1, <2>2 DEF Ends
  <2>4. k \in 1..MaxOrder
    BY <1>11, <2>2
  <2>5. i \in 1..Len(items) /\ k \in 1..(IF i < MaxOrder THEN i ELSE MaxOrder)
    BY <1>5, <2>3, <2>4, ModelAssumption
  <2>6. g \in {SubSeq(items, i - l + 1, i) :
                   l \in 1..(IF i < MaxOrder THEN i ELSE MaxOrder)}
    BY <2>3, <2>5
  <2> QED BY <1>9, <2>5, <2>6, Zenon
<1>12. ASSUME NEW g
       PROVE  /\ IsFiniteSet(Ends(items, g, Len(items))) \/ Len(g) \notin Int
              /\ Len(g) \in Int => /\ Cardinality(Ends(items, g, Len(items))) \in Nat
                                   /\ Cardinality(Ends(items, g, Len(items))) = 0
                                         <=> Ends(items, g, Len(items)) = {}
  <2>1. SUFFICES ASSUME Len(g) \in Int
                 PROVE  /\ IsFiniteSet(Ends(items, g, Len(items)))
                        /\ Cardinality(Ends(items, g, Len(items))) \in Nat
                        /\ Cardinality(Ends(items, g, Len(items))) = 0
                              <=> Ends(items, g, Len(items)) = {}
    OBVIOUS
  <2>2. PICK E : E = Ends(items, g, Len(items))
    OBVIOUS
  <2>3. PICK k : k = Len(g)
    OBVIOUS
  <2>4. PICK l : l = Len(items)
    OBVIOUS
  <2>5. E \in SUBSET (k..l) /\ k \in Int /\ l \in Int
    BY <1>5, <2>1, <2>2, <2>3, <2>4 DEF Ends
  <2>6. IsFiniteSet(E) /\ Cardinality(E) \in Nat
    BY <2>5, IntervalPart
  <2>7. Cardinality(E) = 0 <=> E = {}
    BY <2>6, FS_EmptySet
  <2> QED BY <2>2, <2>6, <2>7
<1>13. /\ \A g \in DOMAIN f : g \in Seq(Items) /\ Len(g) \in 1..MaxOrder
       /\ \A g \in DOMAIN e : g \in Seq(Items) /\ Len(g) \in 1..MaxOrder
  BY <1>2, <1>3 DEF IsModel
<1>14. ASSUME NEW g \in Seq(Items), Len(g) \in 1..MaxOrder
       PROVE  g \in DOMAIN f <=> g \in DOMAIN e \cup G
  <2>1. PICK o : o = Promise!Occurrences(items, g)
    OBVIOUS
  <2>2. Len(g) \in Int
    OBVIOUS
  <2>3. o \in Nat /\ (o = 0 <=> g \notin G)
    <3>1. o = Cardinality(Ends(items, g, Len(items)))
      BY <1>7, <2>1
    <3>2. o \in Nat
      BY <1>12, <2>2, <3>1
    <3>3. o = 0 <=> Ends(items, g, Len(items)) = {}
      BY <1>12, <2>2, <3>1
    <3> QED BY <1>10, <1>11, <1>14, <3>2, <3>3
  <2>4. CountOf(m, g) = CountOf(b, g) + o
    BY <1>8, <1>14, <2>1
  <2>5. CountOf(m, g) \in Nat /\ CountOf(b, g) \in Nat
    BY CountShape, ModelAssumption
  <2>6. CountOf(m, g) = 0 <=> g \notin DOMAIN f
    BY <1>2, CountShape
  <2>7. CountOf(b, g) = 0 <=> g \notin DOMAIN e
    BY <1>3, CountShape
  <2> QED BY <2>3, <2>4, <2>5, <2>6, <2>7
<1>15. DOMAIN f = DOMAIN e \cup G
  BY <1>10, <1>13, <1>14
<1>16. f = Promise!Learnt(e, items)
  <2>1. ASSUME NEW g \in DOMAIN f
        PROVE  f[g] = Promise!Count(e, g) + Promise!Occurrences(items, g)
    <3>1. CountOf(m, g) = f[g]
      BY <1>2 DEF CountOf
    <3>2. CountOf(b, g) = Promise!Count(e, g)
      BY <1>3 DEF CountOf, Promise!Count
    <3>3. g \in Seq(Items) /\ Len(g) \in 1..MaxOrder
      BY <1>13
    <3> QED BY <1>8, <3>1, <3>2, <3>3
  <2>2. f = [g \in DOMAIN f |-> f[g]]
    BY <1>2 DEF IsModel
  <2>3. Promise!Learnt(e, items)
           = [g \in DOMAIN f |-> Promise!Count(e, g) + Promise!Occurrences(items, g)]
    BY <1>4, <1>15 DEF Promise!Learnt
  <2> QED BY <2>1, <2>2, <2>3
<1>17. t.unknown = Promise!New(e, items)
  <2>1. Fresh(m, b) = {g \in G \ DOMAIN e : Len(g) = 1}
    BY <1>2, <1>3, <1>15 DEF Fresh
  <2>2. t.unknown = Cardinality(Fresh(m, b))
    BY DEF Learning
  <2>3. Promise!New(e, items) = Cardinality({g \in G \ DOMAIN e : Len(g) = 1})
    BY <1>4, SameCardinality DEF Promise!New
  <2> QED BY <2>1, <2>2, <2>3
<1> QED BY <1>1, <1>2, <1>3, <1>16, <1>17

-------------------------------------------------------------------------------
(* The refinement of NgramCounts.                                          *)

Learns ==
    phase = "apply" =>
        /\ \A w \in Which : Learning(models[w], txns[w], base[w])
        /\ \E sample \in Samples : \A w \in Which : txns[w].items = sample[w]

RInv == IInv /\ Learns

LEMMA BeginLearns ==
    ASSUME IInv, NEW sample \in Samples, Begin(sample)
    PROVE  Learns'
<1>1. phase = "idle" /\ models' = models /\ base' = base
  BY DEF Begin
<1>2. txns' = [w \in Which |-> [NoTxn EXCEPT !.items = sample[w]]]
  BY DEF Begin
<1>3. ASSUME NEW w \in Which
      PROVE  /\ txns'[w].items = sample[w]
             /\ Learning(models'[w], txns'[w], base'[w])
  <2>1. PICK t : t = txns'[w]
    OBVIOUS
  <2>2. PICK items : items = sample[w]
    OBVIOUS
  <2>3. t = [items |-> items, applied |-> <<>>, unknown |-> 0]
    BY <1>2, <2>1, <2>2 DEF NoTxn
  <2>4. t.items = items /\ t.applied = <<>> /\ t.unknown = 0
    BY <2>3
  <2>5. PICK b : b = base[w]
    OBVIOUS
  <2>6. models[w] = b /\ IsModel(b)
    BY <1>1, <2>5, Idle
  <2>7. Learning(b, t, b)
    BY <2>4, <2>6, NothingLearned
  <2> QED BY <1>1, <2>1, <2>2, <2>4, <2>5, <2>6, <2>7
<1> QED BY <1>3 DEF Learns

LEMMA ApplyLearns == ASSUME RInv, Apply PROVE Learns'
<1>1. IInv /\ Learns
  BY DEF RInv
<1>2. PICK w \in Which : \E fresh, op, u : Applies(w, fresh, op, u)
  BY <1>1, ApplyShape
<1>3. PICK fresh, op, u : Applies(w, fresh, op, u)
  BY <1>2
<1>4. phase = "apply" /\ phase' = "apply" /\ base' = base
  BY <1>1, ApplyShape
<1>5. PICK t : t = txns[w]
  OBVIOUS
<1>6. PICK m : m = models[w]
  OBVIOUS
<1>7. PICK b : b = base[w]
  OBVIOUS
<1>8. Sound(m, t, b, "apply") /\ Learning(m, t, b)
  BY <1>1, <1>4, <1>5, <1>6, <1>7 DEF IInv, Learns
<1>9. IsModel(m) /\ IsModel(b) /\ IsTxn(t)
  BY <1>8, SoundModel DEF Sound
<1>10. PICK act : act = Due(t)
  OBVIOUS
<1>11. PICK c : c = Applied(m, act, fresh)
  OBVIOUS
<1>12. PICK isNew : isNew = (Previous(m, act) = 0)
  OBVIOUS
<1>13. /\ Len(t.applied) # Len(Journal(t.items))
       /\ fresh = (act.ctx /\ Last(t.applied).inserted)
       /\ op = [ctx |-> act.ctx, key |-> act.key,
                inserted |-> isNew, fresh |-> fresh]
       /\ u = [items |-> t.items, applied |-> Append(t.applied, op),
               unknown |-> IF ~act.ctx /\ Len(act.key) = 1 /\ isNew
                           THEN t.unknown + 1 ELSE t.unknown]
       /\ models' = [models EXCEPT ![w] = c]
       /\ txns' = [txns EXCEPT ![w] = u]
  BY <1>3, <1>5, <1>6, <1>10, <1>11, <1>12 DEF Applies
<1>14. /\ act \in Act /\ (~act.ctx => Len(act.key) \in 1..MaxOrder)
       /\ (act.ctx => Last(t.applied) \in Op)
  BY <1>9, <1>10, <1>13, DueShape
<1>15. op \in Op /\ op.ctx = act.ctx /\ op.key = act.key
  <2>1. act.ctx \in BOOLEAN /\ act.key \in Seq(Items)
    BY <1>14 DEF Act
  <2>2. act.ctx => Last(t.applied).inserted \in BOOLEAN
    BY <1>14 DEF Op
  <2>3. isNew \in BOOLEAN
    BY <1>12
  <2>4. fresh \in BOOLEAN
    BY <1>13, <2>1, <2>2, Zenon
  <2> QED BY <1>13, <2>1, <2>3, <2>4 DEF Op
<1>16. Raised(c, m, act, fresh)
  BY <1>9, <1>11, AppliedFields
<1>17. t.applied \in Seq(Op) /\ t.unknown \in Nat
  BY <1>9 DEF IsTxn
<1>18. /\ u.applied = Append(t.applied, op) /\ u.items = t.items
       /\ u.unknown = IF ~act.ctx /\ Len(act.key) = 1 /\ Previous(m, act) = 0
                      THEN t.unknown + 1 ELSE t.unknown
  BY <1>12, <1>13
<1>19. Learning(c, u, b)
  BY <1>8, <1>9, <1>14, <1>15, <1>16, <1>17, <1>18, AppliedLearning
<1>20. /\ models = [v \in Which |-> models[v]]
       /\ txns = [v \in Which |-> txns[v]]
  BY <1>1 DEF IInv
<1>21. ASSUME NEW v \in Which
       PROVE  /\ Learning(models'[v], txns'[v], base'[v])
              /\ txns'[v].items = txns[v].items
  <2>1. CASE v = w
    <3>1. models'[v] = c /\ txns'[v] = u
      BY <1>13, <1>20, <2>1
    <3> QED BY <1>4, <1>5, <1>7, <1>18, <1>19, <2>1, <3>1
  <2>2. CASE v # w
    <3>1. models'[v] = models[v] /\ txns'[v] = txns[v]
      BY <1>13, <1>20, <2>2
    <3> QED BY <1>1, <1>4, <3>1 DEF Learns
  <2> QED BY <2>1, <2>2
<1>22. PICK sample \in Samples : \A v \in Which : txns[v].items = sample[v]
  BY <1>1, <1>4 DEF Learns
<1>23. \A v \in Which : txns'[v].items = sample[v]
  BY <1>21, <1>22
<1> QED BY <1>21, <1>23 DEF Learns

LEMMA NextRInv == RInv /\ [Next]_vars => RInv'
<1>1. SUFFICES ASSUME RInv, [Next]_vars PROVE RInv'
  OBVIOUS
<1>2. IInv /\ Learns
  BY <1>1 DEF RInv
<1>3. IInv'
  BY <1>1, <1>2, NextIInv
<1>4. ASSUME NEW sample \in Samples, Begin(sample) PROVE Learns'
  BY <1>2, <1>4, BeginLearns
<1>5. ASSUME Apply PROVE Learns'
  BY <1>1, <1>5, ApplyLearns
<1>6. ASSUME ApplyFails \/ Undo \/ RolledBack \/ Commit PROVE Learns'
  BY <1>6 DEF ApplyFails, Undo, RolledBack, Commit, Learns
<1>7. ASSUME NEW w \in Which, NEW c, Install(w, c) PROVE Learns'
  BY <1>7 DEF Install, Learns
<1>8. ASSUME NEW w \in Which, NEW scale \in Scales, Decay(w, scale) PROVE Learns'
  BY <1>7, <1>8 DEF Decay
<1>9. ASSUME NEW w \in Which, NEW min \in MinCounts, Prune(w, min) PROVE Learns'
  BY <1>7, <1>9 DEF Prune
<1>10. ASSUME NEW w \in Which, Reset(w) PROVE Learns'
  BY <1>7, <1>10 DEF Reset
<1>11. ASSUME UNCHANGED vars PROVE Learns'
  <2>1. phase' = phase /\ models' = models /\ txns' = txns /\ base' = base
    BY <1>11 DEF vars
  <2> QED BY <1>2, <2>1 DEF Learns
<1>12. Learns'
  BY <1>1, <1>4, <1>5, <1>6, <1>8, <1>9, <1>10, <1>11 DEF Next
<1> QED BY <1>3, <1>12 DEF RInv

LEMMA InitRefines == ASSUME Init PROVE Promise!Init
<1>1. base = [w \in Which |-> Empty]
  BY DEF Init
<1>2. Empty.grams = <<>> /\ Empty.unk = 0
  BY DEF Empty
<1>3. \A w \in Which : base[w].grams = <<>> /\ base[w].unk = 0
  BY <1>1, <1>2
<1> QED BY <1>3 DEF Promise!Init

(* A commit learns the sample, in both tables.                             *)
LEMMA CommitRefines ==
    ASSUME RInv, Commit
    PROVE  \E sample \in Samples : Promise!Learn(sample)
<1>1. /\ IInv /\ Learns /\ phase = "apply" /\ base' = models'
      /\ \A w \in Which : Len(txns[w].applied) = Len(Journal(txns[w].items))
  BY DEF RInv, Commit, Finished
<1>2. PICK sample \in Samples : \A w \in Which : txns[w].items = sample[w]
  BY <1>1 DEF Learns
<1>3. ASSUME NEW w \in Which
      PROVE  /\ base'[w].grams = Promise!Learnt(base[w].grams, sample[w])
             /\ base'[w].unk = base[w].unk + Promise!New(base[w].grams, sample[w])
  <2>1. PICK m : m = models[w]
    OBVIOUS
  <2>2. PICK t : t = txns[w]
    OBVIOUS
  <2>3. PICK b : b = base[w]
    OBVIOUS
  <2>4. Sound(m, t, b, "apply") /\ Learning(m, t, b)
    BY <1>1, <2>1, <2>2, <2>3 DEF IInv, Learns
  <2>5. IsModel(m) /\ IsModel(b) /\ IsTxn(t) /\ m.unk = b.unk + t.unknown
    BY <2>4, SoundModel DEF Sound
  <2>6. Len(t.applied) = Len(Journal(t.items))
    BY <1>1, <2>2
  <2>7. /\ m.grams = Promise!Learnt(b.grams, t.items)
        /\ t.unknown = Promise!New(b.grams, t.items)
    BY <2>4, <2>5, <2>6, LearnedSample
  <2>8. base'[w].grams = m.grams /\ base'[w].unk = m.unk
    <3>1. PICK v : v = IF t.items = <<>> THEN m.vocab
                       ELSE Cardinality(Unigrams(m.grams))
      OBVIOUS
    <3>2. base'[w] = [m EXCEPT !.vocab = v]
      BY <1>1, <2>1, <2>2, <3>1 DEF Commit
    <3>3. HasFields(m)
      BY <2>5 DEF IsModel
    <3>4. [m EXCEPT !.vocab = v]
             = [grams |-> m.grams, contexts |-> m.contexts, totals |-> m.totals,
                vocab |-> v, unk |-> m.unk]
      BY <3>3 DEF HasFields
    <3> QED BY <3>2, <3>4
  <2>9. t.items = sample[w]
    BY <1>2, <2>2
  <2> QED BY <2>3, <2>5, <2>7, <2>8, <2>9
<1>4. Promise!Learn(sample)
  BY <1>3 DEF Promise!Learn
<1> QED BY <1>4

(* What a replacement of one model does to the tables.                     *)
LEMMA InstallShape ==
    ASSUME IInv, NEW w \in Which, NEW c, Install(w, c)
    PROVE  /\ models[w] = base[w]
           /\ \A v \in Which : base'[v] = IF v = w THEN c ELSE base[v]
<1>1. phase = "idle" /\ base' = models' /\ models' = [models EXCEPT ![w] = c]
  BY DEF Install
<1>2. models = [v \in Which |-> models[v]]
  BY DEF IInv
<1>3. \A v \in Which : models[v] = base[v]
  BY <1>1, Idle
<1> QED BY <1>1, <1>2, <1>3

LEMMA DecayRefines ==
    ASSUME IInv, NEW w \in Which, NEW scale \in Scales, Decay(w, scale)
    PROVE  Promise!Decay(w, scale)
<1>1. PICK m : m = models[w]
  OBVIOUS
<1>2. PICK grams : grams = [g \in {h \in DOMAIN m.grams :
                                     Scaled(m.grams[h], scale) >= 1} |->
                              Scaled(m.grams[g], scale)]
  OBVIOUS
<1>3. PICK unk : unk = Scaled(m.unk, scale)
  OBVIOUS
<1>4. PICK c : c = Rebuilt(grams, unk)
  OBVIOUS
<1>5. Install(w, c)
  BY <1>1, <1>2, <1>3, <1>4 DEF Decay
<1>6. c.grams = grams /\ c.unk = unk
  BY <1>4, RebuiltParts
<1>7. m = base[w] /\ \A v \in Which : base'[v] = IF v = w THEN c ELSE base[v]
  BY <1>1, <1>5, InstallShape
<1>8. [v \in Which |-> base'[v].grams]
         = [[v \in Which |-> base[v].grams] EXCEPT ![w] = grams]
  BY <1>6, <1>7
<1>9. [v \in Which |-> base'[v].unk]
         = [[v \in Which |-> base[v].unk] EXCEPT ![w] = unk]
  BY <1>6, <1>7
<1>10. grams = [g \in {h \in DOMAIN base[w].grams :
                         (base[w].grams[h] * scale[1]) \div scale[2] >= 1} |->
                  (base[w].grams[g] * scale[1]) \div scale[2]]
  BY <1>2, <1>7 DEF Scaled
<1>11. unk = (base[w].unk * scale[1]) \div scale[2]
  BY <1>3, <1>7 DEF Scaled
<1> QED BY <1>8, <1>9, <1>10, <1>11 DEF Promise!Decay, Promise!Keep

LEMMA PruneRefines ==
    ASSUME IInv, NEW w \in Which, NEW min \in MinCounts, Prune(w, min)
    PROVE  Promise!Prune(w, min)
<1>1. PICK m : m = models[w]
  OBVIOUS
<1>2. PICK grams : grams = [g \in {h \in DOMAIN m.grams : m.grams[h] >= min} |->
                              m.grams[g]]
  OBVIOUS
<1>3. PICK c : c = Rebuilt(grams, m.unk)
  OBVIOUS
<1>4. Install(w, c)
  BY <1>1, <1>2, <1>3 DEF Prune
<1>5. c.grams = grams /\ c.unk = m.unk
  BY <1>3, RebuiltParts
<1>6. m = base[w] /\ \A v \in Which : base'[v] = IF v = w THEN c ELSE base[v]
  BY <1>1, <1>4, InstallShape
<1>7. [v \in Which |-> base'[v].grams]
         = [[v \in Which |-> base[v].grams] EXCEPT ![w] = grams]
  BY <1>5, <1>6
<1>8. [v \in Which |-> base'[v].unk] = [v \in Which |-> base[v].unk]
  BY <1>5, <1>6
<1>9. grams = [g \in {h \in DOMAIN base[w].grams : base[w].grams[h] >= min} |->
                 base[w].grams[g]]
  BY <1>2, <1>6
<1> QED BY <1>7, <1>8, <1>9 DEF Promise!Prune, Promise!Keep

LEMMA ResetRefines ==
    ASSUME IInv, NEW w \in Which, Reset(w)
    PROVE  Promise!Reset(w)
<1>1. PICK c : c = Empty
  OBVIOUS
<1>2. c.grams = <<>> /\ c.unk = 0
  BY <1>1 DEF Empty
<1>3. Install(w, c)
  BY <1>1 DEF Reset
<1>4. \A v \in Which : base'[v] = IF v = w THEN c ELSE base[v]
  BY <1>3, InstallShape
<1>5. [v \in Which |-> base'[v].grams]
         = [[v \in Which |-> base[v].grams] EXCEPT ![w] = <<>>]
  BY <1>2, <1>4
<1>6. [v \in Which |-> base'[v].unk]
         = [[v \in Which |-> base[v].unk] EXCEPT ![w] = 0]
  BY <1>2, <1>4
<1> QED BY <1>5, <1>6 DEF Promise!Reset

(* Every step learns a whole sample in both tables, decays, prunes or      *)
(* resets one, or changes nothing.                                         *)
LEMMA NextRefines ==
    ASSUME RInv, [Next]_vars
    PROVE  [Promise!Next]_(Promise!vars)
<1>1. IInv
  BY DEF RInv
<1>2. ASSUME base' = base PROVE UNCHANGED Promise!vars
  BY <1>2 DEF Promise!vars
<1>3. ASSUME NEW sample \in Samples, Begin(sample) PROVE base' = base
  BY <1>3 DEF Begin
<1>4. CASE Apply \/ ApplyFails \/ Undo
  <2>1. base' = base
    BY <1>4 DEF Apply, ApplyFails, Undo
  <2> QED BY <1>2, <2>1
<1>5. CASE RolledBack
  <2>1. base' = models' /\ models' = base
    BY <1>1, <1>5, Restored DEF RolledBack
  <2> QED BY <1>2, <2>1
<1>6. CASE Commit
  BY <1>6, CommitRefines DEF Promise!Next
<1>7. ASSUME NEW w \in Which, NEW scale \in Scales, Decay(w, scale)
      PROVE  Promise!Next
  BY <1>1, <1>7, DecayRefines DEF Promise!Next
<1>8. ASSUME NEW w \in Which, NEW min \in MinCounts, Prune(w, min)
      PROVE  Promise!Next
  BY <1>1, <1>8, PruneRefines DEF Promise!Next
<1>9. ASSUME NEW w \in Which, Reset(w) PROVE Promise!Next
  BY <1>1, <1>9, ResetRefines DEF Promise!Next
<1>10. CASE UNCHANGED vars
  <2>1. base' = base
    BY <1>10 DEF vars
  <2> QED BY <1>2, <2>1
<1> QED
  BY <1>2, <1>3, <1>4, <1>5, <1>6, <1>7, <1>8, <1>9, <1>10 DEF Next

-------------------------------------------------------------------------------
(* The theorems.                                                           *)

(* Between the operations applied so far and the models they started from  *)
(* there is a trail of models, one operation apart: what anomaly_update_   *)
(* txn_apply and anomaly_update_txn_rollback keep true at every round.     *)
THEOREM Invariance == Spec => []IInv
BY InitIInv, NextIInv, PTL DEF Spec

(* "Applied actions have live entries" (sg_anomaly.c:782), in any journal: *)
(* an entry that rollback removes has the one count it was inserted with,  *)
(* and one that it decrements stays above zero.                            *)
THEOREM RollbackIsSafe == Spec => []RollbackSafe
<1>1. ASSUME IInv PROVE RollbackSafe
  <2>1. SUFFICES ASSUME phase = "undo", NEW w \in Which, txns[w].applied # <<>>
                 PROVE  IF Last(txns[w].applied).inserted
                        THEN Previous(models[w], Last(txns[w].applied)) = 1
                        ELSE Previous(models[w], Last(txns[w].applied)) > 1
    BY DEF RollbackSafe
  <2>2. PICK t : t = txns[w]
    OBVIOUS
  <2>3. PICK m : m = models[w]
    OBVIOUS
  <2>4. Sound(m, t, base[w], "undo")
    BY <1>1, <2>1, <2>2, <2>3 DEF IInv
  <2>5. PICK st : IsTrail(st, m, t, base[w])
    BY <2>4 DEF Sound
  <2>6. PICK n : n = Len(t.applied)
    OBVIOUS
  <2>7. n \in Nat \ {0} /\ Last(t.applied) = t.applied[n]
    <3>1. t.applied \in Seq(Op) /\ t.applied # <<>>
      BY <2>1, <2>2, <2>4 DEF Sound, IsTxn
    <3> QED BY <2>6, <3>1 DEF Last
  <2>8. n - 1 \in 0..n /\ n \in 1..n
    BY <2>7
  <2>9. IsModel(st[n - 1]) /\ IsStep(st[n - 1], m, t.applied[n])
    BY <2>5, <2>6, <2>8 DEF IsTrail
  <2>10. Agrees(m, m)
    BY DEF Agrees
  <2> QED BY <2>2, <2>3, <2>7, <2>9, <2>10, StepLeaves
<1> QED BY <1>1, Invariance, PTL

(* "Context tables and aggregate totals are derived from the four          *)
(* authoritative n-gram tables": the increments of all updates, those that *)
(* failed and were undone included, amount between calls to what           *)
(* anomaly_rebuild_derived computes, and no counter passes its limit.      *)
THEOREM TablesAreDerived == Spec => []DerivedExact
<1>1. ASSUME IInv PROVE DerivedExact
  <2>1. SUFFICES ASSUME NEW w \in Which
                 PROVE  /\ phase = "idle" =>
                              models[w] = Rebuilt(models[w].grams, models[w].unk)
                        /\ \A g \in DOMAIN models[w].grams :
                              models[w].grams[g] \in 1..MaxCount
                        /\ \A k \in 1..MaxOrder : models[w].totals[k] <= MaxTotal
                        /\ models[w].unk <= MaxTotal
    BY DEF DerivedExact
  <2>2. PICK m : m = models[w]
    OBVIOUS
  <2>3. IsModel(m)
    BY <1>1, <2>2, SoundModel DEF IInv
  <2>4. phase = "idle" => m = Rebuilt(m.grams, m.unk)
    BY <1>1, <2>2, Idle
  <2>5. m.grams \in [DOMAIN m.grams -> 1..MaxCount]
    BY <2>3 DEF IsModel
  <2>6. m.totals \in [1..MaxOrder -> 0..MaxTotal] /\ m.unk \in 0..MaxTotal
    BY <2>3 DEF IsModel
  <2>7. \A k \in 1..MaxOrder : m.totals[k] <= MaxTotal
    BY <2>6, ModelAssumption
  <2>8. m.unk <= MaxTotal
    BY <2>6, ModelAssumption
  <2> QED BY <2>2, <2>4, <2>5, <2>7, <2>8
<1> QED BY <1>1, Invariance, PTL

(* A call that fails after it touched a table leaves both models exactly   *)
(* as it found them (anomaly_update_txn_rollback).                         *)
NoTrace == phase = "undo" /\ phase' = "idle" => models' = base

THEOREM RollbackRestores == Spec => [][NoTrace]_vars
<1>1. ASSUME IInv, [Next]_vars PROVE [NoTrace]_vars
  <2>1. SUFFICES ASSUME phase = "undo", phase' = "idle" PROVE models' = base
    BY DEF NoTrace
  <2>2. phase' # phase
    BY <2>1
  <2>3. CASE RolledBack
    BY <1>1, <2>3, Restored
  <2>4. CASE ~RolledBack
    BY <1>1, <2>1, <2>2, <2>4
       DEF Next, Begin, Apply, ApplyFails, Undo, Commit, Decay, Prune, Reset,
           Install, vars
  <2> QED BY <2>3, <2>4
<1> QED BY <1>1, Invariance, PTL DEF Spec

(* A sample enters both tables, counted as often as it occurs, or neither, *)
(* whichever operation of the journal fails; decay, prune and reset act on *)
(* one table; nothing else changes a count (sg_anomaly.h).                 *)
THEOREM Refinement == Spec => ImplementsCounts
<1>1. Init => RInv
  <2>1. Init => phase # "apply"
    BY DEF Init
  <2> QED BY <2>1, InitIInv DEF RInv, Learns
<1>2. ASSUME RInv, [Next]_vars PROVE [Promise!Next]_(Promise!vars)
  BY <1>2, NextRefines
<1> QED BY <1>1, <1>2, NextRInv, InitRefines, PTL
        DEF Spec, ImplementsCounts, Promise!Spec
===============================================================================
