----------------------------- MODULE RuleFileProofs -----------------------------
(***************************************************************************)
(* The file of a policy.  Its text: whatever st_policy_save writes loads   *)
(* to the rule it was made from, nothing loads but a canonical line, and   *)
(* the readers of length-prefixed records agree at every offset, for any   *)
(* vocabulary, rules and sizes (RuleStore, NetPattern, Netstring).  Its    *)
(* replacement: an atomic output is safe for any number of names, parts,   *)
(* modes and saves, with calls failing and crashes anywhere, and the path  *)
(* is a ReplacedFile (AtomicOutput).                                       *)
(*                                                                         *)
(* No induction over sequences is at hand: a recursive function is shown   *)
(* to exist on ever longer intervals, and a property of it by way of the   *)
(* least number where it would fail (LeastNat).                            *)
(***************************************************************************)
EXTENDS RuleStore, AtomicOutput, FiniteSetTheorems, SequenceTheorems,
        WellFoundedInduction, TLAPS


-------------------------------------------------------------------------------
(* A set of natural numbers that is not empty has a least one. *)
LEMMA LeastNat ==
    ASSUME NEW T \in SUBSET Nat, T # {}
    PROVE  \E x \in T : \A y \in T : x <= y
<1> DEFINE R == OpToRel(<, Nat)
<1>1. IsWellFoundedOn(R, Nat)
  BY NatLessThanWellFounded
<1>2. \A x, y \in Nat : <<y, x>> \in R <=> y < x
  BY DEF OpToRel
<1> HIDE DEF R
<1>3. PICK x \in T : \A y \in T : ~ (<<y, x>> \in R)
  BY <1>1, WFMin
<1>4. ASSUME NEW y \in T PROVE x <= y
  <2>1. ~(y < x) /\ x \in Nat /\ y \in Nat
    BY <1>2, <1>3, Zenon
  <2> QED
    BY <2>1, SMT
<1> QED
  BY <1>4

(* And one with a bound has a greatest. *)
LEMMA GreatestNat ==
    ASSUME NEW n \in Nat, NEW T \in SUBSET (0..n), T # {}
    PROVE  Max(T) \in T /\ \A y \in T : y <= Max(T)
<1> DEFINE U == {n - x : x \in T}
<1>1. U \in SUBSET Nat /\ U # {}
  <2>1. \A x \in T : n - x \in Nat
    OBVIOUS
  <2> QED BY <2>1
<1>2. PICK u \in U : \A v \in U : u <= v
  <2> HIDE DEF U
  <2> QED BY <1>1, LeastNat
<1>3. PICK x \in T : u = n - x
  BY <1>2
<1>4. \A y \in T : y <= x
  <2>1. \A y \in T : u <= n - y
    BY <1>2
  <2> QED BY <1>3, <2>1
<1>5. \E z \in T : \A y \in T : z >= y
  BY <1>4
<1>6. Max(T) \in T /\ \A y \in T : Max(T) >= y
  BY <1>5, Zenon DEF Max
<1> QED BY <1>6

-------------------------------------------------------------------------------
(* Decimal numbers                                                         *)

DigitSet == {"0", "1", "2", "3", "4", "5", "6", "7", "8", "9"}

LEMMA DigitsTyped ==
    /\ ToSet(Digits) = DigitSet
    /\ \A v \in 0..9 : Digits[v + 1] \in DigitSet
    /\ \A d \in DigitSet : \E v \in 0..9 : Digits[v + 1] = d
    /\ \A v, w \in 0..9 : Digits[v + 1] = Digits[w + 1] => v = w
<1>1. DOMAIN Digits = 1..10
  BY DEF Digits
<1>2. /\ Digits[1] = "0" /\ Digits[2] = "1" /\ Digits[3] = "2" /\ Digits[4] = "3"
      /\ Digits[5] = "4" /\ Digits[6] = "5" /\ Digits[7] = "6" /\ Digits[8] = "7"
      /\ Digits[9] = "8" /\ Digits[10] = "9"
  BY DEF Digits
<1>3. \A v \in 0..9 : v \in {0, 1, 2, 3, 4, 5, 6, 7, 8, 9}
  OBVIOUS
<1>4. \A v \in 0..9 : Digits[v + 1] \in DigitSet
  BY <1>2, <1>3 DEF DigitSet
<1>5. \A d \in DigitSet : \E v \in 0..9 : Digits[v + 1] = d
  BY <1>2 DEF DigitSet
<1>6. \A v, w \in 0..9 : Digits[v + 1] = Digits[w + 1] => v = w
  BY <1>2, <1>3
<1>7. ToSet(Digits) = DigitSet
  <2>1. ToSet(Digits) = {Digits[i] : i \in 1..10}
    BY <1>1 DEF ToSet
  <2>2. \A i \in 1..10 : i - 1 \in 0..9 /\ i = (i - 1) + 1
    OBVIOUS
  <2>3. \A v \in 0..9 : v + 1 \in 1..10
    OBVIOUS
  <2> QED BY <1>4, <1>5, <2>1, <2>2, <2>3
<1> QED BY <1>4, <1>5, <1>6, <1>7

LEMMA ValueTyped ==
    /\ \A d \in DigitSet : Value(d) \in 0..9 /\ Digits[Value(d) + 1] = d
    /\ \A v \in 0..9 : Value(Digits[v + 1]) = v
<1>1. ASSUME NEW d \in DigitSet PROVE Value(d) \in 0..9 /\ Digits[Value(d) + 1] = d
  <2>1. \E v \in 0..9 : Digits[v + 1] = d
    BY DigitsTyped
  <2> QED BY <2>1, Zenon DEF Value
<1>2. ASSUME NEW v \in 0..9 PROVE Value(Digits[v + 1]) = v
  <2> PICK d : d = Digits[v + 1]
    OBVIOUS
  <2>1. d \in DigitSet
    BY DigitsTyped
  <2>2. Value(d) \in 0..9 /\ Digits[Value(d) + 1] = Digits[v + 1]
    BY <1>1, <2>1
  <2>3. Value(d) = v
    BY <2>2, DigitsTyped
  <2> QED BY <2>3
<1> QED BY <1>1, <1>2

DecimalStep(g, n) ==
    (IF n < 10 THEN <<>> ELSE g[n \div 10]) \o <<Digits[(n % 10) + 1]>>

LEMMA Tenth == \A n \in Nat : /\ n \div 10 \in Nat /\ n % 10 \in 0..9
                              /\ 10 * (n \div 10) + (n % 10) = n
                              /\ n >= 10 => n \div 10 # 0
                              /\ n # 0 => n \div 10 < n
<1> SUFFICES ASSUME NEW n \in Nat
             PROVE  /\ n \div 10 \in Nat /\ n % 10 \in 0..9
                    /\ 10 * (n \div 10) + (n % 10) = n
                    /\ n >= 10 => n \div 10 # 0
                    /\ n # 0 => n \div 10 < n
  OBVIOUS
<1>1. n \div 10 \in Nat /\ n % 10 \in 0..9
  OBVIOUS
<1>2. n % 10 = n - 10 * (n \div 10)
  OBVIOUS
<1> PICK q : q = n \div 10
  OBVIOUS
<1> PICK r : r = n % 10
  OBVIOUS
<1>3. q \in Nat /\ r \in 0..9 /\ r = n - 10 * q
  BY <1>1, <1>2
<1>4. 10 * q + r = n /\ (n >= 10 => q # 0) /\ (n # 0 => q < n)
  BY <1>3
<1> QED BY <1>1, <1>4

Tabled(g, n) == g = [m \in 0..n |-> DecimalStep(g, m)]

LEMMA DecimalUpto == \A n \in Nat : \E g : Tabled(g, n)
<1> DEFINE Bad == {n \in Nat : ~ \E g : Tabled(g, n)}
<1> SUFFICES ASSUME Bad # {} PROVE FALSE
  OBVIOUS
<1>1. PICK n \in Bad : \A m \in Bad : n <= m
  <2>1. Bad \in SUBSET Nat
    OBVIOUS
  <2> HIDE DEF Bad
  <2> QED BY <2>1, LeastNat
<1>2. PICK g : n # 0 => Tabled(g, n - 1)
  <2>1. CASE n = 0
    BY <2>1
  <2>2. CASE n # 0
    <3>1. n - 1 \in Nat /\ n - 1 \notin Bad
      BY <1>1, <2>2
    <3> QED BY <3>1
  <2> QED BY <2>1, <2>2
<1> DEFINE h == [m \in 0..n |-> DecimalStep(g, m)]
<1>3. ASSUME NEW m \in 0..n PROVE DecimalStep(g, m) = DecimalStep(h, m)
  <2>1. CASE m < 10
    BY <2>1 DEF DecimalStep
  <2>2. CASE m >= 10
    <3>1. n # 0 /\ m \div 10 \in 0..(n - 1) /\ m \div 10 \in 0..n /\ n \in Nat
      BY <1>1, <2>2, Tenth
    <3>2. g[m \div 10] = DecimalStep(g, m \div 10)
      BY <1>2, <3>1 DEF Tabled
    <3>3. h[m \div 10] = DecimalStep(g, m \div 10)
      BY <3>1
    <3> HIDE DEF h
    <3> QED BY <3>2, <3>3 DEF DecimalStep
  <2> QED BY <1>1, <2>1, <2>2
<1>4. h = [m \in 0..n |-> DecimalStep(h, m)]
  BY <1>3
<1> HIDE DEF h
<1>5. Tabled(h, n)
  BY <1>4, Zenon DEF Tabled
<1> QED BY <1>1, <1>5

(* Two such tables agree. *)
LEMMA TablesAgree ==
    ASSUME NEW a \in Nat, NEW b \in Nat, NEW g, NEW h, Tabled(g, a), Tabled(h, b)
    PROVE  \A m \in Nat : m <= a /\ m <= b => g[m] = h[m]
<1> DEFINE Bad == {m \in Nat : m <= a /\ m <= b /\ g[m] # h[m]}
<1> SUFFICES ASSUME Bad # {} PROVE FALSE
  OBVIOUS
<1>1. PICK m \in Bad : \A k \in Bad : m <= k
  <2>1. Bad \in SUBSET Nat
    OBVIOUS
  <2> HIDE DEF Bad
  <2> QED BY <2>1, LeastNat
<1>2. m \in Nat /\ m \in 0..a /\ m \in 0..b /\ g[m] # h[m]
  BY <1>1
<1>3. g[m] = DecimalStep(g, m) /\ h[m] = DecimalStep(h, m)
  BY <1>2 DEF Tabled
<1>4. m >= 10 => g[m \div 10] = h[m \div 10]
  <2> SUFFICES ASSUME m >= 10 PROVE g[m \div 10] = h[m \div 10]
    OBVIOUS
  <2>1. m \div 10 \in Nat /\ m \div 10 < m
    BY <1>2, Tenth
  <2>2. m \div 10 \notin Bad
    BY <1>1, <1>2, <2>1
  <2> QED BY <1>2, <2>1, <2>2
<1>5. DecimalStep(g, m) = DecimalStep(h, m)
  <2>1. CASE m < 10
    BY <2>1 DEF DecimalStep
  <2>2. CASE ~(m < 10)
    <3>1. g[m \div 10] = h[m \div 10]
      BY <1>2, <1>4, <2>2
    <3> QED BY <2>2, <3>1, Zenon DEF DecimalStep
  <2> QED BY <2>1, <2>2
<1> QED BY <1>2, <1>3, <1>5

(* Decimal is the function its definition describes. *)
LEMMA DecimalFunction == Decimal = [n \in Nat |-> DecimalStep(Decimal, n)]
<1> DEFINE G(n) == CHOOSE g : Tabled(g, n)
           f    == [n \in Nat |-> G(n)[n]]
<1>1. \A n \in Nat : Tabled(G(n), n)
  BY DecimalUpto, Zenon
<1> HIDE DEF G
<1>2. ASSUME NEW n \in Nat PROVE f[n] = DecimalStep(f, n)
  <2>1. n \in 0..n
    OBVIOUS
  <2>2. G(n)[n] = DecimalStep(G(n), n)
    BY <1>1, <2>1 DEF Tabled
  <2>3. n >= 10 => G(n)[n \div 10] = G(n \div 10)[n \div 10]
    <3>1. n \div 10 \in Nat /\ n \div 10 <= n
      BY Tenth
    <3> QED BY <1>1, <3>1, TablesAgree
  <2>4. n \div 10 \in Nat
    BY Tenth
  <2>5. f[n] = G(n)[n] /\ f[n \div 10] = G(n \div 10)[n \div 10]
    BY <2>4
  <2> HIDE DEF f
  <2>6. CASE n < 10
    BY <2>2, <2>5, <2>6 DEF DecimalStep
  <2>7. CASE ~(n < 10)
    <3>1. G(n)[n \div 10] = f[n \div 10]
      BY <2>3, <2>5, <2>7
    <3> QED BY <2>2, <2>5, <2>7, <3>1, Zenon DEF DecimalStep
  <2> QED BY <2>6, <2>7
<1>3. f = [n \in Nat |-> DecimalStep(f, n)]
  BY <1>2
<1> HIDE DEF f
<1>4. \E g : g = [n \in Nat |-> DecimalStep(g, n)]
  BY <1>3, Zenon
<1> QED BY <1>4, Zenon DEF Decimal, DecimalStep

LEMMA DecimalDef == \A n \in Nat : Decimal[n] = DecimalStep(Decimal, n)
<1> DEFINE g == Decimal
<1>1. g = [n \in Nat |-> DecimalStep(g, n)]
  BY DecimalFunction, Zenon
<1> HIDE DEF g
<1>2. \A n \in Nat : g[n] = DecimalStep(g, n)
  BY <1>1, Zenon
<1> QED BY <1>2 DEF g

(* What the digits of a number are. *)
LEMMA DecimalSmall ==
    ASSUME NEW n \in 0..9
    PROVE  Decimal[n] = <<Digits[n + 1]>> /\ Digits[n + 1] \in DigitSet
<1>1. n \in Nat /\ n < 10 /\ n % 10 = n
  OBVIOUS
<1>2. Decimal[n] = DecimalStep(Decimal, n)
  BY <1>1, DecimalDef
<1> PICK d : d = Digits[n + 1]
  OBVIOUS
<1>3. Decimal[n] = <<>> \o <<d>>
  BY <1>1, <1>2 DEF DecimalStep
<1>4. d \in DigitSet
  BY DigitsTyped
<1>5. <<>> \o <<d>> = <<d>>
  BY <1>4
<1> QED BY <1>3, <1>4, <1>5

LEMMA DecimalLarge ==
    ASSUME NEW n \in Nat, n >= 10
    PROVE  Decimal[n] = Decimal[n \div 10] \o <<Digits[(n % 10) + 1]>>
<1>1. Decimal[n] = DecimalStep(Decimal, n) /\ ~(n < 10)
  BY DecimalDef
<1> QED BY <1>1, Zenon DEF DecimalStep

Numeral(d, n) ==
    /\ d \in Seq(DigitSet) /\ Len(d) > 0
    /\ d[1] = "0" => n = 0
    /\ n < 10 => Len(d) = 1

(* A numeral has digits only and no leading zero. *)
LEMMA DecimalShape == \A n \in Nat : Numeral(Decimal[n], n)
<1> DEFINE Bad == {n \in Nat : ~ Numeral(Decimal[n], n)}
<1> SUFFICES ASSUME Bad # {} PROVE FALSE
  OBVIOUS
<1>1. PICK n \in Bad : \A m \in Bad : n <= m
  <2>1. Bad \in SUBSET Nat
    OBVIOUS
  <2> HIDE DEF Bad
  <2> QED BY <2>1, LeastNat
<1>2. n \in Nat /\ ~Numeral(Decimal[n], n)
  BY <1>1
<1>3. CASE n < 10
  <2>1. n \in 0..9
    BY <1>2, <1>3
  <2> PICK d : d = Digits[n + 1]
    OBVIOUS
  <2>2. Decimal[n] = <<d>> /\ d \in DigitSet
    BY <2>1, DecimalSmall
  <2>3. d = "0" => n = 0
    <3>1. PICK z \in 0..9 : z = 0
      OBVIOUS
    <3>2. Digits[z + 1] = "0"
      BY <3>1 DEF Digits
    <3> QED BY <2>1, <3>1, <3>2, DigitsTyped
  <2>4. Numeral(<<d>>, n)
    BY <2>2, <2>3 DEF Numeral
  <2> QED BY <1>2, <2>2, <2>4
<1>4. CASE n >= 10
  <2> PICK q : q = n \div 10
    OBVIOUS
  <2> PICK x : x = Digits[(n % 10) + 1]
    OBVIOUS
  <2>1. q \in Nat /\ q < n /\ q # 0
    BY <1>2, <1>4, Tenth
  <2>2. Numeral(Decimal[q], q)
    BY <1>1, <1>2, <2>1
  <2>3. x \in DigitSet
    BY <1>2, Tenth, DigitsTyped
  <2> PICK d : d = Decimal[q]
    OBVIOUS
  <2>4. Decimal[n] = d \o <<x>>
    BY <1>2, <1>4, DecimalLarge
  <2>5. d \in Seq(DigitSet) /\ Len(d) > 0 /\ d[1] # "0"
    BY <2>1, <2>2 DEF Numeral
  <2>6. d \o <<x>> \in Seq(DigitSet) /\ Len(d \o <<x>>) > 0 /\ (d \o <<x>>)[1] = d[1]
    BY <2>3, <2>5
  <2>7. Numeral(d \o <<x>>, n)
    BY <1>4, <2>5, <2>6 DEF Numeral
  <2> QED BY <1>2, <2>4, <2>7
<1> QED BY <1>2, <1>3, <1>4

LEMMA DecimalTyped ==
    ASSUME NEW n \in Nat
    PROVE  /\ Decimal[n] \in Seq(DigitSet) /\ Len(Decimal[n]) \in Nat \ {0}
           /\ Decimal[n] \in Seq(Bytes)
<1>1. Decimal[n] \in Seq(DigitSet) /\ Len(Decimal[n]) > 0
  BY DecimalShape DEF Numeral
<1>2. DigitSet \subseteq Bytes
  BY BytesAssumption, DigitsTyped
<1> QED BY <1>1, <1>2, SeqMonotonic

-------------------------------------------------------------------------------
(* Reading a number, digit by digit                                        *)

SizeStep(size, digit) ==
    IF size = Overflow \/ size > (SizeMax - Value(digit)) \div 10
    THEN Overflow ELSE size * 10 + Value(digit)

FoldStep(digits, g, s) ==
    IF s = {} THEN 0 ELSE SizeStep(g[s \ {Max(s)}], digits[Max(s)])

Below(n, k) == {s \in SUBSET (1..n) : \A i \in s : i <= k}

LEMMA FoldUpto ==
    ASSUME NEW digits, NEW n \in Nat
    PROVE  \A k \in Nat : \E g : g = [s \in Below(n, k) |-> FoldStep(digits, g, s)]
<1> DEFINE Bad == {k \in Nat : ~ \E g : g = [s \in Below(n, k) |-> FoldStep(digits, g, s)]}
<1> SUFFICES ASSUME Bad # {} PROVE FALSE
  OBVIOUS
<1>1. PICK k \in Bad : \A j \in Bad : k <= j
  <2>1. Bad \in SUBSET Nat
    OBVIOUS
  <2> HIDE DEF Bad
  <2> QED BY <2>1, LeastNat
<1>2. PICK g : k # 0 => g = [s \in Below(n, k - 1) |-> FoldStep(digits, g, s)]
  <2>1. CASE k = 0
    BY <2>1
  <2>2. CASE k # 0
    <3>1. k - 1 \in Nat /\ k - 1 \notin Bad
      BY <1>1, <2>2
    <3> QED BY <3>1
  <2> QED BY <2>1, <2>2
<1> DEFINE h == [s \in Below(n, k) |-> FoldStep(digits, g, s)]
<1>3. ASSUME NEW s \in Below(n, k) PROVE FoldStep(digits, g, s) = FoldStep(digits, h, s)
  <2>1. CASE s = {}
    BY <2>1 DEF FoldStep
  <2>2. CASE s # {}
    <3> PICK x : x = Max(s)
      OBVIOUS
    <3>1. s \in SUBSET (1..n) /\ \A i \in s : i <= k
      BY DEF Below
    <3>2. x \in s /\ \A i \in s : i <= x
      <4>1. s \in SUBSET (0..n)
        BY <3>1
      <4> QED BY <2>2, <4>1, GreatestNat
    <3>3. k # 0 /\ k - 1 \in Nat /\ s \ {x} \in Below(n, k - 1) /\ s \ {x} \in Below(n, k)
      <4>1. x \in 1..n /\ x <= k /\ k \in Nat
        BY <1>1, <3>1, <3>2
      <4>2. \A i \in s \ {x} : i <= k - 1 /\ i <= k
        BY <3>1, <3>2, <4>1
      <4>3. s \ {x} \in SUBSET (1..n)
        BY <3>1
      <4> QED BY <4>1, <4>2, <4>3 DEF Below
    <3>4. g[s \ {x}] = h[s \ {x}]
      BY <1>2, <3>3
    <3> HIDE DEF h
    <3> QED BY <2>2, <3>4 DEF FoldStep
  <2> QED BY <2>1, <2>2
<1>4. h = [s \in Below(n, k) |-> FoldStep(digits, h, s)]
  BY <1>3
<1> HIDE DEF h
<1> QED BY <1>1, <1>4

Folded(digits, g, n) == g = [s \in SUBSET (1..n) |-> FoldStep(digits, g, s)]

LEMMA FoldExists ==
    ASSUME NEW digits, NEW n \in Nat
    PROVE  \E g : Folded(digits, g, n)
<1>1. Below(n, n) = SUBSET (1..n)
  BY DEF Below
<1>2. \E g : g = [s \in Below(n, n) |-> FoldStep(digits, g, s)]
  BY FoldUpto
<1> QED BY <1>1, <1>2, Zenon DEF Folded

(* SizeOf folds the digits from the left. *)
LEMMA SizeOfFold ==
    ASSUME NEW S, NEW digits \in Seq(S)
    PROVE  \E g : Folded(digits, g, Len(digits)) /\ SizeOf(digits) = g[1..Len(digits)]
<1> DEFINE g == CHOOSE g : g = [s \in SUBSET (DOMAIN digits) |-> FoldStep(digits, g, s)]
<1>1. DOMAIN digits = 1..Len(digits) /\ Len(digits) \in Nat
  OBVIOUS
<1>2. \E h : h = [s \in SUBSET (DOMAIN digits) |-> FoldStep(digits, h, s)]
  <2>1. \E h : Folded(digits, h, Len(digits))
    BY <1>1, FoldExists
  <2> QED BY <1>1, <2>1, Zenon DEF Folded
<1>3. g = [s \in SUBSET (DOMAIN digits) |-> FoldStep(digits, g, s)]
  BY <1>2, Zenon
<1>4. SizeOf(digits) = g[DOMAIN digits]
  BY Zenon DEF SizeOf, FoldLeft, MapThenFoldSet, FoldStep, SizeStep
<1> HIDE DEF g
<1>5. Folded(digits, g, Len(digits)) /\ SizeOf(digits) = g[1..Len(digits)]
  BY <1>1, <1>3, <1>4, Zenon DEF Folded
<1> QED BY <1>5

(* On 1..k the fold has taken in the first k digits. *)
LEMMA FoldPrefix ==
    ASSUME NEW digits, NEW g, NEW n \in Nat, Folded(digits, g, n)
    PROVE  /\ g[1..0] = 0
           /\ \A k \in 1..n : g[1..k] = SizeStep(g[1..(k - 1)], digits[k])
<1>1. \A s \in SUBSET (1..n) : g[s] = FoldStep(digits, g, s)
  BY DEF Folded
<1>2. g[1..0] = 0
  <2>1. 1..0 = {} /\ {} \in SUBSET (1..n)
    OBVIOUS
  <2> QED BY <1>1, <2>1 DEF FoldStep
<1>3. ASSUME NEW k \in 1..n PROVE g[1..k] = SizeStep(g[1..(k - 1)], digits[k])
  <2>1. 1..k \in SUBSET (1..n) /\ 1..k # {} /\ 1..k \in SUBSET (0..n) /\ k \in 1..k
    OBVIOUS
  <2>2. Max(1..k) \in 1..k /\ \A y \in 1..k : y <= Max(1..k)
    BY <2>1, GreatestNat
  <2>3. Max(1..k) = k
    BY <2>1, <2>2
  <2>4. (1..k) \ {k} = 1..(k - 1)
    OBVIOUS
  <2>5. g[1..k] = FoldStep(digits, g, 1..k)
    BY <1>1, <2>1
  <2> QED BY <2>1, <2>3, <2>4, <2>5 DEF FoldStep
<1> QED BY <1>2, <1>3

LEMMA SizeOfEmpty == SizeOf(<<>>) = 0
<1>1. <<>> \in Seq(STRING) /\ Len(<<>>) = 0
  OBVIOUS
<1>2. PICK g : Folded(<<>>, g, 0) /\ SizeOf(<<>>) = g[1..0]
  BY <1>1, SizeOfFold
<1> QED BY <1>2, FoldPrefix

LEMMA SizeOfSnoc ==
    ASSUME NEW S, NEW digits \in Seq(S), NEW x \in S
    PROVE  SizeOf(digits \o <<x>>) = SizeStep(SizeOf(digits), x)
<1>a. PICK long : long = digits \o <<x>>
  OBVIOUS
<1>b. PICK n : n = Len(digits)
  OBVIOUS
<1>1. /\ n \in Nat /\ long \in Seq(S) /\ Len(long) = n + 1 /\ long[n + 1] = x
      /\ \A i \in 1..n : long[i] = digits[i]
  BY <1>a, <1>b
<1>2. PICK g : Folded(digits, g, n) /\ SizeOf(digits) = g[1..n]
  BY <1>b, SizeOfFold
<1>c. PICK m : m = n + 1
  OBVIOUS
<1>0. m \in Nat /\ m \in 1..m /\ m - 1 = n /\ Len(long) = m /\ long[m] = x
         /\ \A k \in 0..n : k # 0 => k \in 1..m
  BY <1>1, <1>c
<1>3. PICK h : Folded(long, h, m) /\ SizeOf(long) = h[1..m]
  BY <1>0, <1>1, SizeOfFold
<1>4. \A k \in 0..n : g[1..k] = h[1..k]
  <2> DEFINE Bad == {k \in 0..n : g[1..k] # h[1..k]}
  <2> SUFFICES ASSUME Bad # {} PROVE FALSE
    OBVIOUS
  <2>1. PICK k \in Bad : \A j \in Bad : k <= j
    <3>1. Bad \in SUBSET Nat
      BY <1>1
    <3> HIDE DEF Bad
    <3> QED BY <3>1, LeastNat
  <2>2. k \in 0..n /\ g[1..k] # h[1..k]
    BY <2>1
  <2>3. k # 0
    BY <1>0, <1>1, <1>2, <1>3, <2>2, FoldPrefix
  <2>4. k \in 1..n /\ k \in 1..m /\ k - 1 \in 0..n /\ k - 1 \notin Bad
    <3>0. k \in 0..n
      BY <2>2
    <3>1. k \in 1..n /\ k \in 1..m /\ k - 1 \in 0..n /\ ~(k <= k - 1)
      BY ONLY <1>0, <1>1, <2>3, <3>0
    <3> HIDE DEF Bad
    <3> QED BY <2>1, <3>1, Zenon
  <2>5. g[1..(k - 1)] = h[1..(k - 1)] /\ digits[k] = long[k]
    BY <1>1, <2>4
  <2>6. g[1..k] = SizeStep(g[1..(k - 1)], digits[k])
    BY <1>1, <1>2, <2>4, FoldPrefix
  <2>7. h[1..k] = SizeStep(h[1..(k - 1)], long[k])
    BY <1>0, <1>3, <2>4, FoldPrefix
  <2> QED BY <2>2, <2>5, <2>6, <2>7
<1>5. h[1..m] = SizeStep(h[1..n], x)
  BY <1>0, <1>3, FoldPrefix
<1>6. n \in 0..n
  BY <1>1
<1> QED BY <1>a, <1>2, <1>3, <1>4, <1>5, <1>6

(* A size within SIZE_MAX reads back, and no other run of digits without a  *)
(* leading zero is read as it.                                             *)
LEMMA SizeStepFits ==
    ASSUME NEW q \in Nat, NEW v \in 0..9, NEW x, Value(x) = v
    PROVE  /\ 10 * q + v <= SizeMax => SizeStep(q, x) = 10 * q + v
           /\ 10 * q + v > SizeMax => SizeStep(q, x) = Overflow
<1>1. SizeMax \in Nat /\ q # Overflow
  BY SizeAssumption DEF Overflow
<1>2. SizeMax >= v => /\ (SizeMax - v) \div 10 \in Nat
                      /\ 10 * ((SizeMax - v) \div 10) <= SizeMax - v
                      /\ SizeMax - v < 10 * ((SizeMax - v) \div 10) + 10
  <2>1. SizeMax >= v => SizeMax - v \in Nat
    BY <1>1
  <2> QED BY <2>1, Tenth
<1>3. SizeMax < v => (SizeMax - v) \div 10 < 0
  BY <1>1
<1> PICK k : k = (SizeMax - v) \div 10
  OBVIOUS
<1>4. k \in Int
  BY <1>1
<1>5. SizeStep(q, x) = IF q > k THEN Overflow ELSE q * 10 + v
  BY <1>1 DEF SizeStep
<1>6. 10 * q + v <= SizeMax => ~(q > k)
  BY <1>1, <1>2, <1>3, <1>4
<1>7. 10 * q + v > SizeMax => q > k
  BY <1>1, <1>2, <1>3, <1>4
<1> QED BY <1>5, <1>6, <1>7

(* The digits of a number are read as that number. *)
LEMMA SizeOfDecimal == \A n \in 0..SizeMax : SizeOf(Decimal[n]) = n
<1> DEFINE Bad == {n \in 0..SizeMax : SizeOf(Decimal[n]) # n}
<1> SUFFICES ASSUME Bad # {} PROVE FALSE
  OBVIOUS
<1>1. PICK n \in Bad : \A m \in Bad : n <= m
  <2>1. Bad \in SUBSET Nat
    BY SizeAssumption
  <2> HIDE DEF Bad
  <2> QED BY <2>1, LeastNat
<1>2. n \in Nat /\ n <= SizeMax /\ n \in 0..SizeMax /\ SizeOf(Decimal[n]) # n
  BY <1>1, SizeAssumption
<1>3. CASE n < 10
  <2>1. n \in 0..9
    BY <1>2, <1>3
  <2> PICK x : x = Digits[n + 1]
    OBVIOUS
  <2>2. Decimal[n] = <<x>> /\ x \in DigitSet /\ Value(x) = n
    BY <2>1, DecimalSmall, ValueTyped
  <2>3. <<>> \in Seq(DigitSet) /\ <<>> \o <<x>> = <<x>>
    BY <2>2
  <2>4. SizeOf(<<x>>) = SizeStep(0, x)
    BY <2>2, <2>3, SizeOfSnoc, SizeOfEmpty
  <2>5. SizeStep(0, x) = n
    <3>1. 10 * 0 + n <= SizeMax => SizeStep(0, x) = 10 * 0 + n
      BY <2>1, <2>2, SizeStepFits
    <3> QED BY <1>2, <3>1
  <2> QED BY <1>2, <2>2, <2>4, <2>5
<1>4. CASE n >= 10
  <2> PICK q : q = n \div 10
    OBVIOUS
  <2> PICK r : r = n % 10
    OBVIOUS
  <2> PICK x : x = Digits[r + 1]
    OBVIOUS
  <2>1. q \in Nat /\ r \in 0..9 /\ 10 * q + r = n /\ q < n
    BY <1>2, <1>4, Tenth
  <2>2. SizeOf(Decimal[q]) = q
    <3>1. q \in 0..SizeMax /\ q \notin Bad
      BY <1>1, <1>2, <2>1, SizeAssumption
    <3> QED BY <3>1
  <2>3. Decimal[n] = Decimal[q] \o <<x>>
    BY <1>2, <1>4, DecimalLarge
  <2>4. x \in DigitSet /\ Value(x) = r
    BY <2>1, DigitsTyped, ValueTyped
  <2>5. SizeOf(Decimal[n]) = SizeStep(q, x)
    BY <2>1, <2>2, <2>3, <2>4, DecimalTyped, SizeOfSnoc
  <2>6. SizeStep(q, x) = 10 * q + r
    BY <1>2, <2>1, <2>4, SizeStepFits
  <2> QED BY <1>2, <2>1, <2>5, <2>6
<1> QED BY <1>2, <1>3, <1>4

LEMMA Recomposed ==
    \A n, q \in Nat : \A r \in 0..9 :
        n = 10 * q + r => n \div 10 = q /\ n % 10 = r /\ (q # 0 => n >= 10)
OBVIOUS

Spelled(d) ==
    SizeOf(d) # Overflow => SizeOf(d) \in 0..SizeMax /\ Decimal[SizeOf(d)] = d

(* Digits without a leading zero are the numeral of what they spell. *)
LEMMA SizeOfCanonical ==
    \A d \in Seq(DigitSet) : ~NonCanonical(d) => Spelled(d)
<1> DEFINE Good(n) == \A d \in Seq(DigitSet) : Len(d) = n /\ ~NonCanonical(d) => Spelled(d)
           Bad == {n \in Nat : ~Good(n)}
<1>1. Bad = {}
  <2> SUFFICES ASSUME Bad # {} PROVE FALSE
    OBVIOUS
  <2>1. PICK n \in Bad : \A m \in Bad : n <= m
    <3>1. Bad \in SUBSET Nat
      OBVIOUS
    <3> HIDE DEF Bad
    <3> QED BY <3>1, LeastNat
  <2>2. PICK d \in Seq(DigitSet) : Len(d) = n /\ ~NonCanonical(d) /\ ~Spelled(d)
    BY <2>1
  <2>3. d # <<>> /\ n \in Nat
    BY <2>1, <2>2 DEF NonCanonical
  <2>4. PICK e \in Seq(DigitSet), x \in DigitSet : d = Append(e, x)
    BY <2>2, <2>3, SequenceEmptyOrAppend
  <2>5. /\ d = e \o <<x>> /\ Len(e) + 1 = n /\ Len(e) \in Nat
        /\ Len(e) # 0 => d[1] = e[1]
    <3>1. d = e \o <<x>>
      BY <2>4, AppendIsConcat
    <3>2. Len(Append(e, x)) = Len(e) + 1 /\ Len(e) \in Nat
      OBVIOUS
    <3>3. Len(e) # 0 => Append(e, x)[1] = e[1]
      OBVIOUS
    <3> QED BY <2>2, <2>4, <3>1, <3>2, <3>3
  <2>v. PICK v : v = Value(x)
    OBVIOUS
  <2>6. v \in 0..9 /\ Digits[v + 1] = x
    BY <2>v, ValueTyped
  <2>7. SizeOf(d) = SizeStep(SizeOf(e), x)
    BY <2>5, SizeOfSnoc
  <2>8. CASE Len(e) = 0
    <3>1. e = <<>> /\ d = <<x>>
      BY <2>5, <2>8
    <3>2. SizeOf(d) = SizeStep(0, x)
      BY <2>7, <3>1, SizeOfEmpty
    <3>3. SizeOf(d) # Overflow => SizeOf(d) = v /\ v <= SizeMax
      <4>1. 10 * 0 + v <= SizeMax => SizeStep(0, x) = 10 * 0 + v
        BY <2>6, <2>v, SizeStepFits
      <4>2. 10 * 0 + v > SizeMax => SizeStep(0, x) = Overflow
        BY <2>6, <2>v, SizeStepFits
      <4> QED BY <2>6, <3>2, <4>1, <4>2, SizeAssumption
    <3>4. Decimal[v] = d
      BY <2>6, <3>1, DecimalSmall
    <3>5. v <= SizeMax => v \in 0..SizeMax
      BY <2>6, SizeAssumption
    <3> QED BY <2>2, <3>3, <3>4, <3>5 DEF Spelled
  <2>9. CASE Len(e) # 0
    <3>1. e[1] # "0" /\ ~NonCanonical(e)
      BY <2>2, <2>3, <2>5, <2>9 DEF NonCanonical
    <3>2. Spelled(e)
      <4>1. Len(e) \in Nat /\ Len(e) \notin Bad
        BY <2>1, <2>3, <2>5
      <4> QED BY <3>1, <4>1
    <3>3. CASE SizeOf(e) = Overflow
      <4>1. SizeOf(d) = Overflow
        BY <2>7, <3>3 DEF SizeStep
      <4> QED BY <2>2, <4>1 DEF Spelled
    <3>4. CASE SizeOf(e) # Overflow
      <4>q. PICK q : q = SizeOf(e)
        OBVIOUS
      <4>1. q \in Nat /\ Decimal[q] = e
        BY <3>2, <3>4, <4>q, SizeAssumption DEF Spelled
      <4>2. q # 0
        <5>1. PICK z \in 0..9 : z = 0
          OBVIOUS
        <5>2. Decimal[z] = <<Digits[z + 1]>>
          BY DecimalSmall
        <5>3. Digits[z + 1] = "0"
          BY <5>1 DEF Digits
        <5>4. Decimal[z][1] = "0"
          BY <5>2, <5>3
        <5> QED BY <3>1, <4>1, <5>1, <5>4
      <4>3. SizeOf(d) # Overflow => SizeOf(d) = 10 * q + v /\ 10 * q + v <= SizeMax
        <5>1. q \in Nat /\ v \in 0..9
          BY <2>6, <4>1, Zenon
        <5>2. 10 * q + v \in Nat
          BY ONLY <5>1
        <5>3. SizeOf(d) = SizeStep(q, x)
          BY <2>7, <4>q, Zenon
        <5>4. /\ 10 * q + v <= SizeMax => SizeStep(q, x) = 10 * q + v
              /\ 10 * q + v > SizeMax => SizeStep(q, x) = Overflow
          BY <2>6, <2>v, <4>1, SizeStepFits
        <5> QED BY ONLY <5>2, <5>3, <5>4, SizeAssumption
      <4>4. Decimal[10 * q + v] = d
        <5>a. q \in Nat /\ v \in 0..9
          BY <2>6, <4>1, Zenon
        <5>b. 10 * q + v \in Nat
          BY ONLY <5>a
        <5>0. PICK n0 \in Nat : n0 = 10 * q + v
          BY <5>b, Zenon
        <5>1. n0 >= 10 /\ n0 \div 10 = q /\ n0 % 10 = v
          BY ONLY <5>a, <4>2, <5>0, Recomposed
        <5>2. Decimal[n0] = Decimal[q] \o <<x>>
          BY <2>6, <5>0, <5>1, DecimalLarge
        <5> QED BY <2>5, <4>1, <5>0, <5>2, Zenon
      <4>5. 10 * q + v <= SizeMax => 10 * q + v \in 0..SizeMax
        <5>1. q \in Nat /\ v \in 0..9
          BY <2>6, <4>1, Zenon
        <5> QED BY ONLY <5>1, SizeAssumption
      <4> QED BY <2>2, <4>3, <4>4, <4>5 DEF Spelled
    <3> QED BY <3>3, <3>4
  <2> QED BY <2>8, <2>9
<1>2. \A d \in Seq(DigitSet) : Len(d) \in Nat /\ Len(d) \notin Bad
  BY <1>1
<1> QED BY <1>2

-------------------------------------------------------------------------------
(* The digits found at an offset                                           *)

EndsAt(data, start, stop) ==
    /\ stop \in start..(Len(data) + 1)
    /\ stop > Len(data) \/ ~IsDigit(data[stop])
    /\ \A j \in start..(stop - 1) : IsDigit(data[j])

(* A run of digits ends somewhere. *)
LEMMA DigitsEnd ==
    ASSUME NEW S, NEW data \in Seq(S), NEW start \in 1..(Len(data) + 1)
    PROVE  \E stop : EndsAt(data, start, stop) /\ DigitsAt(data, start) = SubSeq(data, start, stop - 1)
<1> DEFINE T == {i \in start..(Len(data) + 1) : i > Len(data) \/ ~IsDigit(data[i])}
           P(i) == /\ i > Len(data) \/ ~IsDigit(data[i])
                   /\ \A j \in start..(i - 1) : IsDigit(data[j])
           stop == CHOOSE i \in start..(Len(data) + 1) : P(i)
<1>1. Len(data) \in Nat /\ start \in Nat
  OBVIOUS
<1>2. T \in SUBSET Nat /\ T # {}
  <2>1. Len(data) + 1 \in T
    BY <1>1
  <2> QED BY <1>1, <2>1
<1>3. PICK k \in T : \A m \in T : k <= m
  <2> HIDE DEF T
  <2> QED BY <1>2, LeastNat
<1>4. k \in start..(Len(data) + 1) /\ P(k)
  <2>1. ASSUME NEW j \in start..(k - 1) PROVE IsDigit(data[j])
    <3>1. j \notin T /\ j \in start..(Len(data) + 1)
      BY <1>1, <1>3
    <3> QED BY <3>1
  <2> QED BY <1>3, <2>1
<1>5. stop \in start..(Len(data) + 1) /\ P(stop)
  BY <1>4, Zenon
<1>6. EndsAt(data, start, stop)
  BY <1>5 DEF EndsAt
<1>7. DigitsAt(data, start) = SubSeq(data, start, stop - 1)
  BY Zenon DEF DigitsAt
<1> QED BY <1>6, <1>7

(* It ends in one place only. *)
LEMMA DigitsStop ==
    ASSUME NEW S, NEW data \in Seq(S), NEW start \in 1..(Len(data) + 1), NEW stop,
           EndsAt(data, start, stop)
    PROVE  DigitsAt(data, start) = SubSeq(data, start, stop - 1)
<1>1. PICK k : EndsAt(data, start, k) /\ DigitsAt(data, start) = SubSeq(data, start, k - 1)
  BY DigitsEnd
<1>2. Len(data) \in Nat /\ start \in Nat
  OBVIOUS
<1>3. k \in Nat /\ stop \in Nat
  BY <1>1, <1>2 DEF EndsAt
<1>4. ~(k < stop)
  BY <1>1, <1>2, <1>3 DEF EndsAt
<1>5. ~(stop < k)
  BY <1>1, <1>2, <1>3 DEF EndsAt
<1>6. k = stop
  BY <1>3, <1>4, <1>5
<1> QED BY <1>1, <1>6

-------------------------------------------------------------------------------
(* A record in some bytes: its length, a colon, its payload and a comma.   *)

OneMore(t, s, x) ==
    /\ Len(t) = Len(s) + 1 /\ t[Len(s) + 1] = x
    /\ \A i \in 1..Len(s) : t[i] = s[i]

LEMMA OneMoreShape ==
    ASSUME NEW S, NEW s \in Seq(S), NEW x \in S
    PROVE  s \o <<x>> \in Seq(S) /\ OneMore(s \o <<x>>, s, x)
BY DEF OneMore

Joint(t, s, p) ==
    /\ Len(t) = Len(s) + Len(p)
    /\ \A i \in 1..Len(s) : t[i] = s[i]
    /\ \A j \in 1..Len(p) : t[Len(s) + j] = p[j]

LEMMA ConcatShape ==
    ASSUME NEW S, NEW s \in Seq(S), NEW p \in Seq(S)
    PROVE  s \o p \in Seq(S) /\ Joint(s \o p, s, p)
<1>1. /\ s \o p \in Seq(S) /\ Len(s \o p) = Len(s) + Len(p)
      /\ \A i \in 1..Len(s) : (s \o p)[i] = s[i]
  OBVIOUS
<1>2. ASSUME NEW j \in 1..Len(p) PROVE (s \o p)[Len(s) + j] = p[j]
  OBVIOUS
<1> QED BY <1>1, <1>2 DEF Joint

(* The writer: numeral, colon, payload, comma. *)
LEMMA NetstringShape ==
    ASSUME NEW payload \in Seq(Bytes)
    PROVE  LET n == Len(payload)
               k == Len(Decimal[n])
               s == Netstring(payload)
           IN /\ s \in Seq(Bytes) /\ Len(s) = EncodedLength(n) /\ Len(s) = k + 2 + n
              /\ \A i \in 1..k : s[i] = Decimal[n][i]
              /\ s[k + 1] = ":" /\ s[k + n + 2] = ","
              /\ \A j \in 1..n : s[k + 1 + j] = payload[j]
<1>a. PICK n : n = Len(payload)
  OBVIOUS
<1>b. PICK d : d = Decimal[n]
  OBVIOUS
<1>c. PICK k : k = Len(d)
  OBVIOUS
<1>1. n \in Nat /\ d \in Seq(Bytes) /\ k \in Nat \ {0}
  BY <1>a, <1>b, <1>c, DecimalTyped
<1>2. ":" \in Bytes /\ "," \in Bytes
  BY BytesAssumption
<1>3. PICK a : a = d \o <<":">>
  OBVIOUS
<1>4. /\ a \in Seq(Bytes) /\ Len(a) = k + 1 /\ a[k + 1] = ":"
      /\ \A i \in 1..k : a[i] = d[i]
  <2>1. a \in Seq(Bytes) /\ OneMore(a, d, ":")
    BY <1>1, <1>2, <1>3, OneMoreShape, Zenon
  <2> QED BY <1>1, <1>c, <2>1 DEF OneMore
<1>5. PICK b : b = a \o payload
  OBVIOUS
<1>6. /\ b \in Seq(Bytes) /\ Len(b) = k + 1 + n /\ b[k + 1] = ":"
      /\ \A i \in 1..k : b[i] = d[i]
      /\ \A j \in 1..n : b[k + 1 + j] = payload[j]
  <2>1. b \in Seq(Bytes) /\ Joint(b, a, payload)
    BY <1>4, <1>5, ConcatShape, Zenon
  <2> QED BY <1>1, <1>4, <1>a, <2>1 DEF Joint
<1>7. PICK s : s = b \o <<",">>
  OBVIOUS
<1>8. /\ s \in Seq(Bytes) /\ Len(s) = k + 2 + n /\ s[k + 1] = ":" /\ s[k + n + 2] = ","
      /\ \A i \in 1..k : s[i] = d[i]
      /\ \A j \in 1..n : s[k + 1 + j] = payload[j]
  <2>1. s \in Seq(Bytes) /\ OneMore(s, b, ",")
    BY <1>2, <1>6, <1>7, OneMoreShape, Zenon
  <2>2. /\ Len(b) + 1 = k + n + 2 /\ k + 1 \in 1..Len(b)
        /\ \A i \in 1..k : i \in 1..Len(b)
        /\ \A j \in 1..n : k + 1 + j \in 1..Len(b)
    BY <1>1, <1>6
  <2>3. /\ Len(s) = k + n + 2 /\ s[k + n + 2] = ","
        /\ \A i \in 1..Len(b) : s[i] = b[i]
    BY <2>1, <2>2 DEF OneMore
  <2>4. Len(s) = k + 2 + n
    <3>1. k + n + 2 = k + 2 + n
      BY <1>1
    <3> QED BY <2>3, <3>1
  <2> QED BY <1>6, <2>1, <2>2, <2>3, <2>4
<1>9. s = Netstring(payload)
  BY <1>a, <1>b, <1>3, <1>5, <1>7 DEF Netstring
<1>10. EncodedLength(n) = k + 2 + n
  BY <1>b, <1>c DEF EncodedLength
<1> QED BY <1>a, <1>b, <1>c, <1>8, <1>9, <1>10

Written(data, start, n) ==
    LET k == Len(Decimal[n]) IN
    /\ start + k + n + 1 <= Len(data)
    /\ \A i \in 1..k : data[start + i - 1] = Decimal[n][i]
    /\ data[start + k] = ":" /\ data[start + k + n + 1] = ","

Slice(data, start, n) ==
    LET first == start + Len(Decimal[n]) + 1
        last  == start + EncodedLength(n) - 1
    IN /\ last <= Len(data)
       /\ SubSeq(data, start, last) = Netstring(SubSeq(data, first, last - 1))

(* Bytes laid out like a record are a record the writer would write. *)
LEMMA WrittenSlice ==
    ASSUME NEW data \in Seq(Bytes), NEW start \in 1..Len(data), NEW n \in Nat
    PROVE  Written(data, start, n) <=> Slice(data, start, n)
<1>a. PICK k : k = Len(Decimal[n])
  OBVIOUS
<1>b. PICK last : last = start + k + n + 1
  OBVIOUS
<1>c. PICK p : p = SubSeq(data, start + k + 1, last - 1)
  OBVIOUS
<1>d. PICK d : d = Decimal[n]
  OBVIOUS
<1>1. k \in Nat \ {0} /\ last \in Nat /\ start \in Nat /\ start >= 1 /\ Len(data) \in Nat
      /\ k = Len(d)
  BY <1>a, <1>b, <1>d, DecimalTyped
<1>2. start + EncodedLength(n) - 1 = last
  <2>1. EncodedLength(n) = k + 2 + n
    BY <1>a DEF EncodedLength
  <2> QED BY <1>1, <1>b, <2>1
<1>3. Slice(data, start, n) <=>
          last <= Len(data) /\ SubSeq(data, start, last) = Netstring(p)
  BY <1>2, <1>a, <1>c, Zenon DEF Slice
<1>4. Written(data, start, n) <=>
          /\ last <= Len(data)
          /\ \A i \in 1..k : data[start + i - 1] = d[i]
          /\ data[start + k] = ":" /\ data[last] = ","
  BY <1>a, <1>b, <1>d, Zenon DEF Written
<1>5. ASSUME last <= Len(data)
      PROVE  SubSeq(data, start, last) = Netstring(p) <=>
                /\ \A i \in 1..k : data[start + i - 1] = d[i]
                /\ data[start + k] = ":" /\ data[last] = ","
  <2>1. \A i \in start..last : data[i] \in Bytes
    BY <1>1, <1>5
  <2>2. p \in Seq(Bytes) /\ Len(p) = n /\ \A j \in 1..n : p[j] = data[start + k + j]
    <3>1. \A i \in (start + k + 1)..(last - 1) : data[i] \in Bytes
      BY <1>1, <2>1
    <3>2. start + k + 1 \in Int /\ last - 1 \in Int
      BY <1>1
    <3>3. /\ p \in Seq(Bytes)
          /\ Len(p) = IF start + k + 1 <= last - 1 THEN last - 1 - (start + k + 1) + 1 ELSE 0
          /\ \A i \in 1..(last - 1 - (start + k + 1) + 1) : p[i] = data[start + k + 1 + i - 1]
      BY <1>c, <3>1, <3>2, SubSeqProperties
    <3>4. last - 1 - (start + k + 1) + 1 = n
      BY <1>1, <1>b
    <3>5. start + k + 1 <= last - 1 <=> n # 0
      BY <1>1, <1>b
    <3> QED BY <1>1, <3>3, <3>4, <3>5
  <2>3. PICK t : t = SubSeq(data, start, last)
    OBVIOUS
  <2>4. t \in Seq(Bytes) /\ Len(t) = k + n + 2 /\ \A i \in 1..(k + n + 2) : t[i] = data[start + i - 1]
    <3>1. start \in Int /\ last \in Int /\ start <= last /\ last - start + 1 = k + n + 2
      BY <1>1, <1>b
    <3> QED BY <2>1, <2>3, <3>1, SubSeqProperties
  <2>5. PICK s : s = Netstring(p)
    OBVIOUS
  <2>6. /\ s \in Seq(Bytes) /\ Len(s) = k + 2 + n
        /\ \A i \in 1..k : s[i] = d[i]
        /\ s[k + 1] = ":" /\ s[k + n + 2] = ","
        /\ \A j \in 1..n : s[k + 1 + j] = p[j]
    BY <1>a, <1>d, <2>2, <2>5, NetstringShape, Zenon
  <2>7. \A i \in 1..k : i \in 1..(k + n + 2)
    BY <1>1
  <2>8. k + 1 \in 1..(k + n + 2) /\ k + n + 2 \in 1..(k + n + 2)
        /\ start + (k + 1) - 1 = start + k /\ start + (k + n + 2) - 1 = last
    BY <1>1, <1>b
  <2>9. t[k + 1] = data[start + k] /\ t[k + n + 2] = data[last]
    BY <2>4, <2>8
  <2>10. t = s => /\ \A i \in 1..k : data[start + i - 1] = d[i]
                  /\ data[start + k] = ":" /\ data[last] = ","
    <3>1. \A i \in 1..k : t[i] = data[start + i - 1]
      BY <2>4, <2>7, Zenon
    <3> QED BY <2>6, <2>9, <3>1, Zenon
  <2>11. ASSUME /\ \A i \in 1..k : data[start + i - 1] = d[i]
                /\ data[start + k] = ":" /\ data[last] = ","
         PROVE  t = s
    <3>1. ASSUME NEW i \in 1..(k + n + 2) PROVE t[i] = s[i]
      <4>1. CASE i \in 1..k
        BY <2>4, <2>6, <2>11, <4>1
      <4>2. CASE i = k + 1
        BY <2>6, <2>9, <2>11, <4>2
      <4>3. CASE i = k + n + 2
        BY <2>6, <2>9, <2>11, <4>3
      <4>4. CASE i \in (k + 2)..(k + n + 1)
        <5>1. PICK j : j = i - k - 1
          OBVIOUS
        <5>2. j \in 1..n /\ i = k + 1 + j /\ start + i - 1 = start + k + j
          BY <1>1, <4>4, <5>1
        <5>3. t[i] = data[start + i - 1] /\ s[k + 1 + j] = p[j] /\ p[j] = data[start + k + j]
          BY <2>2, <2>4, <2>6, <5>2, Zenon
        <5> QED BY <5>2, <5>3, Zenon
      <4> QED BY <1>1, <4>1, <4>2, <4>3, <4>4
    <3>2. Len(t) = Len(s) /\ Len(s) = k + n + 2
      <4>1. k + 2 + n = k + n + 2
        BY <1>1
      <4> QED BY <2>4, <2>6, <4>1, Zenon
    <3>3. t \in Seq(Bytes) /\ s \in Seq(Bytes) /\ Len(s) = Len(t)
      BY <2>4, <2>6, <3>2, Zenon
    <3>4. \A i \in 1..Len(t) : t[i] = s[i]
      BY <3>1, <3>2, Zenon
    <3> QED BY ONLY <3>3, <3>4, SeqEqual
  <2> QED BY <2>3, <2>5, <2>10, <2>11
<1> QED BY <1>3, <1>4, <1>5

(* The iterator over a slice reads what was written, and nothing else. *)
LEMMA WrittenDigits ==
    ASSUME NEW data \in Seq(Bytes), NEW start \in 1..Len(data), NEW n \in Nat,
           Written(data, start, n)
    PROVE  DigitsAt(data, start) = Decimal[n] /\ ~NonCanonical(Decimal[n])
<1>a. PICK d : d = Decimal[n]
  OBVIOUS
<1>b. PICK k : k = Len(d)
  OBVIOUS
<1>1. d \in Seq(DigitSet) /\ k \in Nat \ {0} /\ d \in Seq(Bytes) /\ Numeral(d, n)
  BY <1>a, <1>b, DecimalTyped, DecimalShape
<1>2. /\ start + k + n + 1 <= Len(data) /\ data[start + k] = ":"
      /\ \A i \in 1..k : data[start + i - 1] = d[i]
  BY <1>a, <1>b DEF Written
<1>3. start \in Nat /\ start >= 1 /\ Len(data) \in Nat
  OBVIOUS
<1>4. PICK stop : stop = start + k
  OBVIOUS
<1>5. EndsAt(data, start, stop)
  <2>1. stop \in start..(Len(data) + 1)
    BY <1>1, <1>2, <1>3, <1>4
  <2>2. ~IsDigit(data[stop])
    <3>1. ":" \notin DigitSet
      BY DEF DigitSet
    <3> QED BY <1>2, <1>4, <3>1, DigitsTyped DEF IsDigit
  <2>3. ASSUME NEW j \in start..(stop - 1) PROVE IsDigit(data[j])
    <3>1. PICK i : i = j - start + 1
      OBVIOUS
    <3>2. i \in 1..k /\ start + i - 1 = j
      BY <1>1, <1>3, <1>4, <3>1
    <3>3. data[j] = d[i] /\ d[i] \in DigitSet
      <4>1. data[start + i - 1] = d[i]
        BY <1>2, <3>2
      <4>2. d[i] \in DigitSet
        BY <1>1, <1>b, <3>2, ElementOfSeq
      <4> QED BY <3>2, <4>1, <4>2
    <3> QED BY <3>3, DigitsTyped DEF IsDigit
  <2> QED BY <2>1, <2>2, <2>3 DEF EndsAt
<1>6. PICK e : e = SubSeq(data, start, stop - 1)
  OBVIOUS
<1>7. e \in Seq(Bytes) /\ Len(e) = k /\ \A i \in 1..k : e[i] = data[start + i - 1]
  <2>1. start \in Int /\ stop - 1 \in Int /\ start <= stop - 1 /\ stop - 1 - start + 1 = k
    BY <1>1, <1>3, <1>4
  <2>2. \A i \in start..(stop - 1) : data[i] \in Bytes
    BY <1>1, <1>2, <1>3, <1>4
  <2> QED BY <1>6, <2>1, <2>2, SubSeqProperties
<1>8. e = d
  BY <1>1, <1>2, <1>7, <1>b, SeqEqual
<1>9. DigitsAt(data, start) = e
  <2>1. start \in 1..(Len(data) + 1)
    BY <1>3
  <2> QED BY <1>5, <1>6, <2>1, DigitsStop
<1>10. ~NonCanonical(d)
  <2>1. d # <<>>
    BY <1>1, <1>b
  <2>2. ~(d[1] = "0" /\ Len(d) > 1)
    <3>1. d[1] = "0" => n = 0
      BY <1>1 DEF Numeral
    <3>2. n < 10 => Len(d) = 1
      BY <1>1 DEF Numeral
    <3>3. d[1] = "0" => Len(d) = 1
      BY <3>1, <3>2
    <3>4. Len(d) = 1 => ~(Len(d) > 1)
      BY <1>1, <1>b
    <3> QED BY <3>3, <3>4, Zenon
  <2> QED BY <2>1, <2>2 DEF NonCanonical
<1> QED BY <1>a, <1>8, <1>9, <1>10

(* The iterator finds what is laid out like a record. *)
LEMMA NextRecordFinds ==
    ASSUME NEW data \in Seq(Bytes), NEW start \in 1..Len(data), NEW n \in 0..SizeMax,
           Written(data, start, n)
    PROVE  NextRecord(data, start) = Found(data, start + Len(Decimal[n]) + 1, n)
<1>a. PICK k : k = Len(Decimal[n])
  OBVIOUS
<1>b. PICK c : c = start + k
  OBVIOUS
<1>1. n \in Nat /\ k \in Nat /\ start \in Nat /\ start >= 1 /\ Len(data) \in Nat
  BY <1>a, SizeAssumption, DecimalTyped
<1>2. DigitsAt(data, start) = Decimal[n] /\ ~NonCanonical(Decimal[n])
  BY <1>1, WrittenDigits
<1>3. SizeOf(Decimal[n]) = n /\ n # Overflow
  BY <1>1, SizeOfDecimal DEF Overflow
<1>4. data[c] = ":" /\ data[c + n + 1] = ","
  BY <1>a, <1>b, Zenon DEF Written
<1>0. c + n + 1 <= Len(data)
  BY <1>a, <1>b, Zenon DEF Written
<1>5. ~(start > Len(data)) /\ c \in DOMAIN data /\ ~(n >= Len(data) - c)
  <2>1. DOMAIN data = 1..Len(data) /\ c \in Nat /\ c >= 1
    BY <1>1, <1>b
  <2>0. PICK l \in Nat : l = Len(data)
    BY <1>1
  <2>2. c + n + 1 <= l /\ start <= l
    BY <1>0, <1>1, <2>0
  <2>3. c <= l /\ ~(n >= l - c)
    BY <1>1, <2>1, <2>2
  <2> QED BY <1>1, <2>0, <2>1, <2>2, <2>3
<1>6. ByteAt(data, c) = ":"
  BY <1>4, <1>5 DEF ByteAt
<1>7. SliceRecord(data, c, n) = Found(data, c + 1, n)
  BY <1>3, <1>4, <1>5, <1>6 DEF SliceRecord
<1>8. NextRecord(data, start) = SliceRecord(data, c, n)
  BY <1>2, <1>3, <1>5, <1>a, <1>b, Zenon DEF NextRecord
<1> QED BY <1>7, <1>8, <1>a, <1>b

(* The digits at the start of what is taken for a record. *)
ReadAs(data, start, d, n) ==
    /\ n \in 0..SizeMax /\ d = Decimal[n]
    /\ data[start + Len(d)] = ":"
    /\ \A i \in 1..Len(d) : data[start + i - 1] = d[i]

LEMMA DigitsRead ==
    ASSUME NEW data \in Seq(Bytes), NEW start \in 1..Len(data), NEW d, NEW n,
           d = DigitsAt(data, start), ~NonCanonical(d), SizeOf(d) = n, n # Overflow,
           ByteAt(data, start + Len(d)) = ":"
    PROVE  ReadAs(data, start, d, n)
<1>1. start \in Nat /\ start >= 1 /\ Len(data) \in Nat /\ start \in 1..(Len(data) + 1)
  OBVIOUS
<1>2. PICK stop : EndsAt(data, start, stop) /\ d = SubSeq(data, start, stop - 1)
  BY <1>1, DigitsEnd
<1>3. stop \in start..(Len(data) + 1) /\ stop \in Nat
  BY <1>1, <1>2 DEF EndsAt
<1>4. \A i \in start..(stop - 1) : data[i] \in DigitSet
  BY <1>2, DigitsTyped DEF EndsAt, IsDigit
<1>5. PICK k : k = stop - start
  OBVIOUS
<1>6. d \in Seq(DigitSet) /\ Len(d) = k /\ \A i \in 1..k : d[i] = data[start + i - 1]
  <2>1. /\ start \in Int /\ stop - 1 \in Int /\ stop - 1 - start + 1 = k
        /\ (IF start <= stop - 1 THEN k ELSE 0) = k
    BY <1>1, <1>3, <1>5
  <2> QED BY <1>2, <1>4, <2>1, SubSeqProperties
<1>7. n \in 0..SizeMax /\ d = Decimal[n]
  BY <1>6, SizeOfCanonical DEF Spelled
<1>8. data[start + Len(d)] = ":"
  <2>1. "EOF" # ":"
    OBVIOUS
  <2> QED BY <2>1, Zenon DEF ByteAt
<1> QED BY <1>6, <1>7, <1>8 DEF ReadAs

(* And it finds nothing else. *)
LEMMA NextRecordOk ==
    ASSUME NEW data \in Seq(Bytes), NEW start \in 1..Len(data),
           NextRecord(data, start).status = "ok"
    PROVE  \E n \in 0..SizeMax : Written(data, start, n)
<1>a. PICK d : d = DigitsAt(data, start)
  OBVIOUS
<1>b. PICK n : n = SizeOf(d)
  OBVIOUS
<1>c. PICK c : c = start + Len(d)
  OBVIOUS
<1>1. \A status : status # "ok" => Stopped(status).status # "ok"
  BY DEF Stopped
<1>2. ~NonCanonical(d) /\ SliceRecord(data, c, n).status = "ok"
  BY <1>1, <1>a, <1>b, <1>c DEF NextRecord
<1>3. /\ n # Overflow /\ ByteAt(data, c) = ":" /\ ~(n >= Len(data) - c)
      /\ data[c + n + 1] = ","
  BY <1>1, <1>2 DEF SliceRecord
<1>4. /\ n \in 0..SizeMax /\ d = Decimal[n] /\ data[c] = ":"
      /\ \A i \in 1..Len(d) : data[start + i - 1] = d[i]
  <2>1. ByteAt(data, start + Len(d)) = ":" /\ SizeOf(d) = n
    BY <1>3, <1>b, <1>c
  <2>2. ReadAs(data, start, d, n)
    BY <1>2, <1>3, <1>a, <2>1, DigitsRead, Zenon
  <2> QED BY <1>c, <2>2 DEF ReadAs
<1>5. n \in Nat /\ Len(d) \in Nat /\ start \in Nat /\ Len(data) \in Nat
  BY <1>4, SizeAssumption, DecimalTyped
<1>6. c + n + 1 <= Len(data)
  <2>1. c \in Nat
    BY <1>5, <1>c
  <2> PICK l : l = Len(data)
    OBVIOUS
  <2>2. l \in Nat /\ ~(n >= l - c)
    BY <1>3, <1>5
  <2>3. c + n + 1 <= l
    BY <1>5, <2>1, <2>2
  <2> QED BY <2>3
<1>7. Written(data, start, n)
  BY <1>3, <1>4, <1>6, <1>c DEF Written
<1> QED BY <1>4, <1>7

(* The reader of the stream finds the same record, if the caller's cap and *)
(* SIZE_MAX leave room for it.                                             *)
Capped(n, cap) == EncodedLength(n) < SizeMax /\ (cap # 0 => EncodedLength(n) <= cap)

LEMMA ReadStreamFinds ==
    ASSUME NEW data \in Seq(Bytes), NEW start \in 1..Len(data), NEW n \in 0..SizeMax,
           NEW cap \in Nat, Written(data, start, n), Capped(n, cap)
    PROVE  ReadStream(data, start, cap) = Found(data, start + Len(Decimal[n]) + 1, n)
<1>a. PICK k : k = Len(Decimal[n])
  OBVIOUS
<1>b. PICK c : c = start + k
  OBVIOUS
<1>1. n \in Nat /\ k \in Nat /\ start \in Nat /\ start >= 1 /\ Len(data) \in Nat
  BY <1>a, SizeAssumption, DecimalTyped
<1>2. DigitsAt(data, start) = Decimal[n] /\ ~NonCanonical(Decimal[n])
  BY <1>1, WrittenDigits
<1>3. SizeOf(Decimal[n]) = n /\ n # Overflow
  BY <1>1, SizeOfDecimal DEF Overflow
<1>4. data[c] = ":" /\ data[c + n + 1] = ","
  BY <1>a, <1>b, Zenon DEF Written
<1>0. c + n + 1 <= Len(data)
  BY <1>a, <1>b, Zenon DEF Written
<1>5. ~(start > Len(data)) /\ c \in DOMAIN data /\ c + n + 1 \in DOMAIN data
      /\ ~(c + n > Len(data))
  <2>1. DOMAIN data = 1..Len(data) /\ c \in Nat /\ c >= 1
    BY <1>1, <1>b
  <2>0. PICK l \in Nat : l = Len(data)
    BY <1>1
  <2>2. c + n + 1 <= l /\ start <= l
    BY <1>0, <1>1, <2>0
  <2>3. c <= l /\ ~(c + n > l) /\ c + n + 1 >= 1
    BY <1>1, <2>1, <2>2
  <2> QED BY <1>1, <2>0, <2>1, <2>2, <2>3
<1>6. ByteAt(data, c) = ":" /\ ByteAt(data, c + n + 1) = ","
  BY <1>4, <1>5 DEF ByteAt
<1>7. ~(EncodedLength(n) >= SizeMax) /\ ~(cap # 0 /\ EncodedLength(n) > cap)
  <2>1. EncodedLength(n) = k + 2 + n
    BY <1>a DEF EncodedLength
  <2> QED BY <1>1, <2>1, SizeAssumption DEF Capped
<1>8. StreamRecord(data, c, n, cap) = Found(data, c + 1, n)
  BY <1>3, <1>5, <1>6, <1>7, Zenon DEF StreamRecord
<1>9. ReadStream(data, start, cap) = StreamRecord(data, c, n, cap)
  BY <1>2, <1>3, <1>5, <1>a, <1>b, Zenon DEF ReadStream
<1> QED BY <1>8, <1>9, <1>a, <1>b

(* And it finds nothing else. *)
LEMMA ReadStreamOk ==
    ASSUME NEW data \in Seq(Bytes), NEW start \in 1..Len(data), NEW cap \in Nat,
           ReadStream(data, start, cap).status = "ok"
    PROVE  \E n \in 0..SizeMax : Written(data, start, n) /\ Capped(n, cap)
<1>a. PICK d : d = DigitsAt(data, start)
  OBVIOUS
<1>b. PICK n : n = SizeOf(d)
  OBVIOUS
<1>c. PICK c : c = start + Len(d)
  OBVIOUS
<1>1. \A status : status # "ok" => Stopped(status).status # "ok"
  BY DEF Stopped
<1>2. ~NonCanonical(d) /\ StreamRecord(data, c, n, cap).status = "ok"
  BY <1>1, <1>a, <1>b, <1>c DEF ReadStream
<1>3. /\ n # Overflow /\ ByteAt(data, c) = ":" /\ ~(c + n > Len(data))
      /\ ByteAt(data, c + n + 1) = ","
      /\ ~(EncodedLength(n) >= SizeMax) /\ ~(cap # 0 /\ EncodedLength(n) > cap)
  BY <1>1, <1>2 DEF StreamRecord
<1>4. /\ n \in 0..SizeMax /\ d = Decimal[n] /\ data[c] = ":"
      /\ \A i \in 1..Len(d) : data[start + i - 1] = d[i]
  <2>1. ByteAt(data, start + Len(d)) = ":" /\ SizeOf(d) = n
    BY <1>3, <1>b, <1>c
  <2>2. ReadAs(data, start, d, n)
    BY <1>2, <1>3, <1>a, <2>1, DigitsRead, Zenon
  <2> QED BY <1>c, <2>2 DEF ReadAs
<1>5. n \in Nat /\ Len(d) \in Nat /\ start \in Nat /\ Len(data) \in Nat
  BY <1>4, SizeAssumption, DecimalTyped
<1>6. data[c + n + 1] = ","
  <2>1. "EOF" # ","
    OBVIOUS
  <2> QED BY <1>3, <2>1, Zenon DEF ByteAt
<1>0. c + n + 1 \in DOMAIN data
  <2>1. "EOF" # ","
    OBVIOUS
  <2> QED BY <1>3, <2>1, Zenon DEF ByteAt
<1>7. c + n + 1 <= Len(data)
  <2>1. DOMAIN data = 1..Len(data) /\ c + n + 1 \in Nat
    BY <1>5, <1>c
  <2> QED BY <1>0, <1>5, <2>1
<1>8. Written(data, start, n)
  BY <1>4, <1>6, <1>7, <1>c DEF Written
<1>9. Capped(n, cap)
  <2>1. EncodedLength(n) = Len(d) + 2 + n
    BY <1>4 DEF EncodedLength
  <2>2. PICK l \in Nat : l = EncodedLength(n)
    BY <1>5, <2>1
  <2>3. ~(l >= SizeMax) /\ ~(cap # 0 /\ l > cap)
    BY <1>3, <2>2
  <2>4. l < SizeMax /\ (cap # 0 => l <= cap)
    BY <2>2, <2>3, SizeAssumption
  <2> QED BY <2>2, <2>4 DEF Capped
<1> QED BY <1>4, <1>8, <1>9

-------------------------------------------------------------------------------
(* The readers agree with each other and with the writer.                  *)

RecordFound(data, start, n) ==
    Found(data, start + Len(Decimal[n]) + 1, n)

(* The record found: its payload, and the offset of the next. *)
LEMMA FoundShape ==
    ASSUME NEW data \in Seq(Bytes), NEW start \in 1..Len(data), NEW n \in Nat,
           Written(data, start, n)
    PROVE  LET k == Len(Decimal[n]) r == RecordFound(data, start, n) IN
           /\ r.status = "ok" /\ r.next = start + EncodedLength(n)
           /\ r.payload \in Seq(Bytes) /\ Len(r.payload) = n
           /\ \A j \in 1..n : r.payload[j] = data[start + k + j]
           /\ r.next \in (start + 1)..(Len(data) + 1)
           /\ n < Len(data)
<1>a. PICK k : k = Len(Decimal[n])
  OBVIOUS
<1>1. k \in Nat \ {0} /\ start \in Nat /\ start >= 1 /\ Len(data) \in Nat
  BY <1>a, DecimalTyped
<1>2. start + k + n + 1 <= Len(data)
  BY <1>a, Zenon DEF Written
<1>3. PICK first : first = start + k + 1
  OBVIOUS
<1>4. PICK p : p = SubSeq(data, first, first + n - 1)
  OBVIOUS
<1>5. p \in Seq(Bytes) /\ Len(p) = n /\ \A j \in 1..n : p[j] = data[start + k + j]
  <2>1. \A i \in first..(first + n - 1) : data[i] \in Bytes
    <3>1. \A i \in first..(first + n - 1) : i \in 1..Len(data)
      BY <1>1, <1>2, <1>3
    <3> QED BY <3>1, ElementOfSeq
  <2>2. first \in Int /\ first + n - 1 \in Int
    BY <1>1, <1>3
  <2>3. /\ p \in Seq(Bytes)
        /\ Len(p) = IF first <= first + n - 1 THEN first + n - 1 - first + 1 ELSE 0
        /\ \A i \in 1..(first + n - 1 - first + 1) : p[i] = data[first + i - 1]
    BY <1>4, <2>1, <2>2, SubSeqProperties
  <2>4. first + n - 1 - first + 1 = n /\ (first <= first + n - 1 <=> n # 0)
    BY <1>1, <1>3
  <2>5. \A j \in 1..n : first + j - 1 = start + k + j
    BY <1>1, <1>3
  <2> QED BY <2>3, <2>4, <2>5
<1>6. RecordFound(data, start, n) =
          [status |-> "ok", payload |-> p, next |-> first + n + 1]
  BY <1>a, <1>3, <1>4, Zenon DEF RecordFound, Found
<1>7. first + n + 1 = start + EncodedLength(n)
  <2>1. EncodedLength(n) = k + 2 + n
    BY <1>a DEF EncodedLength
  <2> QED BY <1>1, <1>3, <2>1
<1>8. first + n + 1 \in (start + 1)..(Len(data) + 1) /\ n < Len(data)
  BY <1>1, <1>2, <1>3
<1> PICK r : r = RecordFound(data, start, n)
  OBVIOUS
<1>9. r.status = "ok" /\ r.payload = p /\ r.next = first + n + 1
  BY <1>6
<1> QED BY <1>a, <1>5, <1>7, <1>8, <1>9

(* One length at most was written at an offset. *)
LEMMA NextFound ==
    ASSUME NEW data \in Seq(Bytes), NEW start \in 1..Len(data), NEW n \in 0..SizeMax,
           Written(data, start, n)
    PROVE  NextRecord(data, start) = RecordFound(data, start, n)
BY NextRecordFinds DEF RecordFound

LEMMA StreamFound ==
    ASSUME NEW data \in Seq(Bytes), NEW start \in 1..Len(data), NEW n \in 0..SizeMax,
           NEW cap \in Nat, Written(data, start, n), Capped(n, cap)
    PROVE  ReadStream(data, start, cap) = RecordFound(data, start, n)
BY ReadStreamFinds DEF RecordFound

(* FramingExact for any text a size_t can count. *)
LEMMA Framing ==
    ASSUME text \in Seq(Bytes), Len(text) < SizeMax
    PROVE  FramingExact
<1>0. Len(text) \in Nat /\ SizeMax \in Nat
  BY SizeAssumption
<1> SUFFICES ASSUME NEW start \in 1..Len(text), NEW record, NEW lengths,
                    record = NextRecord(text, start),
                    lengths = {n \in 0..Len(text) : Slice(text, start, n)}
             PROVE  /\ record.status = "ok" <=> lengths # {}
                    /\ record.status = "ok" =>
                          /\ Len(record.payload) \in lengths
                          /\ ReadStream(text, start, 0) = record
                    /\ ReadStream(text, start, 0).status = "ok" => record.status = "ok"
  BY Zenon DEF FramingExact, Slice
<1>1. start \in Nat /\ start >= 1 /\ start <= Len(text)
  BY <1>0
<1>2. \A n \in 0..Len(text) : n \in Nat /\ n \in 0..SizeMax
  BY <1>0
<1>3. \A n \in lengths : /\ n \in 0..SizeMax /\ n \in Nat /\ Written(text, start, n)
  BY <1>2, WrittenSlice
<1>4. ASSUME NEW n \in 0..SizeMax, Written(text, start, n)
      PROVE  n \in lengths
  <2>1. n \in Nat
    BY <1>0
  <2>2. n \in 0..Len(text)
    BY <1>0, <1>4, <2>1, FoundShape
  <2>3. Slice(text, start, n)
    BY <1>4, <2>1, WrittenSlice
  <2> QED BY <2>2, <2>3
<1>5. ASSUME NEW n \in lengths
      PROVE  /\ record.status = "ok" /\ Len(record.payload) = n
             /\ ReadStream(text, start, 0) = record
  <2>1. n \in 0..SizeMax /\ n \in Nat /\ Written(text, start, n)
    BY <1>3, <1>5
  <2>2. record = RecordFound(text, start, n)
    BY <2>1, NextFound, Zenon
  <2>3. record.status = "ok" /\ Len(record.payload) = n
    BY <2>1, <2>2, FoundShape
  <2>4. Capped(n, 0)
    <3>1. /\ start + EncodedLength(n) \in (start + 1)..(Len(text) + 1)
      BY <2>1, FoundShape
    <3>2. EncodedLength(n) \in Nat
      BY <2>1, DecimalTyped DEF EncodedLength
    <3>3. EncodedLength(n) < SizeMax
      BY <1>0, <1>1, <3>1, <3>2
    <3> QED BY <3>3 DEF Capped
  <2>5. ReadStream(text, start, 0) = RecordFound(text, start, n)
    BY <2>1, <2>4, StreamFound
  <2> QED BY <2>2, <2>3, <2>5
<1>6. record.status = "ok" => lengths # {}
  BY <1>4, NextRecordOk
<1>7. ReadStream(text, start, 0).status = "ok" => lengths # {}
  BY <1>4, ReadStreamOk
<1> QED BY <1>5, <1>6, <1>7, Zenon

-------------------------------------------------------------------------------
(* A text that is a sequence of records                                    *)

Item(data, start, p) ==
    /\ start \in 1..Len(data) /\ Len(p) \in 0..SizeMax
    /\ Written(data, start, Len(p))
    /\ \A j \in 1..Len(p) : data[start + Len(Decimal[Len(p)]) + j] = p[j]

After1(start, p) == start + EncodedLength(Len(p))

(* The iterator goes from an item to the offset after it. *)
LEMMA ItemNext ==
    ASSUME NEW data \in Seq(Bytes), NEW p \in Seq(Bytes), NEW start,
           Item(data, start, p)
    PROVE  /\ NextRecord(data, start) =
                  [status |-> "ok", payload |-> p, next |-> After1(start, p)]
           /\ After1(start, p) \in (start + 1)..(Len(data) + 1)
<1>a. PICK n : n = Len(p)
  OBVIOUS
<1>1. /\ start \in 1..Len(data) /\ n \in 0..SizeMax /\ n \in Nat
      /\ Written(data, start, n)
      /\ \A j \in 1..n : data[start + Len(Decimal[n]) + j] = p[j]
  <2>1. n \in Nat
    BY <1>a
  <2> QED BY <1>a, <2>1, Zenon DEF Item
<1>b. PICK r : r = RecordFound(data, start, n)
  OBVIOUS
<1>2. NextRecord(data, start) = r
  BY <1>1, <1>b, NextFound, Zenon
<1>3. /\ r.status = "ok" /\ r.next = start + EncodedLength(n)
      /\ r.payload \in Seq(Bytes) /\ Len(r.payload) = n
      /\ \A j \in 1..n : r.payload[j] = data[start + Len(Decimal[n]) + j]
      /\ r.next \in (start + 1)..(Len(data) + 1)
  BY <1>1, <1>b, FoundShape, Zenon
<1>4. r.payload = p
  <2>1. Len(r.payload) = Len(p) /\ \A j \in 1..Len(r.payload) : r.payload[j] = p[j]
    BY <1>1, <1>3, <1>a
  <2> QED BY <1>3, <2>1, SeqEqual
<1>5. r = [status |-> "ok", payload |-> p, next |-> start + EncodedLength(n)]
  <2>1. r = [status |-> r.status, payload |-> r.payload, next |-> r.next]
    BY <1>b DEF RecordFound, Found
  <2> QED BY <1>3, <1>4, <2>1
<1> QED BY <1>2, <1>3, <1>5, <1>a, Zenon DEF After1

(* What follows an item does not disturb it. *)
LEMMA ItemAppend ==
    ASSUME NEW data \in Seq(Bytes), NEW e \in Seq(Bytes), NEW p \in Seq(Bytes), NEW start,
           Item(data, start, p)
    PROVE  Item(data \o e, start, p)
<1>a. PICK long : long = data \o e
  OBVIOUS
<1>b. PICK d : d = Decimal[Len(p)]
  OBVIOUS
<1>c. PICK n : n = Len(p)
  OBVIOUS
<1>d. PICK k : k = Len(d)
  OBVIOUS
<1>1. n \in Nat /\ k \in Nat \ {0} /\ Len(data) \in Nat /\ Len(e) \in Nat
  BY <1>b, <1>c, <1>d, DecimalTyped
<1>2. long \in Seq(Bytes) /\ Joint(long, data, e)
  BY <1>a, ConcatShape, Zenon
<1>3. Len(long) = Len(data) + Len(e) /\ \A i \in 1..Len(data) : long[i] = data[i]
  BY <1>2 DEF Joint
<1>4. /\ start \in 1..Len(data) /\ n \in 0..SizeMax
      /\ start + k + n + 1 <= Len(data)
      /\ \A i \in 1..k : data[start + i - 1] = d[i]
      /\ \A j \in 1..n : data[start + k + j] = p[j]
  BY <1>b, <1>c, <1>d, Zenon DEF Item, Written
<1>5. data[start + k] = ":" /\ data[start + k + n + 1] = ","
  BY <1>b, <1>c, <1>d, Zenon DEF Item, Written
<1>6. start + k \in 1..Len(data) /\ start + k + n + 1 \in 1..Len(data)
  BY <1>1, <1>4
<1>7. long[start + k] = ":" /\ long[start + k + n + 1] = ","
  BY <1>3, <1>5, <1>6, Zenon
<1>8. \A i \in 1..k : long[start + i - 1] = d[i]
  <2>1. \A i \in 1..k : start + i - 1 \in 1..Len(data)
    BY <1>1, <1>4
  <2> QED BY <1>3, <1>4, <2>1
<1>9. \A j \in 1..n : long[start + k + j] = p[j]
  <2>1. \A j \in 1..n : start + k + j \in 1..Len(data)
    BY <1>1, <1>4
  <2> QED BY <1>3, <1>4, <2>1
<1>10. start + k + n + 1 <= Len(long) /\ start \in 1..Len(long)
  BY <1>1, <1>3, <1>4
<1>11. Written(long, start, n)
  BY <1>b, <1>c, <1>d, <1>7, <1>8, <1>10, Zenon DEF Written
<1> QED BY <1>a, <1>b, <1>c, <1>d, <1>4, <1>9, <1>10, <1>11, Zenon DEF Item

(* A record appended to a text is an item of it. *)
LEMMA ItemNew ==
    ASSUME NEW data \in Seq(Bytes), NEW p \in Seq(Bytes), Len(p) <= SizeMax
    PROVE  /\ Item(data \o Netstring(p), Len(data) + 1, p)
           /\ Len(data \o Netstring(p)) = Len(data) + EncodedLength(Len(p))
           /\ data \o Netstring(p) \in Seq(Bytes)
<1>a. PICK s : s = Netstring(p)
  OBVIOUS
<1>b. PICK n : n = Len(p)
  OBVIOUS
<1>c. PICK d : d = Decimal[n]
  OBVIOUS
<1>d. PICK k : k = Len(d)
  OBVIOUS
<1>e. PICK m : m = Len(data)
  OBVIOUS
<1>1. n \in Nat /\ k \in Nat \ {0} /\ m \in Nat /\ n \in 0..SizeMax
  BY <1>b, <1>c, <1>d, <1>e, DecimalTyped, SizeAssumption
<1>2. /\ s \in Seq(Bytes) /\ Len(s) = EncodedLength(n) /\ Len(s) = k + 2 + n
      /\ \A i \in 1..k : s[i] = d[i]
      /\ s[k + 1] = ":" /\ s[k + n + 2] = ","
      /\ \A j \in 1..n : s[k + 1 + j] = p[j]
  BY <1>a, <1>b, <1>c, <1>d, NetstringShape, Zenon
<1>3. PICK long : long = data \o s
  OBVIOUS
<1>4. long \in Seq(Bytes) /\ Joint(long, data, s)
  BY <1>2, <1>3, ConcatShape, Zenon
<1>5. Len(long) = m + Len(s) /\ \A i \in 1..Len(s) : long[m + i] = s[i]
  BY <1>4, <1>e DEF Joint
<1>6. Len(s) = k + 2 + n
  BY <1>2, Zenon
<1>7. /\ k + 1 \in 1..Len(s) /\ k + n + 2 \in 1..Len(s)
      /\ m + (k + 1) = (m + 1) + k /\ m + (k + n + 2) = (m + 1) + k + n + 1
  BY <1>1, <1>6
<1>8. long[(m + 1) + k] = ":" /\ long[(m + 1) + k + n + 1] = ","
  <2>1. long[m + (k + 1)] = ":" /\ long[m + (k + n + 2)] = ","
    BY <1>2, <1>5, <1>7, Zenon
  <2> QED BY <1>7, <2>1, Zenon
<1>9. \A i \in 1..k : long[(m + 1) + i - 1] = d[i]
  <2>1. \A i \in 1..k : i \in 1..Len(s) /\ (m + 1) + i - 1 = m + i
    BY <1>1, <1>6
  <2>2. \A i \in 1..k : s[i] = d[i]
    BY <1>2, Zenon
  <2> QED BY <1>5, <2>1, <2>2
<1>10. \A j \in 1..n : long[(m + 1) + k + j] = p[j]
  <2>1. \A j \in 1..n : k + 1 + j \in 1..Len(s) /\ (m + 1) + k + j = m + (k + 1 + j)
    BY <1>1, <1>6
  <2>2. \A j \in 1..n : s[k + 1 + j] = p[j]
    BY <1>2, Zenon
  <2> QED BY <1>5, <2>1, <2>2
<1>11. (m + 1) + k + n + 1 <= Len(long) /\ m + 1 \in 1..Len(long)
  BY <1>1, <1>5, <1>6
<1>12. Written(long, m + 1, n)
  BY <1>c, <1>d, <1>8, <1>9, <1>11, Zenon DEF Written
<1>13. Item(long, m + 1, p)
  BY <1>1, <1>b, <1>c, <1>d, <1>10, <1>11, <1>12, Zenon DEF Item
<1>14. Len(long) = m + EncodedLength(n)
  BY <1>2, <1>5, Zenon
<1> QED BY <1>a, <1>b, <1>e, <1>3, <1>4, <1>13, <1>14, Zenon

Chain(data, ps, offs) ==
    /\ offs[1] = 1 /\ offs[Len(ps) + 1] = Len(data) + 1
    /\ \A i \in 1..Len(ps) :
           Item(data, offs[i], ps[i]) /\ offs[i + 1] = After1(offs[i], ps[i])

Chained(data, ps) == \E offs : Chain(data, ps, offs)

LEMMA ChainEmpty == Chained(<<>>, <<>>)
<1> DEFINE offs == [i \in 1..1 |-> 1]
<1>1. offs[1] = 1 /\ Len(<<>>) = 0
  OBVIOUS
<1> HIDE DEF offs
<1>2. Chain(<<>>, <<>>, offs)
  BY <1>1 DEF Chain
<1> QED BY <1>2 DEF Chained

(* A record more. *)
LEMMA ChainSnoc ==
    ASSUME NEW data \in Seq(Bytes), NEW ps \in Seq(Seq(Bytes)), NEW p \in Seq(Bytes),
           Chained(data, ps), Len(p) <= SizeMax
    PROVE  Chained(data \o Netstring(p), ps \o <<p>>)
<1>a. PICK offs : Chain(data, ps, offs)
  BY DEF Chained
<1>b. PICK long : long = data \o Netstring(p)
  OBVIOUS
<1>c. PICK qs : qs = ps \o <<p>>
  OBVIOUS
<1>d. PICK n : n = Len(ps)
  OBVIOUS
<1>e. PICK m : m = Len(data)
  OBVIOUS
<1>1. n \in Nat /\ m \in Nat
  BY <1>d, <1>e
<1>2. /\ Len(qs) = n + 1 /\ qs[n + 1] = p
      /\ \A i \in 1..n : qs[i] = ps[i] /\ ps[i] \in Seq(Bytes)
  <2>1. OneMore(qs, ps, p)
    BY <1>c, OneMoreShape, Zenon
  <2>2. \A i \in 1..n : ps[i] \in Seq(Bytes)
    BY <1>d, ElementOfSeq
  <2> QED BY <1>d, <2>1, <2>2 DEF OneMore
<1>3. /\ offs[1] = 1 /\ offs[n + 1] = m + 1
      /\ \A i \in 1..n : Item(data, offs[i], ps[i]) /\ offs[i + 1] = After1(offs[i], ps[i])
  BY <1>a, <1>d, <1>e, Zenon DEF Chain
<1>4. /\ Item(long, m + 1, p) /\ Len(long) = m + EncodedLength(Len(p))
      /\ Netstring(p) \in Seq(Bytes)
  <2>1. Item(long, m + 1, p) /\ Len(long) = m + EncodedLength(Len(p))
    BY <1>b, <1>e, ItemNew, Zenon
  <2>2. Netstring(p) \in Seq(Bytes)
    BY NetstringShape, Zenon
  <2> QED BY <2>1, <2>2
<1>5. EncodedLength(Len(p)) \in Nat
  BY DecimalTyped DEF EncodedLength
<1> DEFINE new == [i \in 1..(n + 2) |-> IF i = n + 2 THEN Len(long) + 1 ELSE offs[i]]
<1>6. /\ new[n + 2] = Len(long) + 1
      /\ \A i \in 1..(n + 1) : new[i] = offs[i]
  BY <1>1
<1> HIDE DEF new
<1>7. new[1] = 1 /\ new[n + 1] = m + 1 /\ new[Len(qs) + 1] = Len(long) + 1
  <2>1. 1 \in 1..(n + 1) /\ n + 1 \in 1..(n + 1) /\ (n + 1) + 1 = n + 2
    BY <1>1
  <2> QED BY <1>2, <1>3, <1>6, <2>1
<1>8. ASSUME NEW i \in 1..Len(qs)
      PROVE  Item(long, new[i], qs[i]) /\ new[i + 1] = After1(new[i], qs[i])
  <2>1. CASE i \in 1..n
    <3>1. i \in 1..(n + 1) /\ i + 1 \in 1..(n + 1)
      BY <1>1, <2>1
    <3>2. Item(data, offs[i], ps[i]) /\ offs[i + 1] = After1(offs[i], ps[i])
      BY <1>3, <2>1
    <3>3. Item(long, offs[i], ps[i])
      BY <1>2, <1>4, <1>b, <2>1, <3>2, ItemAppend, Zenon
    <3> QED BY <1>2, <1>6, <2>1, <3>1, <3>2, <3>3, Zenon
  <2>2. CASE i = n + 1
    <3>1. new[i] = m + 1 /\ qs[i] = p /\ new[i + 1] = Len(long) + 1
      <4>1. (n + 1) + 1 = n + 2
        BY <1>1
      <4> QED BY <1>2, <1>6, <1>7, <2>2, <4>1
    <3>2. Len(long) + 1 = After1(m + 1, p)
      BY <1>1, <1>4, <1>5 DEF After1
    <3> QED BY <1>4, <3>1, <3>2
  <2>3. i \in 1..n \/ i = n + 1
    BY <1>1, <1>2
  <2> QED BY <2>1, <2>2, <2>3
<1>9. Chain(long, qs, new)
  BY <1>7, <1>8 DEF Chain
<1> QED BY <1>9, <1>b, <1>c, Zenon DEF Chained


(* Reading the records of a text in turn, from the last one back. *)
LEMMA NextRange ==
    ASSUME NEW data \in Seq(Bytes), NEW start \in 1..(Len(data) + 1),
           NextRecord(data, start).status = "ok"
    PROVE  NextRecord(data, start).next \in (start + 1)..(Len(data) + 1)
<1>1. CASE start > Len(data)
  <2>1. NextRecord(data, start) = Stopped("done")
    BY <1>1, Zenon DEF NextRecord
  <2> QED BY <2>1 DEF Stopped
<1>2. CASE ~(start > Len(data))
  <2>1. start \in 1..Len(data)
    BY <1>2
  <2>2. PICK n \in 0..SizeMax : Written(data, start, n)
    BY <2>1, NextRecordOk
  <2>3. n \in Nat
    BY <2>2, SizeAssumption
  <2>4. NextRecord(data, start) = RecordFound(data, start, n)
    BY <2>1, <2>2, NextFound, Zenon
  <2> QED BY <2>1, <2>2, <2>3, <2>4, FoundShape
<1> QED BY <1>1, <1>2

RecordStep(data, g, s) ==
    LET record == NextRecord(data, s)
        rest   == g[record.next]
    IN IF record.status # "ok"
       THEN [status |-> record.status, payloads |-> <<>>]
       ELSE [status   |-> rest.status,
             payloads |-> <<record.payload>> \o rest.payloads]

(* The recursion of Records is founded: every record ends further on. *)
LEMMA RecordsUpto ==
    ASSUME NEW data \in Seq(Bytes)
    PROVE  \A k \in 0..Len(data) : \E g :
               g = [s \in (Len(data) + 1 - k)..(Len(data) + 1) |-> RecordStep(data, g, s)]
<1>a. PICK l : l = Len(data)
  OBVIOUS
<1>0. l \in Nat
  BY <1>a
<1> DEFINE Bad == {k \in 0..l : ~ \E g :
                     g = [s \in (l + 1 - k)..(l + 1) |-> RecordStep(data, g, s)]}
<1> SUFFICES ASSUME Bad # {} PROVE FALSE
  BY <1>a
<1>1. PICK k \in Bad : \A j \in Bad : k <= j
  <2>1. Bad \in SUBSET Nat
    BY <1>0
  <2> HIDE DEF Bad
  <2> QED BY <2>1, LeastNat
<1>b. PICK m : m = l + 1 - k
  OBVIOUS
<1>2. k \in 0..l /\ m \in 1..(l + 1) /\ m \in Nat
  BY <1>0, <1>1, <1>b
<1>3. PICK g : k # 0 => g = [s \in (m + 1)..(l + 1) |-> RecordStep(data, g, s)]
  <2>1. CASE k = 0
    BY <2>1
  <2>2. CASE k # 0
    <3>1. k - 1 \in 0..l /\ k - 1 \notin Bad
      <4>1. k - 1 \in 0..l /\ k - 1 \in Nat /\ k \in Nat /\ ~(k <= k - 1)
        BY <1>0, <1>2, <2>2
      <4> HIDE DEF Bad
      <4> QED BY <1>1, <4>1
    <3>2. l + 1 - (k - 1) = m + 1
      BY <1>0, <1>2, <1>b
    <3> QED BY <3>1, <3>2
  <2> QED BY <2>1, <2>2
<1> DEFINE h == [s \in m..(l + 1) |-> RecordStep(data, g, s)]
<1>4. ASSUME NEW s \in m..(l + 1) PROVE RecordStep(data, g, s) = RecordStep(data, h, s)
  <2>a. PICK record : record = NextRecord(data, s)
    OBVIOUS
  <2>1. CASE record.status # "ok"
    BY <2>a, <2>1 DEF RecordStep
  <2>2. CASE record.status = "ok"
    <3>1. s \in 1..(Len(data) + 1)
      BY <1>0, <1>2, <1>a
    <3>2. record.next \in (s + 1)..(l + 1)
      BY <1>a, <2>a, <2>2, <3>1, NextRange
    <3>3. k # 0 /\ record.next \in (m + 1)..(l + 1) /\ record.next \in m..(l + 1)
      BY <1>0, <1>2, <1>b, <3>2
    <3>4. g[record.next] = RecordStep(data, g, record.next)
      BY <1>3, <3>3
    <3>5. h[record.next] = RecordStep(data, g, record.next)
      BY <3>3
    <3> HIDE DEF h
    <3> QED BY <2>a, <3>4, <3>5 DEF RecordStep
  <2> QED BY <2>1, <2>2
<1>5. h = [s \in m..(l + 1) |-> RecordStep(data, h, s)]
  BY <1>4
<1> HIDE DEF h
<1>6. \E f : f = [s \in (l + 1 - k)..(l + 1) |-> RecordStep(data, f, s)]
  BY <1>5, <1>b, Zenon
<1> QED BY <1>1, <1>6

LEMMA RecordsDef ==
    ASSUME NEW data \in Seq(Bytes)
    PROVE  \E g : /\ g = [s \in 1..(Len(data) + 1) |-> RecordStep(data, g, s)]
                  /\ Records(data) = g[1]
<1> DEFINE g == CHOOSE g : g = [s \in 1..(Len(data) + 1) |-> RecordStep(data, g, s)]
<1>1. \E f : f = [s \in 1..(Len(data) + 1) |-> RecordStep(data, f, s)]
  <2>1. Len(data) \in 0..Len(data) /\ Len(data) + 1 - Len(data) = 1
    OBVIOUS
  <2>2. \E f : f = [s \in (Len(data) + 1 - Len(data))..(Len(data) + 1) |-> RecordStep(data, f, s)]
    BY <2>1, RecordsUpto, Zenon
  <2> QED BY <2>1, <2>2, Zenon
<1>2. g = [s \in 1..(Len(data) + 1) |-> RecordStep(data, g, s)]
  BY <1>1, Zenon
<1>3. Records(data) = g[1]
  BY Zenon DEF Records, RecordStep
<1> HIDE DEF g
<1> QED BY <1>2, <1>3

(* A chain of records is read as its payloads. *)
LEMMA ChainRecords ==
    ASSUME NEW data \in Seq(Bytes), NEW ps \in Seq(Seq(Bytes)), Chained(data, ps)
    PROVE  Records(data) = [status |-> "done", payloads |-> ps]
<1>a. PICK offs : Chain(data, ps, offs)
  BY DEF Chained
<1>b. PICK g : /\ g = [s \in 1..(Len(data) + 1) |-> RecordStep(data, g, s)]
               /\ Records(data) = g[1]
  BY RecordsDef
<1>c. PICK n : n = Len(ps)
  OBVIOUS
<1>d. PICK l : l = Len(data)
  OBVIOUS
<1>0. n \in Nat /\ l \in Nat
  BY <1>c, <1>d
<1>1. \A s \in 1..(l + 1) : g[s] = RecordStep(data, g, s)
  BY <1>b, <1>d
<1>2. /\ offs[1] = 1 /\ offs[n + 1] = l + 1
      /\ \A i \in 1..n : Item(data, offs[i], ps[i]) /\ offs[i + 1] = After1(offs[i], ps[i])
  BY <1>a, <1>c, <1>d, Zenon DEF Chain
<1> DEFINE R(i) == [status |-> "done", payloads |-> SubSeq(ps, i, n)]
           Bad == {k \in 0..n : g[offs[n + 1 - k]] # R(n + 1 - k)}
<1>3. Bad = {}
  <2> SUFFICES ASSUME Bad # {} PROVE FALSE
    OBVIOUS
  <2>1. PICK k \in Bad : \A j \in Bad : k <= j
    <3>1. Bad \in SUBSET Nat
      BY <1>0
    <3> HIDE DEF Bad
    <3> QED BY <3>1, LeastNat
  <2>b. PICK i : i = n + 1 - k
    OBVIOUS
  <2>2. k \in 0..n /\ g[offs[i]] # R(i) /\ i \in 1..(n + 1)
    BY <1>0, <2>1, <2>b
  <2>3. CASE k = 0
    <3>1. offs[i] = l + 1 /\ i = n + 1
      BY <1>0, <1>2, <2>b, <2>3
    <3>2. NextRecord(data, l + 1) = Stopped("done")
      <4>1. l + 1 > Len(data)
        BY <1>0, <1>d
      <4> QED BY <4>1, Zenon DEF NextRecord
    <3>3. g[l + 1] = RecordStep(data, g, l + 1)
      BY <1>0, <1>1
    <3>4. g[l + 1] = [status |-> "done", payloads |-> <<>>]
      <4>1. Stopped("done").status = "done"
        BY DEF Stopped
      <4> QED BY <3>2, <3>3, <4>1 DEF RecordStep
    <3>5. SubSeq(ps, n + 1, n) = <<>>
      BY <1>0, SubSeqEmpty
    <3> QED BY <2>2, <3>1, <3>4, <3>5
  <2>4. CASE k # 0
    <3>1. i \in 1..n /\ k - 1 \in 0..n /\ n + 1 - (k - 1) = i + 1
      BY <1>0, <2>2, <2>4, <2>b
    <3>2. k - 1 \notin Bad
      BY <2>1, <2>2
    <3>3. g[offs[i + 1]] = R(i + 1)
      BY <3>1, <3>2
    <3>4. Item(data, offs[i], ps[i]) /\ offs[i + 1] = After1(offs[i], ps[i])
          /\ ps[i] \in Seq(Bytes)
      <4>1. ps[i] \in Seq(Bytes)
        BY <1>c, <3>1, ElementOfSeq
      <4> QED BY <1>2, <3>1, <4>1
    <3>5. NextRecord(data, offs[i]) =
              [status |-> "ok", payload |-> ps[i], next |-> offs[i + 1]]
      <4>1. data \in Seq(Bytes)
        BY <1>d, Zenon
      <4>2. NextRecord(data, offs[i]) =
                [status |-> "ok", payload |-> ps[i], next |-> After1(offs[i], ps[i])]
        BY ONLY <3>4, <4>1, ItemNext
      <4> QED BY <3>4, <4>2, Zenon
    <3>6. offs[i] \in 1..(l + 1)
      <4>1. offs[i] \in 1..Len(data)
        BY <3>4 DEF Item
      <4> QED BY <1>0, <1>d, <4>1
    <3>7. g[offs[i]] = RecordStep(data, g, offs[i])
      BY <1>1, <3>6
    <3>8. g[offs[i]] = [status |-> "done", payloads |-> <<ps[i]>> \o SubSeq(ps, i + 1, n)]
      <4>1. R(i + 1).status = "done" /\ R(i + 1).payloads = SubSeq(ps, i + 1, n)
        OBVIOUS
      <4>2. PICK record : record = NextRecord(data, offs[i])
        OBVIOUS
      <4>3. record.status = "ok" /\ record.payload = ps[i] /\ record.next = offs[i + 1]
        BY <3>5, <4>2
      <4>4. g[offs[i]] = [status   |-> g[record.next].status,
                          payloads |-> <<record.payload>> \o g[record.next].payloads]
        BY <3>7, <4>2, <4>3, Zenon DEF RecordStep
      <4>5. g[record.next].status = "done" /\ g[record.next].payloads = SubSeq(ps, i + 1, n)
        BY <3>3, <4>1, <4>3, Zenon
      <4> QED BY <4>3, <4>4, <4>5, Zenon
    <3>9. SubSeq(ps, i, n) = <<ps[i]>> \o SubSeq(ps, i + 1, n)
      <4>1. n = Len(ps) /\ n \in Nat
        BY <1>0, <1>c
      <4>2. i \in 1..Len(ps) /\ n \in i..Len(ps)
        BY ONLY <3>1, <4>1
      <4>3. ps \in Seq(Seq(Bytes))
        BY <1>c, Zenon
      <4> QED BY ONLY <4>2, <4>3, SubSeqRecursiveFirst
    <3> QED BY <2>2, <3>8, <3>9
  <2> QED BY <2>3, <2>4
<1>4. g[offs[1]] = R(1)
  <2>1. n \in 0..n /\ n + 1 - n = 1
    BY <1>0
  <2>2. n \notin Bad
    BY <1>3
  <2> QED BY <2>1, <2>2
<1>5. SubSeq(ps, 1, n) = ps
  BY <1>c, SubSeqFull
<1> QED BY <1>2, <1>4, <1>5, <1>b

-------------------------------------------------------------------------------
(* A record of a tag and a value                                           *)

LEMMA Singleton ==
    ASSUME NEW S, NEW x \in S
    PROVE  <<x>> \in Seq(S) /\ Len(<<x>>) = 1 /\ <<x>>[1] = x
OBVIOUS

LEMMA Pair ==
    ASSUME NEW S, NEW x \in S, NEW y \in S
    PROVE  <<x>> \o <<y>> = <<x, y>> /\ <<x, y>> \in Seq(S)
<1>1. <<x, y>> \in Seq(S)
  OBVIOUS
<1>2. <<x>> \o <<y>> = <<x, y>>
  <2>1. <<x>> \in Seq(S) /\ Len(<<x>>) = 1 /\ <<x>>[1] = x
    OBVIOUS
  <2>2. <<x>> \o <<y>> \in Seq(S) /\ OneMore(<<x>> \o <<y>>, <<x>>, y)
    BY <2>1, OneMoreShape, Zenon
  <2> PICK t : t = <<x>> \o <<y>>
    OBVIOUS
  <2> PICK u : u = <<x, y>>
    OBVIOUS
  <2>3. Len(t) = 2 /\ t[1] = x /\ t[2] = y /\ t \in Seq(S)
    BY <2>1, <2>2 DEF OneMore
  <2>4. Len(u) = 2 /\ u[1] = x /\ u[2] = y /\ u \in Seq(S)
    BY <1>1
  <2>5. t = u
    <3>1. \A i \in 1..Len(t) : i = 1 \/ i = 2
      BY <2>3
    <3>2. \A i \in 1..Len(t) : t[i] = u[i]
      BY <2>3, <2>4, <3>1, Zenon
    <3> QED BY <2>3, <2>4, <3>2, SeqEqual
  <2> QED BY <2>5
<1> QED BY <1>1, <1>2

LEMMA EmptyText ==
    ASSUME NEW S
    PROVE  <<>> \in Seq(S) /\ Len(<<>>) = 0 /\ \A s \in Seq(S) : s \o <<>> = s /\ <<>> \o s = s
<1>1. <<>> \in Seq(S) /\ Len(<<>>) = 0
  OBVIOUS
<1>2. \A s \in Seq(S) : s \o <<>> = s /\ <<>> \o s = s
  BY ConcatEmptySeq
<1> QED BY <1>1, <1>2

(* A record is longer than its payload. *)
LEMMA NetstringLonger ==
    ASSUME NEW p \in Seq(Bytes)
    PROVE  /\ Netstring(p) \in Seq(Bytes) /\ Len(Netstring(p)) = EncodedLength(Len(p))
           /\ EncodedLength(Len(p)) \in Nat /\ EncodedLength(Len(p)) > Len(p) + 2
<1>1. Netstring(p) \in Seq(Bytes) /\ Len(Netstring(p)) = EncodedLength(Len(p))
  BY NetstringShape, Zenon
<1>2. PICK n : n = Len(p)
  OBVIOUS
<1>3. n \in Nat
  BY <1>2
<1>4. Len(Decimal[n]) \in Nat \ {0}
  BY <1>3, DecimalTyped
<1>5. EncodedLength(n) \in Nat /\ EncodedLength(n) > n + 2
  BY <1>3, <1>4 DEF EncodedLength
<1> QED BY <1>1, <1>2, <1>5

LEMMA NetstringGrows ==
    ASSUME NEW p \in Seq(Bytes)
    PROVE  /\ Netstring(p) \in Seq(Bytes) /\ Len(Netstring(p)) \in Nat
           /\ Len(Netstring(p)) > Len(p)
<1> PICK n : n = Len(p)
  OBVIOUS
<1>1. /\ Netstring(p) \in Seq(Bytes) /\ Len(Netstring(p)) = EncodedLength(n)
      /\ EncodedLength(n) \in Nat /\ EncodedLength(n) > n + 2 /\ n \in Nat
  BY NetstringLonger
<1>2. EncodedLength(n) > n
  BY <1>1
<1> QED BY <1>1, <1>2

(* Both lengths count: the longest netpattern is far shorter than SIZE_MAX. *)
LEMMA PatternFits ==
    /\ MaxNetpatternLen \in Nat \ {0} /\ SizeMax \in Nat /\ MaxNetpatternLen < SizeMax
    /\ 1 <= SizeMax
<1>1. MaxNetpatternLen \in Nat \ {0} /\ SizeMax \in Nat \ {0}
  BY TextAssumption, SizeAssumption
<1>2. PICK n : n = MaxNetpatternLen - 1
  OBVIOUS
<1>3. n \in 0..(MaxNetpatternLen - 1) /\ n \in Nat
  BY <1>1, <1>2
<1>4. EncodedLength(n) + 2 < SizeMax
  BY <1>3, StoreAssumption
<1>5. Len(Decimal[n]) \in Nat \ {0}
  BY <1>3, DecimalTyped
<1>6. EncodedLength(n) \in Nat /\ EncodedLength(n) > n + 2
  BY <1>3, <1>5 DEF EncodedLength
<1> QED BY <1>1, <1>2, <1>3, <1>4, <1>6

Body(tag, v) == Netstring(<<tag>>) \o Netstring(v)

LEMMA ChainOne ==
    ASSUME NEW p \in Seq(Bytes), Len(p) <= SizeMax
    PROVE  Chained(Netstring(p), <<p>>)
<1>1. <<>> \in Seq(Bytes) /\ <<>> \in Seq(Seq(Bytes))
  BY EmptyText
<1>2. Chained(<<>> \o Netstring(p), <<>> \o <<p>>)
  BY <1>1, ChainEmpty, ChainSnoc, Zenon
<1>3. Netstring(p) \in Seq(Bytes) /\ <<p>> \in Seq(Seq(Bytes))
  BY NetstringLonger, Singleton
<1>4. <<>> \o Netstring(p) = Netstring(p) /\ <<>> \o <<p>> = <<p>>
  BY <1>3, EmptyText
<1> QED BY <1>2, <1>4

LEMMA ChainTwo ==
    ASSUME NEW p \in Seq(Bytes), NEW q \in Seq(Bytes), Len(p) <= SizeMax, Len(q) <= SizeMax
    PROVE  /\ Chained(Netstring(p) \o Netstring(q), <<p, q>>)
           /\ Netstring(p) \o Netstring(q) \in Seq(Bytes) /\ <<p, q>> \in Seq(Seq(Bytes))
<1>1. Netstring(p) \in Seq(Bytes) /\ Netstring(q) \in Seq(Bytes) /\ <<p>> \in Seq(Seq(Bytes))
  BY NetstringLonger, Singleton
<1>2. Chained(Netstring(p) \o Netstring(q), <<p>> \o <<q>>)
  BY <1>1, ChainOne, ChainSnoc, Zenon
<1>3. <<p>> \o <<q>> = <<p, q>> /\ <<p, q>> \in Seq(Seq(Bytes))
  BY Pair, Zenon
<1>4. Netstring(p) \o Netstring(q) \in Seq(Bytes)
  BY <1>1
<1> QED BY <1>2, <1>3, <1>4, Zenon

(* A token is longer than its body, and that than its value. *)
LEMMA BodyShape ==
    ASSUME NEW tag \in Bytes, NEW v \in Seq(Bytes)
    PROVE  /\ Body(tag, v) \in Seq(Bytes) /\ Len(v) + 2 < Len(Body(tag, v))
           /\ Tagged(tag, v) = Netstring(Body(tag, v)) /\ Tagged(tag, v) \in Seq(Bytes)
           /\ Len(v) + 2 < Len(Tagged(tag, v)) /\ Len(Body(tag, v)) < Len(Tagged(tag, v))
<1>a. PICK t : t = <<tag>>
  OBVIOUS
<1>1. t \in Seq(Bytes)
  BY <1>a, Singleton, Zenon
<1>2. /\ Netstring(t) \in Seq(Bytes) /\ Netstring(v) \in Seq(Bytes)
      /\ Len(Netstring(v)) > Len(v) + 2
  BY <1>1, NetstringLonger
<1>b. PICK b : b = Netstring(t) \o Netstring(v)
  OBVIOUS
<1>3. b \in Seq(Bytes) /\ Len(b) = Len(Netstring(t)) + Len(Netstring(v))
  BY <1>2, <1>b
<1>4. Len(b) > Len(v) + 2
  BY <1>2, <1>3
<1>5. Netstring(b) \in Seq(Bytes) /\ Len(Netstring(b)) > Len(b)
  BY <1>3, NetstringLonger
<1>6. Body(tag, v) = b /\ Tagged(tag, v) = Netstring(b)
  BY <1>a, <1>b, Zenon DEF Body, Tagged
<1>7. Len(Netstring(b)) > Len(v) + 2
  BY <1>3, <1>4, <1>5
<1> QED BY <1>3, <1>4, <1>5, <1>6, <1>7

(* A body reads as the tag and the value it was made from. *)
LEMMA BodyFields ==
    ASSUME NEW tag \in Bytes, NEW v \in Seq(Bytes), Len(v) <= SizeMax
    PROVE  Fields(Body(tag, v)) = [tag |-> tag, value |-> v]
<1>a. PICK t : t = <<tag>>
  OBVIOUS
<1>1. t \in Seq(Bytes) /\ Len(t) = 1 /\ t[1] = tag /\ Len(t) <= SizeMax
  BY <1>a, Singleton, PatternFits
<1>b. PICK b : b = Netstring(t) \o Netstring(v)
  OBVIOUS
<1>c. PICK ps : ps = <<t, v>>
  OBVIOUS
<1>2. Chained(b, ps) /\ b \in Seq(Bytes) /\ ps \in Seq(Seq(Bytes))
  BY <1>1, <1>b, <1>c, ChainTwo, Zenon
<1>3. Records(b) = [status |-> "done", payloads |-> ps]
  BY <1>2, ChainRecords
<1>4. Len(ps) = 2 /\ ps[1] = t /\ ps[2] = v
  BY <1>c
<1>5. FieldsOf(Records(b)) = [tag |-> tag, value |-> v]
  BY <1>1, <1>3, <1>4 DEF FieldsOf
<1> QED BY <1>a, <1>b, <1>5, Zenon DEF Fields, Body

-------------------------------------------------------------------------------
(* The tokens of a rule                                                    *)

LEMMA BytesKnown ==
    /\ "L" \in Bytes /\ "T" \in Bytes /\ "C" \in Bytes
    /\ \A t \in Types : Symbol[t] \in Seq(Bytes)
    /\ \A w \in Words : WordText[w] \in Seq(Bytes)
    /\ \A a \in Affixes : Prefix[a] \in Seq(Bytes) /\ Suffix[a] \in Seq(Bytes)
    /\ \A q \in Params : ParamName[q] \in Seq(Bytes)
<1>1. {"L", "T", "C"} \subseteq Bytes
  BY TextAssumption, Zenon
<1>2. /\ WordText \in [Words -> Seq(Bytes)]
      /\ Prefix \in [Affixes -> Seq(Bytes)] /\ Suffix \in [Affixes -> Seq(Bytes)]
      /\ Symbol \in [Types -> Seq(Bytes)] /\ ParamName \in [Params -> Seq(Bytes)]
  BY TextAssumption, Zenon
<1> QED BY <1>1, <1>2

LEMMA DotTyped ==
    ASSUME NEW s \in Seq(Bytes)
    PROVE  <<".">> \o s \in Seq(Bytes)
<1>1. "." \in Bytes
  BY TextAssumption, Zenon
<1>2. <<".">> \in Seq(Bytes)
  BY <1>1, Singleton, Zenon
<1> QED BY <1>2, ConcatShape, Zenon

LEMMA SpellingTyped ==
    ASSUME NEW w \in Wildcards
    PROVE  Spelling(w[1], w[2]) \in Seq(Bytes)
<1>1. CASE w \in {<<t, NoParam>> : t \in Types \ {LiteralType}}
  <2>1. PICK t \in Types : w = <<t, NoParam>>
    BY <1>1
  <2>2. Symbol[t] \o <<>> \in Seq(Bytes)
    BY BytesKnown, EmptyText
  <2>3. Spelling(t, NoParam) = Symbol[t] \o <<>>
    BY Zenon DEF Spelling
  <2> QED BY <2>1, <2>2, <2>3
<1>2. CASE w \in {<<ParamType[p], p>> : p \in Params}
  <2>1. PICK p \in Params : w = <<ParamType[p], p>>
    BY <1>2
  <2>2. ParamType[p] \in Types /\ p # NoParam
    BY TableAssumption
  <2>a. PICK name : name = ParamName[p]
    OBVIOUS
  <2>b. PICK dotted : dotted = <<".">> \o name
    OBVIOUS
  <2>3. dotted \in Seq(Bytes)
    BY <2>a, <2>b, BytesKnown, DotTyped, Zenon
  <2>4. Symbol[ParamType[p]] \o dotted \in Seq(Bytes)
    BY <2>2, <2>3, BytesKnown, ConcatShape, Zenon
  <2>5. Spelling(ParamType[p], p) = Symbol[ParamType[p]] \o dotted
    BY <2>2, <2>a, <2>b, Zenon DEF Spelling
  <2> QED BY <2>1, <2>4, <2>5
<1> QED BY <1>1, <1>2 DEF Wildcards

(* Every wildcard is its own canonical spelling, and nothing else is. *)
LEMMA OneSpelling ==
    ASSUME NEW w \in Wildcards
    PROVE  CanonicalWildcards(Spelling(w[1], w[2])) = {Spelling(w[1], w[2])}
<1>a. PICK text1 : text1 = Spelling(w[1], w[2])
  OBVIOUS
<1> DEFINE S == {s \in {Symbol[t] : t \in Types \ {LiteralType}} : s = text1}
           Q == {q \in Params : \E name \in ParamSpellings[q] :
                    text1 = Symbol[ParamType[q]] \o <<".">> \o name}
           P == {Spelling(ParamType[p], p) : p \in Q}
<1>1. /\ Len(text1) < MaxTokenLen /\ NUL \notin ToSet(text1)
      /\ \A q \in Params : \A name \in ParamSpellings[q] :
             text1 = Symbol[ParamType[q]] \o <<".">> \o name => w[2] = q
  BY <1>a, VocabularyAssumption, Zenon
<1>2. CanonicalWildcards(text1) = S \cup P
  <2>1. ~(Len(text1) >= MaxTokenLen)
    <3>1. \A a, b \in Int : a < b => ~(a >= b)
      OBVIOUS
    <3>2. Len(text1) \in Int /\ MaxTokenLen \in Int
      BY <1>a, SpellingTyped, TextAssumption
    <3> QED BY <1>1, <3>1, <3>2, Zenon
  <2> QED BY <1>1, <2>1, Zenon DEF CanonicalWildcards
<1>3. \A q \in Q : w[2] = q
  BY <1>1, Zenon
<1>4. S \subseteq {text1}
  OBVIOUS
<1>5. CASE w \in {<<t, NoParam>> : t \in Types \ {LiteralType}}
  <2>1. PICK t \in Types \ {LiteralType} : w = <<t, NoParam>>
    BY <1>5
  <2>2. text1 = Symbol[t]
    <3>1. Spelling(t, NoParam) = Symbol[t] \o <<>>
      BY Zenon DEF Spelling
    <3>2. Symbol[t] \in Seq(Bytes)
      BY BytesKnown
    <3> QED BY <1>a, <2>1, <3>1, <3>2, EmptyText
  <2>3. text1 \in S
    BY <2>2
  <2>4. Q = {}
    <3>1. w[2] = NoParam /\ NoParam \notin Params
      BY <2>1, TableAssumption
    <3> QED BY <1>3, <3>1
  <2>5. P = {}
    BY <2>4
  <2> HIDE DEF S, P
  <2> QED BY <1>2, <1>4, <1>a, <2>3, <2>5
<1>6. CASE w \in {<<ParamType[p], p>> : p \in Params}
  <2>1. PICK p \in Params : w = <<ParamType[p], p>>
    BY <1>6
  <2>2. w[1] = ParamType[p] /\ w[2] = p /\ p # NoParam
    BY <2>1, TableAssumption
  <2>3. p \in Q
    <3>1. ParamName[p] \in ParamSpellings[p]
      BY VocabularyAssumption, Zenon
    <3>2. text1 = Symbol[ParamType[p]] \o (<<".">> \o ParamName[p])
      BY <1>a, <2>2, Zenon DEF Spelling
    <3>3. Symbol[ParamType[p]] \in Seq(Bytes) /\ ParamName[p] \in Seq(Bytes)
      BY BytesKnown, TableAssumption
    <3>4. <<".">> \in Seq(Bytes)
      <4>1. "." \in Bytes
        BY TextAssumption, Zenon
      <4> QED BY <4>1, Singleton, Zenon
    <3>5. text1 = (Symbol[ParamType[p]] \o <<".">>) \o ParamName[p]
      <4>a. PICK dot : dot = <<".">>
        OBVIOUS
      <4>b. PICK s : s = Symbol[ParamType[p]]
        OBVIOUS
      <4>c. PICK n : n = ParamName[p]
        OBVIOUS
      <4>1. dot \in Seq(Bytes) /\ s \in Seq(Bytes) /\ n \in Seq(Bytes)
        BY <3>3, <3>4, <4>a, <4>b, <4>c, Zenon
      <4>2. (s \o dot) \o n = s \o (dot \o n)
        BY <4>1, ConcatAssociative
      <4> QED BY <3>2, <4>2, <4>a, <4>b, <4>c, Zenon
    <3> QED BY <3>1, <3>5, Zenon
  <2> HIDE DEF Q
  <2>4. \A s \in P : s = text1
    <3>1. \A q \in Q : Spelling(ParamType[q], q) = text1
      BY <1>3, <1>a, <2>2, Zenon
    <3> QED BY <3>1, Zenon
  <2>5. text1 \in P
    BY <1>a, <2>2, <2>3, Zenon
  <2> HIDE DEF S, P
  <2> QED BY <1>2, <1>4, <1>a, <2>4, <2>5
<1> QED BY <1>5, <1>6 DEF Wildcards

Reads(bytes, token) ==
    \E payload \in Seq(Bytes) :
        /\ bytes = Netstring(payload)
        /\ Len(bytes) < MaxNetpatternLen => DecodeToken(payload) = token

LEMMA RefusedFails == \A error : error # "ok" => Refused(error).status # "ok"
BY DEF Refused

LEMMA EncodedIs == \A bytes : Encoded(bytes).status = "ok" /\ Encoded(bytes).bytes = bytes
BY DEF Encoded

(* A value is shorter than the record of its token. *)
LEMMA BodyReads ==
    ASSUME NEW tag \in Bytes, NEW v \in Seq(Bytes), NEW token,
           Len(Tagged(tag, v)) < MaxNetpatternLen =>
               DecodeFields([tag |-> tag, value |-> v]) = token
    PROVE  Reads(Tagged(tag, v), token)
<1>1. /\ Body(tag, v) \in Seq(Bytes) /\ Len(v) + 2 < Len(Tagged(tag, v))
      /\ Tagged(tag, v) = Netstring(Body(tag, v)) /\ Tagged(tag, v) \in Seq(Bytes)
  BY BodyShape, Zenon
<1>2. ASSUME Len(Tagged(tag, v)) < MaxNetpatternLen
      PROVE  DecodeToken(Body(tag, v)) = token
  <2>1. Len(v) <= SizeMax
    BY <1>1, <1>2, PatternFits
  <2>2. Fields(Body(tag, v)) = [tag |-> tag, value |-> v]
    BY <2>1, BodyFields, Zenon
  <2> QED BY <1>2, <2>2, Zenon DEF DecodeToken
<1> QED BY <1>1, <1>2, Zenon DEF Reads

(* Literals and wildcards. *)
LEMMA PlainReads ==
    ASSUME NEW tag \in {"L", "T"}, NEW v \in Seq(Bytes), NEW type,
           Len(v) < MaxTokenLen,
           type = IF tag = "T" THEN WildType(v) ELSE LiteralType,
           tag = "T" => type # LiteralType
    PROVE  Reads(Tagged(tag, v), Plain(type, v))
<1>1. tag \in Bytes
  BY BytesKnown
<1>2. DecodeFields([tag |-> tag, value |-> v]) = DecodePlain(tag, v)
  <2> PICK f : f = [tag |-> tag, value |-> v]
    OBVIOUS
  <2>1. f.tag = tag /\ f.value = v
    OBVIOUS
  <2>2. DecodeFields(f) = DecodePlain(f.tag, f.value)
    <3>1. f.tag \in {"L", "T"} /\ f.tag # "C"
      BY <2>1
    <3> QED BY <3>1 DEF DecodeFields
  <2> QED BY <2>1, <2>2
<1>3. ~(Len(v) >= MaxTokenLen)
  BY TextAssumption
<1>4. DecodePlain(tag, v) = Plain(type, v)
  BY <1>3, Zenon DEF DecodePlain
<1> QED BY <1>1, <1>2, <1>4, BodyReads

LEMMA LiteralReads ==
    ASSUME NEW token \in LiteralToken, EncodeToken(RawToken(token)).status = "ok"
    PROVE  Reads(EncodeToken(RawToken(token)).bytes, RawToken(token))
<1>a. PICK v : v = WordText[token.word]
  OBVIOUS
<1>b. PICK raw : raw = RawToken(token)
  OBVIOUS
<1>1. token.kind = "lit" /\ token.word \in Words
  BY DEF LiteralToken
<1>2. v \in Seq(Bytes)
  BY <1>1, <1>a, BytesKnown
<1>3. raw = Plain(LiteralType, v)
  BY <1>1, <1>a, <1>b DEF RawToken
<1>4. raw.compound = FALSE /\ raw.type = LiteralType /\ raw.text = v
  BY <1>3 DEF Plain
<1>5. EncodeToken(raw) = IF Len(v) >= MaxTokenLen THEN Refused("limit")
                         ELSE Encoded(Tagged("L", v))
  BY <1>4, Zenon DEF EncodeToken, EncodePlain
<1>6. ~(Len(v) >= MaxTokenLen)
  <2>1. "limit" # "ok"
    OBVIOUS
  <2> QED BY <1>5, <1>b, <2>1, RefusedFails, Zenon
<1>7. EncodeToken(raw).bytes = Tagged("L", v)
  BY <1>5, <1>6, EncodedIs, Zenon
<1>8. Reads(Tagged("L", v), Plain(LiteralType, v))
  <2>1. Len(v) < MaxTokenLen
    BY <1>2, <1>6, TextAssumption
  <2> QED BY <1>2, <2>1, PlainReads
<1> QED BY <1>b, <1>3, <1>7, <1>8

LEMMA SpelledWildcard ==
    ASSUME NEW type \in Types \ {LiteralType}, NEW param \in Params \cup {NoParam},
           param # NoParam => ParamType[param] = type
    PROVE  LET v == Spelling(type, param) IN
           /\ v \in Seq(Bytes) /\ CanonicalWildcards(v) = {v} /\ Len(v) < MaxTokenLen
<1>1. <<type, param>> \in Wildcards
  BY DEF Wildcards
<1>a. PICK w : w = <<type, param>>
  OBVIOUS
<1>2. w \in Wildcards /\ w[1] = type /\ w[2] = param
  BY <1>1, <1>a
<1>3. Len(Spelling(w[1], w[2])) < MaxTokenLen
  BY <1>2, VocabularyAssumption, Zenon
<1>4. Spelling(w[1], w[2]) \in Seq(Bytes)
  BY <1>2, SpellingTyped
<1>5. CanonicalWildcards(Spelling(w[1], w[2])) = {Spelling(w[1], w[2])}
  BY <1>2, OneSpelling
<1> QED BY <1>2, <1>3, <1>4, <1>5, Zenon

LEMMA WildcardReads ==
    ASSUME NEW token \in WildcardToken, EncodeToken(RawToken(token)).status = "ok"
    PROVE  Reads(EncodeToken(RawToken(token)).bytes, RawToken(token))
<1>a. PICK v : v = Spelling(token.type, token.param)
  OBVIOUS
<1>b. PICK raw : raw = RawToken(token)
  OBVIOUS
<1>1. /\ token.kind = "wild" /\ token.type \in Types \ {LiteralType}
      /\ token.param \in Params \cup {NoParam}
      /\ token.param # NoParam => ParamType[token.param] = token.type
  BY DEF WildcardToken
<1>2. v \in Seq(Bytes) /\ CanonicalWildcards(v) = {v} /\ Len(v) < MaxTokenLen
  BY <1>1, <1>a, SpelledWildcard, Zenon
<1>3. raw = Plain(token.type, v)
  BY <1>1, <1>a, <1>b DEF RawToken
<1>4. raw.compound = FALSE /\ raw.type = token.type /\ raw.text = v
  BY <1>3 DEF Plain
<1>5. ~(Len(v) >= MaxTokenLen)
  BY <1>2, TextAssumption
<1>6. EncodeToken(raw) = IF WildType(v) # token.type THEN Refused("format")
                         ELSE Encoded(Tagged("T", CHOOSE w \in {v} : TRUE))
  <2>1. raw.type # LiteralType
    BY <1>1, <1>4
  <2>2. {v} # {}
    OBVIOUS
  <2>3. EncodeToken(raw) = EncodePlain(raw)
    BY <1>4, Zenon DEF EncodeToken
  <2> DEFINE wilds == IF raw.type = LiteralType THEN {} ELSE CanonicalWildcards(raw.text)
  <2>4. wilds = {v} /\ wilds # {}
    BY <1>2, <1>4, <2>1, <2>2, Zenon
  <2>5. EncodePlain(raw) =
            IF Len(raw.text) >= MaxTokenLen THEN Refused("limit")
            ELSE IF wilds = {} THEN Encoded(Tagged("L", raw.text))
            ELSE IF WildType(raw.text) # raw.type THEN Refused("format")
            ELSE Encoded(Tagged("T", CHOOSE w \in wilds : TRUE))
    BY Zenon DEF EncodePlain
  <2> HIDE DEF wilds
  <2>6. EncodePlain(raw) =
            IF WildType(raw.text) # raw.type THEN Refused("format")
            ELSE Encoded(Tagged("T", CHOOSE w \in wilds : TRUE))
    BY <1>4, <1>5, <2>4, <2>5, Zenon
  <2> QED BY <1>4, <2>3, <2>4, <2>6, Zenon
<1>7. WildType(v) = token.type
  <2>1. "format" # "ok"
    OBVIOUS
  <2> QED BY <1>6, <1>b, <2>1, RefusedFails, Zenon
<1>8. (CHOOSE w \in {v} : TRUE) = v
  OBVIOUS
<1>9. EncodeToken(raw).bytes = Tagged("T", v)
  BY <1>6, <1>7, <1>8, EncodedIs, Zenon
<1>10. Reads(Tagged("T", v), Plain(token.type, v))
  <2>1. token.type # LiteralType
    BY <1>1
  <2> QED BY <1>2, <1>7, <2>1, PlainReads
<1> QED BY <1>b, <1>3, <1>9, <1>10

(* A compound: a wildcard between literals, at least one of them not empty. *)
Parted(parts, n, k, prefix, suffix) ==
    /\ n \in Nat /\ k \in 1..n /\ DOMAIN parts = 1..n /\ Len(parts) = n
    /\ parts[k].tag = "T" /\ \A i \in 1..n : i # k => parts[i].tag # "T"
    /\ [i \in 1..n |-> parts[i].tag] \in {<<"L", "T">>, <<"T", "L">>, <<"L", "T", "L">>}
    /\ \A i \in 1..n : ~(Len(parts[i].value) >= MaxTokenLen)
    /\ prefix = (IF k = 1 THEN <<>> ELSE parts[1].value)
    /\ suffix = (IF k = n THEN <<>> ELSE parts[n].value)
    /\ WildType(parts[k].value) # LiteralType
    /\ ~(prefix = <<>> /\ suffix = <<>>)

LEMMA PartsDecoded ==
    ASSUME NEW parts, NEW n, NEW k, NEW prefix, NEW suffix, Parted(parts, n, k, prefix, suffix)
    PROVE  DecodeParts(parts) =
               Compound(WildType(parts[k].value), prefix, parts[k].value, suffix)
<1> PICK type : type = WildType(parts[k].value)
  OBVIOUS
<1>0. /\ n \in Nat /\ k \in 1..n /\ DOMAIN parts = 1..n /\ Len(parts) = n
      /\ parts[k].tag = "T" /\ \A i \in 1..n : i # k => parts[i].tag # "T"
      /\ [i \in 1..n |-> parts[i].tag] \in {<<"L", "T">>, <<"T", "L">>, <<"L", "T", "L">>}
      /\ \A i \in 1..n : ~(Len(parts[i].value) >= MaxTokenLen)
      /\ prefix = (IF k = 1 THEN <<>> ELSE parts[1].value)
      /\ suffix = (IF k = n THEN <<>> ELSE parts[n].value)
      /\ type # LiteralType
      /\ ~(prefix = <<>> /\ suffix = <<>>)
  BY Zenon DEF Parted
<1> DEFINE tags  == [i \in DOMAIN parts |-> parts[i].tag]
           typed == CHOOSE i \in DOMAIN parts : tags[i] = "T"
<1>1. \A i \in 1..n : tags[i] = parts[i].tag
  BY <1>0
<1>2. tags = [i \in 1..n |-> parts[i].tag]
  BY <1>0, Zenon
<1> HIDE DEF tags
<1>3. typed \in DOMAIN parts /\ tags[typed] = "T"
  <2>1. k \in DOMAIN parts /\ tags[k] = "T"
    BY <1>0, <1>1, Zenon
  <2> QED BY <2>1, Zenon
<1>4. typed = k
  BY <1>0, <1>1, <1>3, Zenon
<1> DEFINE pre == IF typed = 1 THEN <<>> ELSE parts[1].value
           suf == IF typed = Len(parts) THEN <<>> ELSE parts[Len(parts)].value
           ty  == WildType(parts[typed].value)
<1>5. DecodeParts(parts) =
         IF \/ tags \notin {<<"L", "T">>, <<"T", "L">>, <<"L", "T", "L">>}
            \/ \E i \in DOMAIN parts : Len(parts[i].value) >= MaxTokenLen
         THEN Malformed
         ELSE IF ty = LiteralType \/ (pre = <<>> /\ suf = <<>>)
         THEN Malformed
         ELSE Compound(ty, pre, parts[typed].value, suf)
  BY Zenon DEF DecodeParts, tags
<1> HIDE DEF typed
<1>6. pre = prefix /\ suf = suffix /\ ty = type
  BY <1>0, <1>4, Zenon
<1> HIDE DEF pre, suf, ty
<1>7. DecodeParts(parts) = Compound(ty, pre, parts[typed].value, suf)
  BY <1>0, <1>2, <1>5, <1>6, Zenon
<1> QED BY <1>4, <1>6, <1>7, Zenon

LEMMA TwoParts ==
    ASSUME NEW a, NEW b, a.tag \in {"L", "T"}, b.tag \in {"L", "T"}, a.tag # b.tag,
           NEW v, v = (IF a.tag = "T" THEN a.value ELSE b.value),
           NEW w, w = (IF a.tag = "T" THEN b.value ELSE a.value),
           ~(Len(a.value) >= MaxTokenLen), ~(Len(b.value) >= MaxTokenLen),
           WildType(v) # LiteralType, w # <<>>
    PROVE  DecodeParts(<<a, b>>) =
               IF a.tag = "T" THEN Compound(WildType(v), <<>>, v, w)
               ELSE Compound(WildType(v), w, v, <<>>)
<1>a. PICK parts : parts = <<a, b>>
  OBVIOUS
<1>1. DOMAIN parts = 1..2 /\ Len(parts) = 2 /\ parts[1] = a /\ parts[2] = b
  BY <1>a
<1>2. \A i \in 1..2 : i = 1 \/ i = 2
  OBVIOUS
<1>3. \A i \in 1..2 : ~(Len(parts[i].value) >= MaxTokenLen)
  BY <1>1, <1>2, Zenon
<1>4. 1 \in 1..2 /\ 2 \in 1..2 /\ 2 \in Nat /\ 1 # 2
  OBVIOUS
<1>5. CASE a.tag = "T"
  <2>1. b.tag = "L" /\ "L" # "T"
    BY <1>5
  <2>2. \A i \in 1..2 : i # 1 => parts[i].tag # "T"
    BY <1>1, <1>2, <2>1
  <2>3. [i \in 1..2 |-> parts[i].tag] = <<"T", "L">>
    BY <1>1, <1>5, <2>1
  <2>4. parts[1].value = v /\ w = parts[2].value
    BY <1>1, <1>5, Zenon
  <2>5. [i \in 1..2 |-> parts[i].tag] \in {<<"L", "T">>, <<"T", "L">>, <<"L", "T", "L">>}
    BY <2>3, Zenon
  <2>6. <<>> = (IF 1 = 1 THEN <<>> ELSE parts[1].value)
    BY <1>4, <2>4, Zenon
  <2>7. w = (IF 1 = 2 THEN <<>> ELSE parts[2].value)
    BY <1>4, <2>4, Zenon
  <2>8. Parted(parts, 2, 1, <<>>, w)
    BY <1>1, <1>3, <1>4, <1>5, <2>2, <2>3, <2>4, <2>5, <2>6, <2>7, Zenon DEF Parted
  <2>9. DecodeParts(parts) = Compound(WildType(v), <<>>, v, w)
    <3>1. DecodeParts(parts) =
              Compound(WildType(parts[1].value), <<>>, parts[1].value, w)
      BY ONLY <2>8, PartsDecoded
    <3>2. parts[1].value = v
      BY <2>4
    <3> QED BY ONLY <3>1, <3>2
  <2> QED BY <1>a, <1>5, <2>9, Zenon
<1>6. CASE a.tag # "T"
  <2>1. a.tag = "L" /\ b.tag = "T"
    BY <1>6
  <2>2. \A i \in 1..2 : i # 2 => parts[i].tag # "T"
    BY <1>1, <1>2, <1>6, Zenon
  <2>3. [i \in 1..2 |-> parts[i].tag] = <<"L", "T">>
    BY <1>1, <2>1
  <2>4. parts[2].value = v /\ w = parts[1].value
    BY <1>1, <1>6, Zenon
  <2>5. [i \in 1..2 |-> parts[i].tag] \in {<<"L", "T">>, <<"T", "L">>, <<"L", "T", "L">>}
    BY <2>3, Zenon
  <2>6. w = (IF 2 = 1 THEN <<>> ELSE parts[1].value)
    BY <1>4, <2>4, Zenon
  <2>7. <<>> = (IF 2 = 2 THEN <<>> ELSE parts[2].value)
    BY <1>4, <2>4, Zenon
  <2>8. Parted(parts, 2, 2, w, <<>>)
    BY <1>1, <1>3, <1>4, <1>6, <2>1, <2>2, <2>3, <2>4, <2>5, <2>6, <2>7, Zenon DEF Parted
  <2>9. DecodeParts(parts) = Compound(WildType(v), w, v, <<>>)
    <3>1. DecodeParts(parts) =
              Compound(WildType(parts[2].value), w, parts[2].value, <<>>)
      BY ONLY <2>8, PartsDecoded
    <3>2. parts[2].value = v
      BY <2>4
    <3> QED BY ONLY <3>1, <3>2
  <2> QED BY <1>a, <1>6, <2>9, Zenon
<1> QED BY <1>5, <1>6

LEMMA ThreeParts ==
    ASSUME NEW a, NEW b, NEW c, a.tag = "L", b.tag = "T", c.tag = "L",
           ~(Len(a.value) >= MaxTokenLen), ~(Len(b.value) >= MaxTokenLen),
           ~(Len(c.value) >= MaxTokenLen),
           WildType(b.value) # LiteralType, a.value # <<>>
    PROVE  DecodeParts(<<a, b, c>>) = Compound(WildType(b.value), a.value, b.value, c.value)
<1>a. PICK parts : parts = <<a, b, c>>
  OBVIOUS
<1>1. DOMAIN parts = 1..3 /\ Len(parts) = 3 /\ parts[1] = a /\ parts[2] = b /\ parts[3] = c
  BY <1>a
<1>2. \A i \in 1..3 : i = 1 \/ i = 2 \/ i = 3
  OBVIOUS
<1>3. \A i \in 1..3 : ~(Len(parts[i].value) >= MaxTokenLen)
  BY <1>1, <1>2, Zenon
<1>4. 2 \in 1..3 /\ 3 \in Nat /\ 2 # 1 /\ 2 # 3
  OBVIOUS
<1>5. \A i \in 1..3 : i # 2 => parts[i].tag # "T"
  <2>1. "L" # "T"
    OBVIOUS
  <2> QED BY <1>1, <1>2, <2>1, Zenon
<1>6. [i \in 1..3 |-> parts[i].tag] = <<"L", "T", "L">>
  BY <1>1
<1>7. DecodeParts(parts) = Compound(WildType(b.value), a.value, b.value, c.value)
  <2>1. [i \in 1..3 |-> parts[i].tag] \in {<<"L", "T">>, <<"T", "L">>, <<"L", "T", "L">>}
    BY <1>6, Zenon
  <2>2. a.value = (IF 2 = 1 THEN <<>> ELSE parts[1].value)
    BY <1>1, <1>4, Zenon
  <2>3. c.value = (IF 2 = 3 THEN <<>> ELSE parts[3].value)
    BY <1>1, <1>4, Zenon
  <2>4. Parted(parts, 3, 2, a.value, c.value)
    BY <1>1, <1>3, <1>4, <1>5, <2>1, <2>2, <2>3, Zenon DEF Parted
  <2>5. DecodeParts(parts) =
            Compound(WildType(parts[2].value), a.value, parts[2].value, c.value)
    BY ONLY <2>4, PartsDecoded
  <2> QED BY <1>1, <2>5, Zenon
<1> QED BY <1>a, <1>7, Zenon

(* What a compound's value holds reads back as its parts. *)
LEMMA RecordsParts ==
    ASSUME NEW value \in Seq(Bytes), NEW ps \in Seq(Seq(Bytes)), Chained(value, ps)
    PROVE  DecodeCompound(value) = DecodeParts([i \in DOMAIN ps |-> Fields(ps[i])])
<1>a. PICK r : r = Records(value)
  OBVIOUS
<1>1. r = [status |-> "done", payloads |-> ps]
  BY <1>a, ChainRecords
<1>2. r.status = "done" /\ r.payloads = ps
  BY <1>1
<1>3. DecodeRecords(r) = DecodeParts([i \in DOMAIN r.payloads |-> Fields(r.payloads[i])])
  BY <1>2, Zenon DEF DecodeRecords
<1>4. DecodeCompound(value) = DecodeRecords(r)
  BY <1>a, Zenon DEF DecodeCompound
<1> QED BY <1>2, <1>3, <1>4

LEMMA FieldsShape ==
    ASSUME NEW tag \in {"L", "T"}, NEW v \in Seq(Bytes), Len(v) <= SizeMax
    PROVE  Fields(Body(tag, v)).tag = tag /\ Fields(Body(tag, v)).value = v
<1>1. tag \in Bytes
  BY BytesKnown
<1>2. Fields(Body(tag, v)) = [tag |-> tag, value |-> v]
  BY <1>1, BodyFields, Zenon
<1> QED BY <1>2

TwoParted(value, s, x, t, y, v, w) ==
    /\ s \in {"L", "T"} /\ t \in {"L", "T"} /\ s # t
    /\ x \in Seq(Bytes) /\ y \in Seq(Bytes)
    /\ Len(x) < MaxTokenLen /\ Len(y) < MaxTokenLen
    /\ v = (IF s = "T" THEN x ELSE y) /\ w = (IF s = "T" THEN y ELSE x)
    /\ WildType(v) # LiteralType /\ w # <<>>
    /\ value = Tagged(s, x) \o Tagged(t, y)

LEMMA TwoRead ==
    ASSUME NEW value, NEW s, NEW x, NEW t, NEW y, NEW v, NEW w,
           TwoParted(value, s, x, t, y, v, w)
    PROVE  /\ value \in Seq(Bytes)
           /\ Len(value) < MaxNetpatternLen =>
                  DecodeCompound(value) = IF s = "T" THEN Compound(WildType(v), <<>>, v, w)
                                          ELSE Compound(WildType(v), w, v, <<>>)
<1>h. /\ s \in {"L", "T"} /\ t \in {"L", "T"} /\ s # t
      /\ x \in Seq(Bytes) /\ y \in Seq(Bytes)
      /\ Len(x) < MaxTokenLen /\ Len(y) < MaxTokenLen
  BY Zenon DEF TwoParted
<1>v. v = (IF s = "T" THEN x ELSE y) /\ w = (IF s = "T" THEN y ELSE x)
  BY Zenon DEF TwoParted
<1>w. WildType(v) # LiteralType /\ w # <<>>
  BY Zenon DEF TwoParted
<1>x. value = Tagged(s, x) \o Tagged(t, y)
  BY Zenon DEF TwoParted
<1>0. s \in Bytes /\ t \in Bytes
  BY <1>h, BytesKnown
<1>a. PICK p : p = Body(s, x)
  OBVIOUS
<1>b. PICK q : q = Body(t, y)
  OBVIOUS
<1>1. /\ p \in Seq(Bytes) /\ Len(x) + 2 < Len(p)
      /\ Tagged(s, x) = Netstring(p) /\ Tagged(s, x) \in Seq(Bytes)
  BY <1>h, <1>0, <1>a, BodyShape, Zenon
<1>2. /\ q \in Seq(Bytes) /\ Len(y) + 2 < Len(q)
      /\ Tagged(t, y) = Netstring(q) /\ Tagged(t, y) \in Seq(Bytes)
  BY <1>h, <1>0, <1>b, BodyShape, Zenon
<1>3. value = Netstring(p) \o Netstring(q)
  BY <1>x, <1>1, <1>2, Zenon
<1>4. value \in Seq(Bytes)
  BY <1>x, <1>1, <1>2, ConcatShape, Zenon
<1> SUFFICES ASSUME Len(value) < MaxNetpatternLen
             PROVE  DecodeCompound(value) = IF s = "T" THEN Compound(WildType(v), <<>>, v, w)
                                            ELSE Compound(WildType(v), w, v, <<>>)
  BY <1>4
<1>5. Len(p) <= SizeMax /\ Len(q) <= SizeMax /\ Len(x) <= SizeMax /\ Len(y) <= SizeMax
  <2>0. /\ Netstring(p) \in Seq(Bytes) /\ Netstring(q) \in Seq(Bytes)
        /\ Len(Netstring(p)) > Len(p) /\ Len(Netstring(q)) > Len(q)
        /\ Len(Netstring(p)) \in Nat /\ Len(Netstring(q)) \in Nat
    BY <1>1, <1>2, NetstringGrows, Zenon
  <2>1. Len(value) = Len(Netstring(p)) + Len(Netstring(q))
    BY <1>3, <2>0
  <2>2. Len(Netstring(p)) > Len(p) /\ Len(Netstring(q)) > Len(q)
        /\ Len(Netstring(p)) \in Nat /\ Len(Netstring(q)) \in Nat
    BY <2>0
  <2>3. Len(p) <= SizeMax /\ Len(q) <= SizeMax
    BY <1>1, <1>2, <2>1, <2>2, PatternFits
  <2> QED BY <1>h, <1>1, <1>2, <2>3, PatternFits
<1>c. PICK ps : ps = <<p, q>>
  OBVIOUS
<1>6. Chained(value, ps) /\ ps \in Seq(Seq(Bytes))
  BY <1>1, <1>2, <1>3, <1>5, <1>c, ChainTwo, Zenon
<1>7. DecodeCompound(value) = DecodeParts([i \in DOMAIN ps |-> Fields(ps[i])])
  BY <1>4, <1>6, RecordsParts, Zenon
<1>8. [i \in DOMAIN ps |-> Fields(ps[i])] = <<Fields(p), Fields(q)>>
  BY <1>c
<1>d. PICK a : a = Fields(p)
  OBVIOUS
<1>e. PICK b : b = Fields(q)
  OBVIOUS
<1>9. a.tag = s /\ a.value = x /\ b.tag = t /\ b.value = y
  BY <1>h, <1>5, <1>a, <1>b, <1>d, <1>e, FieldsShape, Zenon
<1>10. ~(Len(x) >= MaxTokenLen) /\ ~(Len(y) >= MaxTokenLen)
  BY <1>h, TextAssumption
<1>11. DecodeParts(<<a, b>>) = IF a.tag = "T" THEN Compound(WildType(v), <<>>, v, w)
                               ELSE Compound(WildType(v), w, v, <<>>)
  <2>1. a.tag \in {"L", "T"} /\ b.tag \in {"L", "T"} /\ a.tag # b.tag
    BY <1>h, <1>9
  <2>2. ~(Len(a.value) >= MaxTokenLen) /\ ~(Len(b.value) >= MaxTokenLen)
    BY <1>9, <1>10
  <2>3. v = (IF a.tag = "T" THEN a.value ELSE b.value)
    BY <1>v, <1>9
  <2>4. w = (IF a.tag = "T" THEN b.value ELSE a.value)
    BY <1>v, <1>9
  <2>5. WildType(v) # LiteralType /\ w # <<>>
    BY <1>w
  <2> QED BY ONLY <2>1, <2>2, <2>3, <2>4, <2>5, TwoParts
<1> QED BY <1>7, <1>8, <1>9, <1>11, <1>d, <1>e, Zenon

ThreeParted(value, x, v, y) ==
    /\ x \in Seq(Bytes) /\ v \in Seq(Bytes) /\ y \in Seq(Bytes)
    /\ Len(x) < MaxTokenLen /\ Len(v) < MaxTokenLen /\ Len(y) < MaxTokenLen
    /\ WildType(v) # LiteralType /\ x # <<>>
    /\ value = (Tagged("L", x) \o Tagged("T", v)) \o Tagged("L", y)

LEMMA ThreeRead ==
    ASSUME NEW value, NEW x, NEW v, NEW y, ThreeParted(value, x, v, y)
    PROVE  /\ value \in Seq(Bytes)
           /\ Len(value) < MaxNetpatternLen =>
                  DecodeCompound(value) = Compound(WildType(v), x, v, y)
<1>h. /\ x \in Seq(Bytes) /\ v \in Seq(Bytes) /\ y \in Seq(Bytes)
      /\ Len(x) < MaxTokenLen /\ Len(v) < MaxTokenLen /\ Len(y) < MaxTokenLen
      /\ WildType(v) # LiteralType /\ x # <<>>
  BY Zenon DEF ThreeParted
<1>x. value = (Tagged("L", x) \o Tagged("T", v)) \o Tagged("L", y)
  BY Zenon DEF ThreeParted
<1>0. "L" \in Bytes /\ "T" \in Bytes
  BY BytesKnown
<1>a. PICK p : p = Body("L", x)
  OBVIOUS
<1>b. PICK q : q = Body("T", v)
  OBVIOUS
<1>c. PICK r : r = Body("L", y)
  OBVIOUS
<1>1. /\ p \in Seq(Bytes) /\ Len(x) + 2 < Len(p)
      /\ Tagged("L", x) = Netstring(p) /\ Tagged("L", x) \in Seq(Bytes)
  BY <1>h, <1>0, <1>a, BodyShape, Zenon
<1>2. /\ q \in Seq(Bytes) /\ Len(v) + 2 < Len(q)
      /\ Tagged("T", v) = Netstring(q) /\ Tagged("T", v) \in Seq(Bytes)
  BY <1>h, <1>0, <1>b, BodyShape, Zenon
<1>3. /\ r \in Seq(Bytes) /\ Len(y) + 2 < Len(r)
      /\ Tagged("L", y) = Netstring(r) /\ Tagged("L", y) \in Seq(Bytes)
  BY <1>h, <1>0, <1>c, BodyShape, Zenon
<1>d. PICK pq : pq = Netstring(p) \o Netstring(q)
  OBVIOUS
<1>4. value = pq \o Netstring(r) /\ pq \in Seq(Bytes)
  <2>1. pq \in Seq(Bytes)
    BY <1>1, <1>2, <1>d, ConcatShape, Zenon
  <2> QED BY <1>x, <1>1, <1>2, <1>3, <1>d, <2>1, Zenon
<1>5. value \in Seq(Bytes)
  BY <1>3, <1>4, ConcatShape, Zenon
<1> SUFFICES ASSUME Len(value) < MaxNetpatternLen
             PROVE  DecodeCompound(value) = Compound(WildType(v), x, v, y)
  BY <1>5
<1>6. Len(p) <= SizeMax /\ Len(q) <= SizeMax /\ Len(r) <= SizeMax
  <2>1. /\ Len(Netstring(p)) > Len(p) /\ Len(Netstring(q)) > Len(q) /\ Len(Netstring(r)) > Len(r)
        /\ Netstring(p) \in Seq(Bytes) /\ Netstring(q) \in Seq(Bytes) /\ Netstring(r) \in Seq(Bytes)
    BY <1>1, <1>2, <1>3, NetstringGrows, Zenon
  <2>2. Len(pq) = Len(Netstring(p)) + Len(Netstring(q))
    BY <1>d, <2>1
  <2>3. Len(value) = Len(pq) + Len(Netstring(r))
    <3>1. Len(pq \o Netstring(r)) = Len(pq) + Len(Netstring(r))
      BY <1>4, <2>1, ConcatProperties, Zenon
    <3> QED BY ONLY <1>4, <3>1, Zenon
  <2> QED BY <1>1, <1>2, <1>3, <2>1, <2>2, <2>3, PatternFits
<1>7. Len(x) <= SizeMax /\ Len(v) <= SizeMax /\ Len(y) <= SizeMax
  BY <1>h, <1>1, <1>2, <1>3, <1>6, PatternFits
<1>8. Chained(pq, <<p, q>>) /\ <<p, q>> \in Seq(Seq(Bytes))
  BY <1>1, <1>2, <1>6, <1>d, ChainTwo, Zenon
<1>9. Chained(value, <<p, q>> \o <<r>>)
  BY <1>3, <1>4, <1>6, <1>8, ChainSnoc, Zenon
<1>e. PICK ps : ps = <<p, q>> \o <<r>>
  OBVIOUS
<1>10. ps \in Seq(Seq(Bytes)) /\ Len(ps) = 3 /\ ps[1] = p /\ ps[2] = q /\ ps[3] = r
  <2>1. Len(<<p, q>>) = 2 /\ <<p, q>>[1] = p /\ <<p, q>>[2] = q
    OBVIOUS
  <2>2. ps \in Seq(Seq(Bytes)) /\ OneMore(ps, <<p, q>>, r)
    BY <1>3, <1>8, <1>e, OneMoreShape, Zenon
  <2> PICK two : two = <<p, q>>
    OBVIOUS
  <2>3. Len(two) = 2 /\ two[1] = p /\ two[2] = q /\ OneMore(ps, two, r)
    BY <2>1, <2>2
  <2>4. Len(ps) = 3 /\ ps[1] = p /\ ps[2] = q /\ ps[3] = r
    BY <2>3 DEF OneMore
  <2> QED BY <2>2, <2>4
<1>11. DecodeCompound(value) = DecodeParts([i \in DOMAIN ps |-> Fields(ps[i])])
  BY <1>5, <1>9, <1>10, <1>e, RecordsParts, Zenon
<1>12. [i \in DOMAIN ps |-> Fields(ps[i])] = <<Fields(p), Fields(q), Fields(r)>>
  <2>1. DOMAIN ps = 1..3
    BY <1>10
  <2> QED BY <1>10, <2>1
<1>f. PICK a : a = Fields(p)
  OBVIOUS
<1>g. PICK b : b = Fields(q)
  OBVIOUS
<1>i. PICK c : c = Fields(r)
  OBVIOUS
<1>13. a.tag = "L" /\ a.value = x /\ b.tag = "T" /\ b.value = v /\ c.tag = "L" /\ c.value = y
  <2>1. "L" \in {"L", "T"} /\ "T" \in {"L", "T"}
    OBVIOUS
  <2> QED BY <1>h, <1>7, <1>a, <1>b, <1>c, <1>f, <1>g, <1>i, <2>1, FieldsShape, Zenon
<1>14. DecodeParts(<<a, b, c>>) = Compound(WildType(b.value), a.value, b.value, c.value)
  <2>1. ~(Len(x) >= MaxTokenLen) /\ ~(Len(v) >= MaxTokenLen) /\ ~(Len(y) >= MaxTokenLen)
    BY <1>h, TextAssumption
  <2>2. a.tag = "L" /\ b.tag = "T" /\ c.tag = "L"
    BY <1>13
  <2>3. ~(Len(a.value) >= MaxTokenLen) /\ ~(Len(b.value) >= MaxTokenLen)
        /\ ~(Len(c.value) >= MaxTokenLen)
    BY <1>13, <2>1
  <2>4. WildType(b.value) # LiteralType /\ a.value # <<>>
    BY <1>h, <1>13
  <2> QED BY ONLY <2>2, <2>3, <2>4, ThreeParts
<1> QED BY <1>11, <1>12, <1>13, <1>14, <1>f, <1>g, <1>i, Zenon

Whole(token, prefix, v, suffix) ==
    /\ prefix \in Seq(Bytes) /\ v \in Seq(Bytes) /\ suffix \in Seq(Bytes)
    /\ Len(prefix) < MaxTokenLen /\ Len(v) < MaxTokenLen /\ Len(suffix) < MaxTokenLen
    /\ WildType(v) # LiteralType /\ ~(prefix = <<>> /\ suffix = <<>>)
    /\ token.prefix = prefix /\ token.suffix = suffix

LEMMA PartsRead ==
    ASSUME NEW token, NEW prefix, NEW v, NEW suffix, Whole(token, prefix, v, suffix)
    PROVE  LET value == CompoundParts(token, v) IN
           /\ value \in Seq(Bytes)
           /\ Len(value) < MaxNetpatternLen =>
                  DecodeCompound(value) = Compound(WildType(v), prefix, v, suffix)
<1>h. /\ prefix \in Seq(Bytes) /\ v \in Seq(Bytes) /\ suffix \in Seq(Bytes)
      /\ Len(prefix) < MaxTokenLen /\ Len(v) < MaxTokenLen /\ Len(suffix) < MaxTokenLen
      /\ WildType(v) # LiteralType /\ ~(prefix = <<>> /\ suffix = <<>>)
  BY Zenon DEF Whole
<1>i. token.prefix = prefix /\ token.suffix = suffix
  BY Zenon DEF Whole
<1>a. PICK value : value = CompoundParts(token, v)
  OBVIOUS
<1>0. "L" \in Bytes /\ "T" \in Bytes /\ "L" \in {"L", "T"} /\ "T" \in {"L", "T"} /\ "L" # "T"
  BY BytesKnown
<1>b. PICK tp : tp = Tagged("L", prefix)
  OBVIOUS
<1>c. PICK tv : tv = Tagged("T", v)
  OBVIOUS
<1>d. PICK ts : ts = Tagged("L", suffix)
  OBVIOUS
<1>1. tp \in Seq(Bytes) /\ tv \in Seq(Bytes) /\ ts \in Seq(Bytes)
  BY <1>h, <1>0, <1>b, <1>c, <1>d, BodyShape, Zenon
<1>2. value = ((IF prefix = <<>> THEN <<>> ELSE tp) \o tv) \o (IF suffix = <<>> THEN <<>> ELSE ts)
  BY <1>i, <1>a, <1>b, <1>c, <1>d, Zenon DEF CompoundParts
<1> HIDE <1>2
<1>3. CASE prefix = <<>>
  <2>1. suffix # <<>>
    BY <1>h, <1>3
  <2>2. value = (<<>> \o tv) \o ts
    BY ONLY <1>2, <1>3, <2>1, Zenon
  <2>3. value = tv \o ts
    BY <1>1, <2>2, EmptyText
  <2>4. value = Tagged("T", v) \o Tagged("L", suffix)
    BY <1>c, <1>d, <2>3, Zenon
  <2>5. /\ value \in Seq(Bytes)
        /\ Len(value) < MaxNetpatternLen =>
               DecodeCompound(value) = IF "T" = "T" THEN Compound(WildType(v), <<>>, v, suffix)
                                       ELSE Compound(WildType(v), suffix, v, <<>>)
    <3>1. v = (IF "T" = "T" THEN v ELSE suffix) /\ suffix = (IF "T" = "T" THEN suffix ELSE v)
      OBVIOUS
    <3>2. TwoParted(value, "T", v, "L", suffix, v, suffix)
      BY <1>h, <1>0, <2>1, <2>4, <3>1, Zenon DEF TwoParted
    <3> QED BY ONLY <3>2, TwoRead
  <2> QED BY <1>3, <1>a, <2>5, Zenon
<1>4. CASE prefix # <<>> /\ suffix = <<>>
  <2>2. value = (tp \o tv) \o <<>>
    BY ONLY <1>2, <1>4, Zenon
  <2>3. value = tp \o tv
    <3>1. tp \o tv \in Seq(Bytes)
      BY <1>1
    <3> QED BY <2>2, <3>1, EmptyText
  <2>4. value = Tagged("L", prefix) \o Tagged("T", v)
    BY <1>b, <1>c, <2>3, Zenon
  <2>5. /\ value \in Seq(Bytes)
        /\ Len(value) < MaxNetpatternLen =>
               DecodeCompound(value) = IF "L" = "T" THEN Compound(WildType(v), <<>>, v, prefix)
                                       ELSE Compound(WildType(v), prefix, v, <<>>)
    <3>1. v = (IF "L" = "T" THEN prefix ELSE v) /\ prefix = (IF "L" = "T" THEN v ELSE prefix)
      OBVIOUS
    <3>2. TwoParted(value, "L", prefix, "T", v, v, prefix)
      BY <1>h, <1>0, <1>4, <2>4, <3>1, Zenon DEF TwoParted
    <3> QED BY ONLY <3>2, TwoRead
  <2> QED BY <1>0, <1>4, <1>a, <2>5, Zenon
<1>5. CASE prefix # <<>> /\ suffix # <<>>
  <2>1. value = (tp \o tv) \o ts
    BY ONLY <1>2, <1>5, Zenon
  <2>2. value = (Tagged("L", prefix) \o Tagged("T", v)) \o Tagged("L", suffix)
    BY <1>b, <1>c, <1>d, <2>1, Zenon
  <2>3. /\ value \in Seq(Bytes)
        /\ Len(value) < MaxNetpatternLen =>
               DecodeCompound(value) = Compound(WildType(v), prefix, v, suffix)
    <3>1. ThreeParted(value, prefix, v, suffix)
      BY <1>h, <1>5, <2>2, Zenon DEF ThreeParted
    <3> QED BY ONLY <3>1, ThreeRead
  <2> QED BY <1>a, <2>3, Zenon
<1> QED BY <1>3, <1>4, <1>5

LEMMA CompoundReads ==
    ASSUME NEW token \in CompoundToken, EncodeToken(RawToken(token)).status = "ok"
    PROVE  Reads(EncodeToken(RawToken(token)).bytes, RawToken(token))
<1>a. PICK v : v = Spelling(token.type, token.param)
  OBVIOUS
<1>b. PICK raw : raw = RawToken(token)
  OBVIOUS
<1>c. PICK prefix : prefix = Prefix[token.affix]
  OBVIOUS
<1>d. PICK suffix : suffix = Suffix[token.affix]
  OBVIOUS
<1>e. PICK type : type = token.type
  OBVIOUS
<1>1. /\ token.kind = "comp" /\ token.type \in Types \ {LiteralType}
      /\ token.param \in Params \cup {NoParam} /\ token.affix \in Affixes
      /\ token.param # NoParam => ParamType[token.param] = token.type
  BY DEF CompoundToken
<1>2. v \in Seq(Bytes) /\ CanonicalWildcards(v) = {v} /\ Len(v) < MaxTokenLen
  BY <1>1, <1>a, SpelledWildcard, Zenon
<1>3. prefix \in Seq(Bytes) /\ suffix \in Seq(Bytes)
  BY <1>1, <1>c, <1>d, BytesKnown, Zenon
<1>4. raw = Compound(type, prefix, v, suffix)
  BY <1>1, <1>a, <1>b, <1>c, <1>d, <1>e DEF RawToken
<1>5. /\ raw.compound = TRUE /\ raw.type = type /\ raw.text = v
      /\ raw.prefix = prefix /\ raw.suffix = suffix
  BY <1>4 DEF Compound
<1> DEFINE wilds == CanonicalWildcards(raw.text)
<1>6. wilds = {v} /\ wilds # {}
  <2>1. {v} # {}
    OBVIOUS
  <2> QED BY <1>2, <1>5, <2>1, Zenon
<1>7. EncodeToken(raw) =
         IF raw.type = LiteralType \/ (raw.prefix = <<>> /\ raw.suffix = <<>>)
         THEN Refused("invalid")
         ELSE IF \E part \in {raw.prefix, raw.text, raw.suffix} : Len(part) >= MaxTokenLen
         THEN Refused("limit")
         ELSE IF wilds = {} \/ WildType(raw.text) # raw.type
         THEN Refused("format")
         ELSE Encoded(Tagged("C", CompoundParts(raw, CHOOSE w \in wilds : TRUE)))
  <2>1. EncodeToken(raw) = EncodeCompound(raw)
    BY <1>5, Zenon DEF EncodeToken
  <2> QED BY <2>1, Zenon DEF EncodeCompound
<1> HIDE DEF wilds
<1>8. "invalid" # "ok" /\ "limit" # "ok" /\ "format" # "ok"
  OBVIOUS
<1>9. /\ ~(raw.type = LiteralType \/ (raw.prefix = <<>> /\ raw.suffix = <<>>))
      /\ ~ \E part \in {raw.prefix, raw.text, raw.suffix} : Len(part) >= MaxTokenLen
      /\ ~(wilds = {} \/ WildType(raw.text) # raw.type)
      /\ EncodeToken(raw) = Encoded(Tagged("C", CompoundParts(raw, CHOOSE w \in wilds : TRUE)))
  <2>1. EncodeToken(raw).status = "ok"
    BY <1>b
  <2> QED BY ONLY <1>7, <1>8, <2>1, RefusedFails, Zenon
<1>10. ~(prefix = <<>> /\ suffix = <<>>) /\ WildType(v) = type /\ type # LiteralType
  BY <1>5, <1>9, Zenon
<1>11. Len(prefix) < MaxTokenLen /\ Len(suffix) < MaxTokenLen
  <2>1. ~(Len(prefix) >= MaxTokenLen) /\ ~(Len(suffix) >= MaxTokenLen)
    BY <1>5, <1>9, Zenon
  <2> QED BY <1>3, <2>1, TextAssumption
<1>12. (CHOOSE w \in wilds : TRUE) = v
  BY <1>6
<1>f. PICK value : value = CompoundParts(raw, v)
  OBVIOUS
<1>13. EncodeToken(raw).bytes = Tagged("C", value)
  BY <1>9, <1>12, <1>f, EncodedIs, Zenon
<1>14. /\ value \in Seq(Bytes)
       /\ Len(value) < MaxNetpatternLen =>
              DecodeCompound(value) = Compound(type, prefix, v, suffix)
  <2>1. WildType(v) # LiteralType
    BY <1>10
  <2>2. /\ value \in Seq(Bytes)
        /\ Len(value) < MaxNetpatternLen =>
               DecodeCompound(value) = Compound(WildType(v), prefix, v, suffix)
    <3>1. Whole(raw, prefix, v, suffix)
      BY <1>2, <1>3, <1>5, <1>10, <1>11, <2>1, Zenon DEF Whole
    <3>2. /\ CompoundParts(raw, v) \in Seq(Bytes)
          /\ Len(CompoundParts(raw, v)) < MaxNetpatternLen =>
                 DecodeCompound(CompoundParts(raw, v)) = Compound(WildType(v), prefix, v, suffix)
      BY ONLY <3>1, PartsRead
    <3> QED BY ONLY <1>f, <3>2
  <2> QED BY <1>10, <2>2, Zenon
<1>15. "C" \in Bytes
  BY BytesKnown
<1>16. ASSUME Len(Tagged("C", value)) < MaxNetpatternLen
       PROVE  DecodeFields([tag |-> "C", value |-> value]) = raw
  <2>1. Len(value) + 2 < Len(Tagged("C", value)) /\ Tagged("C", value) \in Seq(Bytes)
    BY <1>14, <1>15, BodyShape, Zenon
  <2>2. Len(value) < MaxNetpatternLen
    BY <1>14, <1>16, <2>1, PatternFits
  <2>a. PICK f : f = [tag |-> "C", value |-> value]
    OBVIOUS
  <2>3. f.tag = "C" /\ f.value = value /\ f.tag \notin {"L", "T"}
    BY <2>a
  <2>4. DecodeFields(f) = DecodeCompound(f.value)
    BY <2>2, <2>3 DEF DecodeFields
  <2> QED BY <1>4, <1>14, <2>2, <2>3, <2>4, <2>a, Zenon
<1> QED BY <1>13, <1>14, <1>15, <1>16, <1>b, BodyReads, Zenon

(* Every token the encoder accepts reads as itself. *)
LEMMA TokenReads ==
    ASSUME NEW token \in Token, EncodeToken(RawToken(token)).status = "ok"
    PROVE  Reads(EncodeToken(RawToken(token)).bytes, RawToken(token))
BY LiteralReads, WildcardReads, CompoundReads, Zenon DEF Token

(* No token of a rule is malformed. *)
LEMMA RawWellFormed ==
    ASSUME NEW token \in Token
    PROVE  RawToken(token) # Malformed
<1>1. DOMAIN Malformed = {"compound", "type", "text", "bad"}
  BY DEF Malformed
<1>2. CASE token \in LiteralToken
  <2>1. RawToken(token) = Plain(LiteralType, WordText[token.word])
    BY <1>2 DEF LiteralToken, RawToken
  <2>2. "bad" \notin DOMAIN RawToken(token)
    BY <2>1 DEF Plain
  <2> QED BY <1>1, <2>2
<1>3. CASE token \in WildcardToken
  <2>1. RawToken(token) = Plain(token.type, Spelling(token.type, token.param))
    BY <1>3 DEF WildcardToken, RawToken
  <2>2. "bad" \notin DOMAIN RawToken(token)
    BY <2>1 DEF Plain
  <2> QED BY <1>1, <2>2
<1>4. CASE token \in CompoundToken
  <2>1. RawToken(token) = Compound(token.type, Prefix[token.affix],
                                   Spelling(token.type, token.param), Suffix[token.affix])
    BY <1>4 DEF CompoundToken, RawToken
  <2>2. "bad" \notin DOMAIN RawToken(token)
    BY <2>1 DEF Compound
  <2> QED BY <1>1, <2>2
<1> QED BY <1>2, <1>3, <1>4 DEF Token

-------------------------------------------------------------------------------
(* The tokens one after the other                                          *)

FlattenStep(seqs, g, i) == IF i = 1 THEN seqs[i] ELSE g[i - 1] \o seqs[i]

(* The recursion of FlattenSeq is founded. *)
LEMMA FlattenUpto ==
    ASSUME NEW seqs
    PROVE  \A n \in Nat : \E g : g = [i \in 1..n |-> FlattenStep(seqs, g, i)]
<1> DEFINE Bad == {n \in Nat : ~ \E g : g = [i \in 1..n |-> FlattenStep(seqs, g, i)]}
<1> SUFFICES ASSUME Bad # {} PROVE FALSE
  OBVIOUS
<1>1. PICK n \in Bad : \A m \in Bad : n <= m
  <2>1. Bad \in SUBSET Nat
    OBVIOUS
  <2> HIDE DEF Bad
  <2> QED BY <2>1, LeastNat
<1>2. PICK g : n # 0 => g = [i \in 1..(n - 1) |-> FlattenStep(seqs, g, i)]
  <2>1. CASE n = 0
    BY <2>1
  <2>2. CASE n # 0
    <3>1. n - 1 \in Nat /\ n - 1 \notin Bad
      BY <1>1, <2>2
    <3> QED BY <3>1
  <2> QED BY <2>1, <2>2
<1> DEFINE h == [i \in 1..n |-> FlattenStep(seqs, g, i)]
<1>3. ASSUME NEW i \in 1..n PROVE FlattenStep(seqs, g, i) = FlattenStep(seqs, h, i)
  <2>1. CASE i = 1
    BY <2>1 DEF FlattenStep
  <2>2. CASE i # 1
    <3>1. n # 0 /\ i - 1 \in 1..(n - 1) /\ i - 1 \in 1..n
      BY <1>1, <2>2
    <3>2. g[i - 1] = FlattenStep(seqs, g, i - 1)
      BY <1>2, <3>1
    <3>3. h[i - 1] = FlattenStep(seqs, g, i - 1)
      BY <3>1
    <3> HIDE DEF h
    <3> QED BY <2>2, <3>2, <3>3 DEF FlattenStep
  <2> QED BY <2>1, <2>2
<1>4. h = [i \in 1..n |-> FlattenStep(seqs, h, i)]
  BY <1>3
<1> HIDE DEF h
<1> QED BY <1>1, <1>4

Flat(seqs, g) ==
    \A i \in 1..Len(seqs) : g[i] = FlattenStep(seqs, g, i)

LEMMA FlattenDef ==
    ASSUME NEW seqs, Len(seqs) \in Nat, Len(seqs) # 0
    PROVE  \E g : Flat(seqs, g) /\ FlattenSeq(seqs) = g[Len(seqs)]
<1> DEFINE g == CHOOSE g : g = [i \in 1..Len(seqs) |-> FlattenStep(seqs, g, i)]
<1>1. g = [i \in 1..Len(seqs) |-> FlattenStep(seqs, g, i)]
  BY FlattenUpto, Zenon
<1>2. FlattenSeq(seqs) = g[Len(seqs)]
  BY Zenon DEF FlattenSeq, FlattenStep
<1> HIDE DEF g
<1>3. Flat(seqs, g)
  BY <1>1, Zenon DEF Flat
<1> QED BY <1>2, <1>3

(* Nothing is longer than the whole. *)
LEMMA FlattenTyped ==
    ASSUME NEW seqs \in Seq(Seq(Bytes)), Len(seqs) # 0
    PROVE  /\ FlattenSeq(seqs) \in Seq(Bytes)
           /\ \A j \in 1..Len(seqs) : Len(seqs[j]) <= Len(FlattenSeq(seqs))
<1>a. PICK n : n = Len(seqs)
  OBVIOUS
<1>0. n \in Nat \ {0}
  BY <1>a
<1>1. PICK g : Flat(seqs, g) /\ FlattenSeq(seqs) = g[n]
  BY <1>0, <1>a, FlattenDef
<1>2. \A i \in 1..n : g[i] = FlattenStep(seqs, g, i) /\ seqs[i] \in Seq(Bytes)
  <2>1. \A i \in 1..n : seqs[i] \in Seq(Bytes)
    BY <1>a, ElementOfSeq
  <2> QED BY <1>1, <1>a, <2>1, Zenon DEF Flat
<1> DEFINE Good(i) == g[i] \in Seq(Bytes) /\ \A j \in 1..i : Len(seqs[j]) <= Len(g[i])
           Bad == {i \in 1..n : ~Good(i)}
<1>3. Bad = {}
  <2> SUFFICES ASSUME Bad # {} PROVE FALSE
    OBVIOUS
  <2>1. PICK i \in Bad : \A j \in Bad : i <= j
    <3>1. Bad \in SUBSET Nat
      OBVIOUS
    <3> HIDE DEF Bad
    <3> QED BY <3>1, LeastNat
  <2>2. i \in 1..n /\ ~Good(i)
    BY <2>1
  <2>i. i \in 1..n /\ i \in Nat /\ n \in Nat
    BY ONLY <1>0, <2>2
  <2>3. CASE i = 1
    <3>1. g[1] = seqs[1]
      BY <1>2, <2>2, <2>3 DEF FlattenStep
    <3>2. seqs[1] \in Seq(Bytes) /\ Len(seqs[1]) \in Nat
      BY <1>2, <2>2, <2>3
    <3>3. \A j \in 1..1 : j = 1
      OBVIOUS
    <3>4. \A k \in Nat : k <= k
      OBVIOUS
    <3> QED BY <2>2, <2>3, <3>1, <3>2, <3>3, <3>4, Zenon
  <2>4. CASE i # 1
    <3>1. i - 1 \in 1..n /\ i - 1 < i /\ i \in Nat
      BY ONLY <2>i, <2>4
    <3>2. i - 1 \notin Bad
      <4>1. ~(i <= i - 1)
        BY <3>1
      <4> HIDE DEF Bad
      <4> QED BY <2>1, <4>1
    <3>3. Good(i - 1)
      BY <3>1, <3>2
    <3>a. PICK s : s = g[i - 1]
      OBVIOUS
    <3>b. PICK e : e = seqs[i]
      OBVIOUS
    <3>4. g[i] = s \o e
      BY <1>2, <2>2, <2>4, <3>a, <3>b DEF FlattenStep
    <3>5. s \in Seq(Bytes) /\ e \in Seq(Bytes)
      BY <1>2, <2>2, <3>3, <3>a, <3>b, Zenon
    <3>6. s \o e \in Seq(Bytes) /\ Len(s \o e) = Len(s) + Len(e)
      BY <3>5
    <3>7. ASSUME NEW j \in 1..i PROVE Len(seqs[j]) <= Len(g[i])
      <4>1. CASE j = i
        <5>1. Len(e) <= Len(s) + Len(e)
          BY <3>5
        <5> QED BY <3>4, <3>6, <3>b, <4>1, <5>1, Zenon
      <4>2. CASE j # i
        <5>1. j \in 1..(i - 1) /\ j \in 1..n
          BY ONLY <2>i, <4>2, j \in 1..i
        <5>2. Len(seqs[j]) <= Len(s)
          BY <3>3, <3>a, <5>1, Zenon
        <5>3. Len(seqs[j]) \in Nat
          BY <1>2, <5>1
        <5>4. Len(seqs[j]) <= Len(s) + Len(e)
          BY <3>5, <5>2, <5>3
        <5> QED BY <3>4, <3>6, <5>4, Zenon
      <4> QED BY <4>1, <4>2
    <3> QED BY <2>2, <3>4, <3>6, <3>7, Zenon
  <2> QED BY <2>3, <2>4
<1>4. Good(n)
  <2>1. n \in 1..n
    BY ONLY <1>0
  <2>2. n \notin Bad
    BY ONLY <1>3
  <2> QED BY <2>1, <2>2
<1> QED BY <1>1, <1>4, <1>a, Zenon

(* Records one after the other are a chain of their payloads. *)
LEMMA FlattenChained ==
    ASSUME NEW ps \in Seq(Seq(Bytes)), Len(ps) # 0, NEW seqs, Len(seqs) = Len(ps),
           \A i \in 1..Len(ps) : seqs[i] = Netstring(ps[i]) /\ Len(ps[i]) <= SizeMax
    PROVE  Chained(FlattenSeq(seqs), ps)
<1>a. PICK n : n = Len(ps)
  OBVIOUS
<1>0. n \in Nat \ {0} /\ Len(seqs) = n
  BY <1>a
<1>1. PICK g : Flat(seqs, g) /\ FlattenSeq(seqs) = g[n]
  BY <1>0, FlattenDef
<1>2. \A i \in 1..n : /\ g[i] = FlattenStep(seqs, g, i) /\ ps[i] \in Seq(Bytes)
                      /\ seqs[i] = Netstring(ps[i]) /\ Len(ps[i]) <= SizeMax
  <2>1. \A i \in 1..n : ps[i] \in Seq(Bytes)
    BY <1>a, ElementOfSeq
  <2> QED BY <1>0, <1>1, <1>a, <2>1, Zenon DEF Flat
<1> DEFINE Good(i) == g[i] \in Seq(Bytes) /\ Chained(g[i], SubSeq(ps, 1, i))
           Bad == {i \in 1..n : ~Good(i)}
<1>3. Bad = {}
  <2> SUFFICES ASSUME Bad # {} PROVE FALSE
    OBVIOUS
  <2>1. PICK i \in Bad : \A j \in Bad : i <= j
    <3>1. Bad \in SUBSET Nat
      OBVIOUS
    <3> HIDE DEF Bad
    <3> QED BY <3>1, LeastNat
  <2>2. i \in 1..n /\ ~Good(i)
    BY <2>1
  <2>i. i \in 1..n /\ i \in Nat /\ n \in Nat
    BY ONLY <1>0, <2>2
  <2>3. CASE i = 1
    <3>1. g[1] = Netstring(ps[1]) /\ ps[1] \in Seq(Bytes) /\ Len(ps[1]) <= SizeMax
      BY <1>2, <2>2, <2>3 DEF FlattenStep
    <3>2. SubSeq(ps, 1, 1) = <<ps[1]>>
      <4>1. 1 \in 1..Len(ps)
        BY <1>0, <1>a
      <4>2. SubSeq(ps, 1, 1) = <<ps[1]>> \o SubSeq(ps, 2, 1)
        <5>1. 1 \in 1..Len(ps) /\ 1 + 1 = 2
          BY <4>1
        <5> QED BY <5>1, SubSeqRecursiveFirst
      <4>3. SubSeq(ps, 2, 1) = <<>>
        BY SubSeqEmpty
      <4>4. <<ps[1]>> \in Seq(Seq(Bytes))
        BY <3>1, Singleton, Zenon
      <4> PICK one : one = <<ps[1]>>
        OBVIOUS
      <4>5. one \o <<>> = one
        BY <4>4, EmptyText
      <4> QED BY <4>2, <4>3, <4>5
    <3>3. Netstring(ps[1]) \in Seq(Bytes) /\ Chained(Netstring(ps[1]), <<ps[1]>>)
      BY <3>1, NetstringGrows, ChainOne, Zenon
    <3> QED BY <2>2, <2>3, <3>1, <3>2, <3>3, Zenon
  <2>4. CASE i # 1
    <3>1. i - 1 \in 1..n /\ i - 1 < i
      BY ONLY <2>i, <2>4
    <3>2. i - 1 \notin Bad
      <4>1. ~(i <= i - 1)
        BY <2>i, <3>1
      <4> HIDE DEF Bad
      <4> QED BY <2>1, <4>1
    <3>3. Good(i - 1)
      BY <3>1, <3>2
    <3>a. PICK s : s = g[i - 1]
      OBVIOUS
    <3>b. PICK p : p = ps[i]
      OBVIOUS
    <3>c. PICK qs : qs = SubSeq(ps, 1, i - 1)
      OBVIOUS
    <3>4. g[i] = s \o Netstring(p)
      BY <1>2, <2>2, <2>4, <3>a, <3>b DEF FlattenStep
    <3>5. s \in Seq(Bytes) /\ p \in Seq(Bytes) /\ Len(p) <= SizeMax /\ Chained(s, qs)
      BY <1>2, <2>2, <3>3, <3>a, <3>b, <3>c, Zenon
    <3>6. SubSeq(ps, 1, i) = qs \o <<p>> /\ qs \in Seq(Seq(Bytes))
      <4>1. i \in 1..Len(ps) /\ 1 \in 1..Len(ps)
        BY ONLY <1>0, <1>a, <2>i
      <4>2. SubSeq(ps, 1, i) = SubSeq(ps, 1, i - 1) \o <<ps[i]>>
        BY <4>1, SubSeqRecursiveSecond
      <4>3. SubSeq(ps, 1, i - 1) \in Seq(Seq(Bytes))
        <5>1. \A k \in 1..(i - 1) : ps[k] \in Seq(Bytes)
          <6>1. \A k \in 1..(i - 1) : k \in 1..n
            BY ONLY <2>i
          <6> QED BY <1>2, <6>1
        <5>2. 1 \in Int /\ i - 1 \in Int
          BY ONLY <2>i
        <5> QED BY <5>1, <5>2, SubSeqProperties
      <4> QED BY <3>b, <3>c, <4>2, <4>3, Zenon
    <3>7. Chained(s \o Netstring(p), qs \o <<p>>)
      BY <3>5, <3>6, ChainSnoc, Zenon
    <3>8. s \o Netstring(p) \in Seq(Bytes)
      BY <3>5, NetstringGrows, ConcatShape, Zenon
    <3> QED BY <2>2, <3>4, <3>6, <3>7, <3>8, Zenon
  <2> QED BY <2>3, <2>4
<1>4. Good(n)
  <2>1. n \in 1..n
    BY ONLY <1>0
  <2>2. n \notin Bad
    BY ONLY <1>3
  <2> QED BY <2>1, <2>2
<1>5. SubSeq(ps, 1, n) = ps
  BY <1>a, SubSeqFull
<1> QED BY <1>1, <1>4, <1>5, Zenon

-------------------------------------------------------------------------------
(* A rule reads back                                                       *)

(* What Encode accepts is, for each token, a record that reads as it. *)
LEMMA JoinedOk ==
    ASSUME NEW n \in Nat \ {0}, NEW records, DOMAIN records = 1..n,
           Joined(records).status = "ok",
           NEW seqs, seqs = [i \in DOMAIN records |-> records[i].bytes]
    PROVE  /\ \A i \in 1..n : records[i].status = "ok"
           /\ ~(Len(FlattenSeq(seqs)) >= MaxNetpatternLen)
           /\ Joined(records).bytes = FlattenSeq(seqs)
<1> DEFINE faulty == {i \in DOMAIN records : records[i].status # "ok"}
           first  == CHOOSE i \in faulty : \A j \in faulty : i <= j
           all    == FlattenSeq([i \in DOMAIN records |-> records[i].bytes])
<1>1. Joined(records) = IF faulty # {} THEN records[first]
                        ELSE IF Len(all) >= MaxNetpatternLen THEN Refused("limit")
                        ELSE Encoded(all)
  BY Zenon DEF Joined
<1>2. all = FlattenSeq(seqs)
  BY Zenon
<1> HIDE DEF all
<1>3. faulty = {}
  <2> SUFFICES ASSUME faulty # {} PROVE FALSE
    OBVIOUS
  <2>1. first \in faulty
    <3>1. faulty \in SUBSET Nat
      OBVIOUS
    <3>2. \E i \in faulty : \A j \in faulty : i <= j
      <4> HIDE DEF faulty
      <4> QED BY <3>1, LeastNat
    <3> HIDE DEF faulty
    <3> QED BY <3>2, Zenon
  <2>2. records[first].status # "ok"
    <3> HIDE DEF first
    <3> QED BY <2>1
  <2>3. Joined(records) = records[first]
    <3> HIDE DEF first
    <3> QED BY <1>1
  <2> HIDE DEF first, faulty
  <2> QED BY <2>2, <2>3
<1>4. \A i \in 1..n : records[i].status = "ok"
  BY <1>3
<1>5. ~(Len(all) >= MaxNetpatternLen) /\ Joined(records) = Encoded(all)
  <2>1. "limit" # "ok"
    OBVIOUS
  <2>2. Joined(records) = IF Len(all) >= MaxNetpatternLen THEN Refused("limit") ELSE Encoded(all)
    BY <1>1, <1>3, Zenon
  <2> HIDE DEF faulty, first
  <2>3. Joined(records).status = "ok"
    OBVIOUS
  <2> QED BY ONLY <2>1, <2>2, <2>3, RefusedFails, Zenon
<1>6. Joined(records).bytes = all
  BY <1>5, EncodedIs
<1> HIDE DEF faulty, first
<1> QED BY <1>2, <1>4, <1>5, <1>6

LEMMA EncodeOk ==
    ASSUME NEW rule \in Rules
    PROVE  \E n \in Nat \ {0}, seqs \in Seq(Seq(Bytes)) :
               /\ DOMAIN rule = 1..n /\ n = Len(rule) /\ n \in 1..MaxCmdTokens
               /\ Len(seqs) = n
               /\ \A i \in 1..n : rule[i] \in Token /\ Reads(seqs[i], RawToken(rule[i]))
               /\ Encode(Raw(rule)).bytes = FlattenSeq(seqs)
               /\ ~(Len(FlattenSeq(seqs)) >= MaxNetpatternLen)
<1>a. PICK n : n = Len(rule)
  OBVIOUS
<1>1. /\ rule \in Seq(Token) /\ n \in Nat \ {0} /\ DOMAIN rule = 1..n
      /\ \A i \in 1..n : rule[i] \in Token
  <2>1. rule \in Seq(Token) /\ Len(rule) > 0
    BY RulesAssumption
  <2> QED BY <1>a, <2>1
<1>b. PICK tokens : tokens = Raw(rule)
  OBVIOUS
<1>2. tokens = [i \in 1..n |-> RawToken(rule[i])]
  BY <1>1, <1>b, Zenon DEF Raw
<1>3. DOMAIN tokens = 1..n /\ Len(tokens) = n /\ \A i \in 1..n : tokens[i] = RawToken(rule[i])
  BY <1>1, <1>2
<1> HIDE <1>2
<1>c. PICK records : records = [i \in DOMAIN tokens |-> EncodeToken(tokens[i])]
  OBVIOUS
<1>4. DOMAIN records = 1..n /\ \A i \in 1..n : records[i] = EncodeToken(RawToken(rule[i]))
  BY <1>3, <1>c
<1>d. PICK seqs : seqs = [i \in DOMAIN records |-> records[i].bytes]
  OBVIOUS
<1>5. DOMAIN seqs = 1..n /\ Len(seqs) = n /\ \A i \in 1..n : seqs[i] = records[i].bytes
  BY <1>1, <1>4, <1>d
<1>6. Encode(tokens).status = "ok"
  BY <1>b, StoreAssumption, Zenon
<1>7. n \in 1..MaxCmdTokens /\ Encode(tokens) = Joined(records)
  <2>1. "invalid" # "ok"
    OBVIOUS
  <2>2. Encode(tokens) = IF n \notin 1..MaxCmdTokens THEN Refused("invalid")
                         ELSE Joined(records)
    BY <1>3, <1>c, Zenon DEF Encode
  <2> QED BY ONLY <1>6, <2>1, <2>2, RefusedFails, Zenon
<1>8. /\ \A i \in 1..n : records[i].status = "ok"
      /\ ~(Len(FlattenSeq(seqs)) >= MaxNetpatternLen)
      /\ Joined(records).bytes = FlattenSeq(seqs)
  BY <1>1, <1>4, <1>6, <1>7, <1>d, JoinedOk, Zenon
<1>9. \A i \in 1..n : Reads(seqs[i], RawToken(rule[i]))
  BY <1>1, <1>4, <1>5, <1>8, TokenReads, Zenon
<1>10. seqs \in Seq(Seq(Bytes))
  <2>1. \A i \in 1..n : seqs[i] \in Seq(Bytes)
    <3>1. \A bytes, token : Reads(bytes, token) => bytes \in Seq(Bytes)
      BY NetstringGrows, Zenon DEF Reads
    <3> QED BY <1>9, <3>1, Zenon
  <2>2. seqs = [i \in 1..n |-> seqs[i]]
    <3>1. seqs = [i \in 1..n |-> records[i].bytes]
      BY <1>4, <1>d
    <3> QED BY <1>5, <3>1
  <2> QED BY <1>1, <2>1, <2>2
<1> QED BY <1>a, <1>b, <1>1, <1>5, <1>7, <1>8, <1>9, <1>10, Zenon

LEMMA ReadsWithin ==
    ASSUME NEW bytes, NEW token, Reads(bytes, token), Len(bytes) < MaxNetpatternLen
    PROVE  \E payload \in Seq(Bytes) :
               /\ bytes = Netstring(payload) /\ DecodeToken(payload) = token
               /\ Len(payload) <= SizeMax /\ Len(payload) < Len(bytes)
<1>1. PICK payload \in Seq(Bytes) :
          /\ bytes = Netstring(payload)
          /\ Len(bytes) < MaxNetpatternLen => DecodeToken(payload) = token
  BY Zenon DEF Reads
<1>2. Len(Netstring(payload)) > Len(payload) /\ Len(Netstring(payload)) \in Nat
  BY NetstringGrows
<1>a. PICK l : l = Len(bytes)
  OBVIOUS
<1>3. l \in Nat /\ l > Len(payload) /\ l < MaxNetpatternLen
  BY <1>1, <1>2, <1>a
<1>4. Len(payload) <= SizeMax /\ Len(payload) < l
  BY <1>3, PatternFits
<1> QED BY <1>1, <1>4, <1>a

(* The text of a rule decodes to its tokens. *)
LEMMA RuleReads ==
    ASSUME NEW rule \in Rules
    PROVE  LET data == Encode(Raw(rule)).bytes IN
           /\ data \in Seq(Bytes) /\ Len(data) \in 1..(MaxNetpatternLen - 1)
           /\ Decode(data) = Decoded(Raw(rule))
<1>a. PICK data : data = Encode(Raw(rule)).bytes
  OBVIOUS
<1>1. PICK n \in Nat \ {0}, seqs \in Seq(Seq(Bytes)) :
               /\ DOMAIN rule = 1..n /\ n = Len(rule) /\ n \in 1..MaxCmdTokens
               /\ Len(seqs) = n
               /\ \A i \in 1..n : rule[i] \in Token /\ Reads(seqs[i], RawToken(rule[i]))
               /\ Encode(Raw(rule)).bytes = FlattenSeq(seqs)
               /\ ~(Len(FlattenSeq(seqs)) >= MaxNetpatternLen)
  BY EncodeOk
<1>2. data = FlattenSeq(seqs) /\ data \in Seq(Bytes) /\ \A j \in 1..n : Len(seqs[j]) <= Len(data)
  <2>1. Len(seqs) # 0
    BY <1>1
  <2> QED BY <1>1, <1>a, <2>1, FlattenTyped, Zenon
<1>3. Len(data) < MaxNetpatternLen
  <2>1. ~(Len(data) >= MaxNetpatternLen)
    BY <1>1, <1>2, Zenon
  <2> QED BY <1>2, <2>1, PatternFits
<1>4. \A i \in 1..n : seqs[i] \in Seq(Bytes) /\ Len(seqs[i]) < MaxNetpatternLen
  <2>1. \A i \in 1..n : seqs[i] \in Seq(Bytes)
    BY <1>1, ElementOfSeq
  <2>2. ASSUME NEW i \in 1..n PROVE Len(seqs[i]) < MaxNetpatternLen
    <3>1. Len(seqs[i]) <= Len(data) /\ Len(seqs[i]) \in Nat /\ Len(data) \in Nat
      BY <1>2, <2>1
    <3> QED BY <1>3, <3>1, PatternFits
  <2> QED BY <2>1, <2>2
<1> DEFINE Of(i, payload) == /\ seqs[i] = Netstring(payload)
                             /\ DecodeToken(payload) = RawToken(rule[i])
                             /\ Len(payload) <= SizeMax /\ Len(payload) < Len(seqs[i])
           ps == [i \in 1..n |-> CHOOSE payload \in Seq(Bytes) : Of(i, payload)]
<1>5. \A i \in 1..n : ps[i] \in Seq(Bytes) /\ Of(i, ps[i])
  <2> SUFFICES ASSUME NEW i \in 1..n PROVE ps[i] \in Seq(Bytes) /\ Of(i, ps[i])
    OBVIOUS
  <2>1. \E payload \in Seq(Bytes) : Of(i, payload)
    BY <1>1, <1>4, ReadsWithin, Zenon
  <2>2. ps[i] = CHOOSE payload \in Seq(Bytes) : Of(i, payload)
    OBVIOUS
  <2> HIDE DEF Of, ps
  <2> QED BY <2>1, <2>2, Zenon
<1>6. ps \in Seq(Seq(Bytes)) /\ Len(ps) = n /\ DOMAIN ps = 1..n
  <2>1. DOMAIN ps = 1..n /\ ps = [i \in 1..n |-> ps[i]]
    OBVIOUS
  <2> HIDE DEF Of, ps
  <2> QED BY <1>1, <1>5, <2>1
<1> HIDE DEF ps
<1>7. Chained(data, ps)
  <2>1. \A i \in 1..Len(ps) : seqs[i] = Netstring(ps[i]) /\ Len(ps[i]) <= SizeMax
    BY <1>5, <1>6
  <2>2. Len(ps) # 0 /\ Len(seqs) = Len(ps)
    BY <1>1, <1>6
  <2> QED BY <1>2, <1>6, <2>1, <2>2, FlattenChained, Zenon
<1>8. Records(data) = [status |-> "done", payloads |-> ps]
  BY <1>2, <1>6, <1>7, ChainRecords
<1>b. PICK r : r = Records(data)
  OBVIOUS
<1>9. r.status = "done" /\ r.payloads = ps
  BY <1>8, <1>b
<1> DEFINE tokens == [i \in DOMAIN r.payloads |-> DecodeToken(r.payloads[i])]
<1>10. tokens = Raw(rule)
  <2>1. Raw(rule) = [i \in 1..n |-> RawToken(rule[i])]
    BY <1>1, Zenon DEF Raw
  <2>2. tokens = [i \in 1..n |-> DecodeToken(ps[i])]
    BY <1>6, <1>9
  <2>3. \A i \in 1..n : DecodeToken(ps[i]) = RawToken(rule[i])
    BY <1>5
  <2> HIDE DEF tokens
  <2> QED BY <2>1, <2>2, <2>3
<1>11. Len(tokens) = n /\ DOMAIN tokens = 1..n /\ \A i \in 1..n : tokens[i] = RawToken(rule[i])
  <2>1. Raw(rule) = [i \in 1..n |-> RawToken(rule[i])]
    BY <1>1, Zenon DEF Raw
  <2> HIDE DEF tokens
  <2> QED BY <1>10, <2>1
<1>12. DecodeAll(r) =
          IF \E i \in DOMAIN tokens : i <= MaxCmdTokens /\ tokens[i] = Malformed
          THEN Undecoded("format")
          ELSE IF r.status = "done" /\ Len(tokens) <= MaxCmdTokens
          THEN Decoded(tokens)
          ELSE Undecoded(IF Len(tokens) >= MaxCmdTokens \/ r.status = "overflow"
                         THEN "limit" ELSE "format")
  BY Zenon DEF DecodeAll
<1> HIDE DEF tokens
<1>13. DecodeTokens(data) = Decoded(Raw(rule))
  <2>1. ~ \E i \in DOMAIN tokens : i <= MaxCmdTokens /\ tokens[i] = Malformed
    BY <1>1, <1>11, RawWellFormed, Zenon
  <2>2. Len(tokens) <= MaxCmdTokens
    <3>1. n <= MaxCmdTokens
      BY <1>1, TextAssumption
    <3> QED BY <1>11, <3>1
  <2>3. DecodeAll(r) = Decoded(tokens)
    BY <1>9, <1>12, <2>1, <2>2, Zenon
  <2> QED BY <1>10, <1>b, <2>3, Zenon DEF DecodeTokens
<1>14. Len(data) \in 1..(MaxNetpatternLen - 1)
  <2>1. 1 \in 1..n
    BY <1>1
  <2>2. Len(seqs[1]) <= Len(data) /\ Len(ps[1]) < Len(seqs[1])
    BY <1>2, <1>5, <2>1
  <2>3. Len(seqs[1]) \in Nat /\ Len(ps[1]) \in Nat /\ Len(data) \in Nat
    BY <1>2, <1>4, <1>5, <2>1
  <2>4. Len(data) >= 1
    BY <2>2, <2>3
  <2> QED BY <1>3, <2>3, <2>4, PatternFits
<1>15. Decode(data) = Decoded(Raw(rule))
  <2>1. Encode(Raw(rule)).status = "ok"
    BY StoreAssumption, Zenon
  <2>2. Decoded(Raw(rule)).status = "ok" /\ Decoded(Raw(rule)).tokens = Raw(rule)
    BY DEF Decoded
  <2>3. Accepted(data, Decoded(Raw(rule))) = Decoded(Raw(rule))
    <3> PICK d : d = Decoded(Raw(rule))
      OBVIOUS
    <3> PICK again : again = Encode(d.tokens)
      OBVIOUS
    <3>1. d.status = "ok" /\ again.status = "ok" /\ again.bytes = data
      BY <1>a, <2>1, <2>2
    <3>2. Accepted(data, d) = d
      BY <3>1, Zenon DEF Accepted
    <3> QED BY <3>2
  <2> QED BY <1>13, <1>14, <2>3, Zenon DEF Decode
<1> QED BY <1>2, <1>14, <1>15, <1>a, Zenon

-------------------------------------------------------------------------------
(* A line of the file                                                      *)

Newline == "\n"

LEMMA LineItem ==
    ASSUME NEW p \in Seq(Bytes), NEW byte \in Bytes, Len(p) <= SizeMax
    PROVE  /\ Item(Netstring(p), 1, p) /\ Item(Netstring(p) \o <<byte>>, 1, p)
           /\ Netstring(p) \o <<byte>> \in Seq(Bytes)
           /\ Len(Netstring(p) \o <<byte>>) = EncodedLength(Len(p)) + 1
           /\ (Netstring(p) \o <<byte>>)[EncodedLength(Len(p)) + 1] = byte
           /\ SubSeq(Netstring(p) \o <<byte>>, 1, EncodedLength(Len(p))) = Netstring(p)
<1>a. PICK s : s = Netstring(p)
  OBVIOUS
<1>b. PICK e : e = <<byte>>
  OBVIOUS
<1>c. PICK l : l = EncodedLength(Len(p))
  OBVIOUS
<1>1. /\ s \in Seq(Bytes) /\ Len(s) = l /\ e \in Seq(Bytes) /\ l \in Nat
      /\ l > Len(p) + 2
  BY <1>a, <1>b, <1>c, NetstringLonger, Singleton, Zenon
<1>2. Item(s, 1, p)
  <2>1. <<>> \in Seq(Bytes) /\ Len(<<>>) = 0
    BY EmptyText
  <2>2. Item(<<>> \o s, Len(<<>>) + 1, p)
    BY <1>a, <2>1, ItemNew, Zenon
  <2>3. <<>> \o s = s /\ Len(<<>>) + 1 = 1
    BY <1>1, <2>1, EmptyText
  <2> QED BY <2>2, <2>3, Zenon
<1>3. Item(s \o e, 1, p)
  BY <1>1, <1>2, ItemAppend, Zenon
<1>d. PICK t : t = s \o <<byte>>
  OBVIOUS
<1>4. t \in Seq(Bytes) /\ Len(t) = l + 1 /\ t[l + 1] = byte /\ \A i \in 1..l : t[i] = s[i]
  <2>1. t \in Seq(Bytes) /\ OneMore(t, s, byte)
    BY <1>1, <1>d, OneMoreShape, Zenon
  <2> QED BY <1>1, <2>1 DEF OneMore
<1>5. SubSeq(t, 1, l) = s
  <2>1. \A i \in 1..l : t[i] \in Bytes
    <3>1. \A i \in 1..l : i \in 1..Len(t)
      BY <1>1, <1>4
    <3> QED BY <1>4, <3>1, ElementOfSeq
  <2>2. 1 \in Int /\ l \in Int /\ 1 <= l /\ l - 1 + 1 = l
    BY <1>1
  <2>a. PICK u : u = SubSeq(t, 1, l)
    OBVIOUS
  <2>3. u \in Seq(Bytes) /\ Len(u) = l /\ \A i \in 1..l : u[i] = t[1 + i - 1]
    BY <2>1, <2>2, <2>a, SubSeqProperties
  <2>4. \A i \in 1..l : 1 + i - 1 = i
    BY <1>1
  <2>5. \A i \in 1..Len(u) : u[i] = s[i]
    BY <1>4, <2>3, <2>4
  <2>6. u = s
    BY <1>1, <2>3, <2>5, SeqEqual
  <2> QED BY <2>a, <2>6
<1> QED BY <1>2, <1>3, <1>4, <1>5, <1>a, <1>b, <1>c, <1>d, Zenon

(* A rule, the bytes of its netpattern, and its line. *)
LEMMA SavedShape ==
    ASSUME NEW rule \in Rules
    PROVE  \E p \in Seq(Bytes) :
               /\ p = Encode(Raw(rule)).bytes /\ Len(p) \in 1..(MaxNetpatternLen - 1)
               /\ Decode(p) = Decoded(Raw(rule))
               /\ Saved[rule] = Netstring(p) \o <<Newline>>
               /\ EncodedLength(Len(p)) + 2 < SizeMax
               /\ EncodedLength(Len(p)) <= MaxNetpatternLen + 32
               /\ EncodedLength(Len(p)) \in Nat /\ Len(p) <= SizeMax
<1>a. PICK p : p = Encode(Raw(rule)).bytes
  OBVIOUS
<1>1. p \in Seq(Bytes) /\ Len(p) \in 1..(MaxNetpatternLen - 1) /\ Decode(p) = Decoded(Raw(rule))
  BY <1>a, RuleReads, Zenon
<1>2. Saved[rule] = Netstring(p) \o <<Newline>>
  BY <1>a, Zenon DEF Saved, Newline
<1>3. Len(p) \in 0..(MaxNetpatternLen - 1) /\ Len(p) <= SizeMax
  BY <1>1, PatternFits
<1>4. /\ EncodedLength(Len(p)) + 2 < SizeMax
      /\ EncodedLength(Len(p)) <= MaxNetpatternLen + 32
  BY <1>3, StoreAssumption, Zenon
<1>5. EncodedLength(Len(p)) \in Nat
  BY <1>1, NetstringLonger, Zenon
<1> QED BY <1>1, <1>2, <1>3, <1>4, <1>5, <1>a, Zenon

LEMMA NewlineByte == Newline \in Bytes
BY StoreAssumption, Zenon DEF Newline

LEMMA LoadedRecord ==
    ASSUME NEW t, NEW r, NEW p, NEW next, NEW tokens,
           r = [status |-> "ok", payload |-> p, next |-> next],
           NextRecord(Cut(t, next - 1), 1) = r,
           Len(p) \in 1..(MaxNetpatternLen - 1), ByteAt(t, next) = Newline,
           Decode(p) = Decoded(tokens)
    PROVE  LoadRecord(t, r) = Decoded(tokens)
<1>1. r.status = "ok" /\ r.payload = p /\ r.next = next
  OBVIOUS
<1>2. NextRecord(Cut(t, r.next - 1), 1) = r /\ ByteAt(t, r.next) = Newline
      /\ Len(r.payload) \in 1..(MaxNetpatternLen - 1) /\ Decode(r.payload) = Decoded(tokens)
  BY <1>1, Zenon
<1>3. LoadRecord(t, r) = Loaded(Decode(r.payload))
  BY ONLY <1>1, <1>2, Zenon DEF LoadRecord, Newline
<1>4. Decoded(tokens).status = "ok"
  BY DEF Decoded
<1>5. Loaded(Decoded(tokens)) = Decoded(tokens)
  BY <1>4, Zenon DEF Loaded
<1> QED BY <1>2, <1>3, <1>5, Zenon

(* Whatever was saved loads. *)
LEMMA SavedLoads ==
    ASSUME NEW rule \in Rules
    PROVE  Load(Saved[rule]) = Decoded(Raw(rule))
<1>a. PICK t : t = Saved[rule]
  OBVIOUS
<1>1. PICK p \in Seq(Bytes) :
               /\ p = Encode(Raw(rule)).bytes /\ Len(p) \in 1..(MaxNetpatternLen - 1)
               /\ Decode(p) = Decoded(Raw(rule))
               /\ Saved[rule] = Netstring(p) \o <<Newline>>
               /\ EncodedLength(Len(p)) + 2 < SizeMax
               /\ EncodedLength(Len(p)) <= MaxNetpatternLen + 32
               /\ EncodedLength(Len(p)) \in Nat /\ Len(p) <= SizeMax
  BY SavedShape, Zenon
<1>b. PICK l : l = EncodedLength(Len(p))
  OBVIOUS
<1>2. /\ Item(Netstring(p), 1, p) /\ Item(t, 1, p) /\ t \in Seq(Bytes)
      /\ Len(t) = l + 1 /\ t[l + 1] = Newline /\ SubSeq(t, 1, l) = Netstring(p)
  <2>1. t = Netstring(p) \o <<Newline>>
    BY <1>1, <1>a
  <2>2. p \in Seq(Bytes) /\ Len(p) <= SizeMax
    BY <1>1
  <2>3. /\ Item(Netstring(p), 1, p) /\ Item(Netstring(p) \o <<Newline>>, 1, p)
        /\ Netstring(p) \o <<Newline>> \in Seq(Bytes)
        /\ Len(Netstring(p) \o <<Newline>>) = EncodedLength(Len(p)) + 1
        /\ (Netstring(p) \o <<Newline>>)[EncodedLength(Len(p)) + 1] = Newline
        /\ SubSeq(Netstring(p) \o <<Newline>>, 1, EncodedLength(Len(p))) = Netstring(p)
    BY ONLY <2>2, LineItem, NewlineByte, Zenon
  <2> QED BY ONLY <2>1, <2>3, <1>b
<1>3. l + 2 < SizeMax /\ l <= MaxNetpatternLen + 32 /\ l \in Nat
  BY <1>1, <1>b, Zenon
<1>c. PICK next : next = After1(1, p)
  OBVIOUS
<1>4. next = 1 + l
  BY <1>b, <1>c, Zenon DEF After1
<1>d. PICK r : r = [status |-> "ok", payload |-> p, next |-> next]
  OBVIOUS
<1>5. NextRecord(t, 1) = r /\ NextRecord(Netstring(p), 1) = r
  <2>1. Netstring(p) \in Seq(Bytes)
    BY NetstringGrows
  <2> QED BY <1>2, <1>c, <1>d, <2>1, ItemNext, Zenon
<1>6. ReadStream(t, 1, MaxNetpatternLen + 32) = r
  <2>1. 1 \in 1..Len(t) /\ Len(p) \in 0..SizeMax /\ Written(t, 1, Len(p))
    BY <1>2, Zenon DEF Item
  <2>2. MaxNetpatternLen + 32 \in Nat
    BY PatternFits
  <2>3. Capped(Len(p), MaxNetpatternLen + 32)
    <3>1. l < SizeMax /\ l <= MaxNetpatternLen + 32
      BY <1>3, PatternFits
    <3> QED BY <1>b, <3>1, Zenon DEF Capped
  <2>4. ReadStream(t, 1, MaxNetpatternLen + 32) = RecordFound(t, 1, Len(p))
    BY <1>2, <2>1, <2>2, <2>3, StreamFound, Zenon
  <2>5. NextRecord(t, 1) = RecordFound(t, 1, Len(p))
    BY <1>2, <2>1, NextFound, Zenon
  <2> QED BY <1>5, <2>4, <2>5, Zenon
<1>7. NextRecord(Cut(t, next - 1), 1) = r
  <2>1. next - 1 = l
    BY <1>3, <1>4
  <2> QED BY <1>2, <1>5, <2>1, Zenon DEF Cut
<1>8. ByteAt(t, next) = Newline
  <2>1. next \in DOMAIN t /\ next = l + 1
    BY <1>2, <1>3, <1>4
  <2> QED BY <1>2, <2>1, Zenon DEF ByteAt
<1>9. LoadRecord(t, r) = Decoded(Raw(rule))
  <2>1. /\ r = [status |-> "ok", payload |-> p, next |-> next]
        /\ NextRecord(Cut(t, next - 1), 1) = r
        /\ Len(p) \in 1..(MaxNetpatternLen - 1) /\ ByteAt(t, next) = Newline
        /\ Decode(p) = Decoded(Raw(rule))
    BY <1>1, <1>7, <1>8, <1>d, Zenon
  <2> QED BY ONLY <2>1, LoadedRecord
<1> QED BY <1>6, <1>9, <1>a, Zenon DEF Load

(* Whatever loads is a line the writer would have written. *)
LEMMA UndecodedFails == \A error : error # "ok" => Undecoded(error).status # "ok"
BY DEF Undecoded

(* What decodes is the encoding of the tokens it decodes to. *)
LEMMA DecodeOk ==
    ASSUME NEW data, Decode(data).status = "ok"
    PROVE  Encode(Decode(data).tokens).bytes = data
<1>0. "format" # "ok" /\ "limit" # "ok"
  OBVIOUS
<1>a. PICK read : read = DecodeTokens(data)
  OBVIOUS
<1>1. Decode(data) = Accepted(data, read)
  BY <1>0, <1>a, UndecodedFails, Zenon DEF Decode
<1>b. PICK again : again = Encode(read.tokens)
  OBVIOUS
<1>2. Accepted(data, read) =
         IF read.status # "ok" THEN read
         ELSE IF again.status # "ok"
         THEN Undecoded(IF again.status = "limit" THEN "limit" ELSE "format")
         ELSE IF again.bytes # data THEN Undecoded("format")
         ELSE read
  BY <1>b, Zenon DEF Accepted
<1>3. Accepted(data, read).status = "ok"
  BY <1>1
<1>4. (IF again.status = "limit" THEN "limit" ELSE "format") # "ok"
  BY <1>0
<1>5. Accepted(data, read) = read /\ again.bytes = data
  BY ONLY <1>0, <1>2, <1>3, <1>4, UndecodedFails, Zenon
<1> QED BY <1>1, <1>5, <1>b

(* A line loads only with a record, a newline after it and a netpattern in it. *)
LEMMA LoadOk ==
    ASSUME NEW t, NEW r, LoadRecord(t, r).status = "ok"
    PROVE  /\ r.status = "ok" /\ ByteAt(t, r.next) = Newline
           /\ LoadRecord(t, r) = Decode(r.payload) /\ Decode(r.payload).status = "ok"
<1>0. "format" # "ok" /\ "limit" # "ok" /\ "overflow" # "ok"
  OBVIOUS
<1>1. (IF r.status = "overflow" THEN "limit" ELSE "format") # "ok"
  BY <1>0
<1>2. LoadRecord(t, r) =
         IF r.status # "ok"
         THEN Undecoded(IF r.status = "overflow" THEN "limit" ELSE "format")
         ELSE IF \/ NextRecord(Cut(t, r.next - 1), 1) # r
                 \/ Len(r.payload) \notin 1..(MaxNetpatternLen - 1)
                 \/ ByteAt(t, r.next) # Newline
         THEN Undecoded("format")
         ELSE Loaded(Decode(r.payload))
  BY Zenon DEF LoadRecord, Newline
<1>3. LoadRecord(t, r).status = "ok"
  OBVIOUS
<1>4. r.status = "ok" /\ ByteAt(t, r.next) = Newline /\ LoadRecord(t, r) = Loaded(Decode(r.payload))
  <2>1. r.status = "ok"
    <3> SUFFICES ASSUME r.status # "ok" PROVE FALSE
      OBVIOUS
    <3>a. PICK e : e = IF r.status = "overflow" THEN "limit" ELSE "format"
      OBVIOUS
    <3>1. LoadRecord(t, r) = Undecoded(e)
      BY <1>2, <3>a, Zenon
    <3>2. e # "ok"
      BY <1>1, <3>a, Zenon
    <3> QED BY ONLY <1>3, <3>1, <3>2, UndecodedFails, Zenon
  <2>2. LoadRecord(t, r) =
           IF \/ NextRecord(Cut(t, r.next - 1), 1) # r
              \/ Len(r.payload) \notin 1..(MaxNetpatternLen - 1)
              \/ ByteAt(t, r.next) # Newline
           THEN Undecoded("format")
           ELSE Loaded(Decode(r.payload))
    BY <1>2, <2>1, Zenon
  <2>3. ByteAt(t, r.next) = Newline /\ LoadRecord(t, r) = Loaded(Decode(r.payload))
    BY ONLY <1>0, <1>3, <2>2, UndecodedFails, Zenon
  <2> QED BY <2>1, <2>3
<1>a. PICK d : d = Decode(r.payload)
  OBVIOUS
<1>5. Loaded(d) = IF d.status = "ok" THEN d ELSE Undecoded("format")
  BY Zenon DEF Loaded
<1>6. Loaded(d).status = "ok"
  BY <1>3, <1>4, <1>a
<1>7. d.status = "ok" /\ Loaded(d) = d
  BY ONLY <1>0, <1>5, <1>6, UndecodedFails, Zenon
<1> QED BY <1>4, <1>7, <1>a

LEMMA LoadsCanonical ==
    ASSUME NEW t \in Seq(Bytes), Load(t).status = "ok",
           NEW canonical,
           canonical = Netstring(Encode(Load(t).tokens).bytes) \o <<Newline>>
    PROVE  canonical = Cut(t, Len(canonical))
<1>a. PICK cap : cap = MaxNetpatternLen + 32
  OBVIOUS
<1>b. PICK r : r = ReadStream(t, 1, cap)
  OBVIOUS
<1>0. cap \in Nat
  BY <1>a, PatternFits
<1>1. Load(t) = LoadRecord(t, r)
  BY <1>a, <1>b, Zenon DEF Load
<1>2. /\ r.status = "ok" /\ ByteAt(t, r.next) = Newline
      /\ Load(t) = Decode(r.payload) /\ Decode(r.payload).status = "ok"
  BY <1>1, LoadOk, Zenon
<1>c. PICK p : p = r.payload
  OBVIOUS
<1>3. Encode(Load(t).tokens).bytes = p
  BY <1>2, <1>c, DecodeOk, Zenon
<1>4. canonical = Netstring(p) \o <<Newline>>
  BY <1>3, Zenon
<1>5. 1 \in 1..Len(t)
  <2>1. ~(1 > Len(t))
    <3>1. 1 > Len(t) => r = Stopped("done")
      BY <1>b, Zenon DEF ReadStream
    <3>2. Stopped("done").status # "ok"
      BY DEF Stopped
    <3> QED BY <1>2, <3>1, <3>2, Zenon
  <2> QED BY <2>1
<1>6. PICK n \in 0..SizeMax : Written(t, 1, n) /\ Capped(n, cap)
  <2>1. ReadStream(t, 1, cap).status = "ok"
    BY <1>2, <1>b
  <2> QED BY <1>0, <1>5, <2>1, ReadStreamOk, Zenon
<1>7. n \in Nat
  BY SizeAssumption
<1>8. r = RecordFound(t, 1, n)
  BY <1>0, <1>5, <1>6, <1>b, StreamFound, Zenon
<1>d. PICK l : l = EncodedLength(n)
  OBVIOUS
<1>e. PICK k : k = Len(Decimal[n])
  OBVIOUS
<1>9. k \in Nat /\ l = k + 2 + n
  BY <1>7, <1>d, <1>e, DecimalTyped DEF EncodedLength
<1>10. /\ r.next = 1 + l /\ p \in Seq(Bytes) /\ Len(p) = n
       /\ 1 + l \in (1 + 1)..(Len(t) + 1)
  BY <1>5, <1>6, <1>7, <1>8, <1>c, <1>d, FoundShape, Zenon
<1>11. p = SubSeq(t, k + 2, l - 1)
  <2>1. r = Found(t, 1 + k + 1, n)
    BY <1>8, <1>e, Zenon DEF RecordFound
  <2>2. p = SubSeq(t, 1 + k + 1, 1 + k + 1 + n - 1)
    BY <2>1, <1>c DEF Found
  <2>3. 1 + k + 1 = k + 2 /\ 1 + k + 1 + n - 1 = l - 1
    BY <1>7, <1>9
  <2> QED BY <2>2, <2>3
<1>12. SubSeq(t, 1, l) = Netstring(p)
  <2>1. Slice(t, 1, n)
    BY <1>5, <1>6, <1>7, WrittenSlice
  <2>2. SubSeq(t, 1, 1 + l - 1) = Netstring(SubSeq(t, 1 + k + 1, (1 + l - 1) - 1))
    <3>1. SubSeq(t, 1, 1 + EncodedLength(n) - 1) =
              Netstring(SubSeq(t, 1 + Len(Decimal[n]) + 1, (1 + EncodedLength(n) - 1) - 1))
      <4>1. Slice(t, 1, n) =>
                SubSeq(t, 1, 1 + EncodedLength(n) - 1) =
                    Netstring(SubSeq(t, 1 + Len(Decimal[n]) + 1, (1 + EncodedLength(n) - 1) - 1))
        BY ONLY Zenon DEF Slice
      <4> QED BY ONLY <2>1, <4>1
    <3> QED BY ONLY <3>1, <1>d, <1>e
  <2>3. 1 + l - 1 = l /\ 1 + k + 1 = k + 2 /\ (1 + l - 1) - 1 = l - 1
    BY <1>7, <1>9
  <2> QED BY <1>11, <2>2, <2>3
<1>13. l + 1 \in 1..Len(t) /\ t[l + 1] = Newline
  <2>1. ByteAt(t, l + 1) = Newline
    <3>1. 1 + l = l + 1
      BY <1>7, <1>9
    <3> QED BY <1>2, <1>10, <3>1, Zenon
  <2>2. Newline # "EOF"
    BY Zenon DEF Newline
  <2>3. l + 1 \in DOMAIN t /\ t[l + 1] = Newline
    BY <2>1, <2>2, Zenon DEF ByteAt
  <2> QED BY <2>3
<1>14. Len(canonical) = l + 1
  <2>1. Len(Netstring(p) \o <<Newline>>) = EncodedLength(Len(p)) + 1
    <3>1. Len(p) <= SizeMax
      BY <1>6, <1>10, SizeAssumption
    <3> QED BY <1>10, <3>1, NewlineByte, LineItem, Zenon
  <2> QED BY <1>4, <1>10, <1>d, <2>1, Zenon
<1>15. SubSeq(t, 1, l + 1) = SubSeq(t, 1, l) \o <<Newline>>
  <2>1. 1 \in 1..Len(t) /\ l + 1 \in 1..Len(t) /\ (l + 1) - 1 = l
    BY <1>5, <1>7, <1>9, <1>13
  <2>2. SubSeq(t, 1, l + 1) = SubSeq(t, 1, (l + 1) - 1) \o <<t[l + 1]>>
    BY <2>1, SubSeqRecursiveSecond
  <2> QED BY <1>13, <2>1, <2>2
<1> QED BY <1>4, <1>12, <1>14, <1>15, Zenon DEF Cut

-------------------------------------------------------------------------------
(* The file, and what a fault leaves of it                                 *)

StoreInv ==
    /\ wide \in Rules /\ narrow \in Rules
    /\ text \in Seq(Bytes) /\ Len(text) < SizeMax

LEMMA SavedTyped ==
    ASSUME NEW rule \in Rules
    PROVE  Saved[rule] \in Seq(Bytes) /\ Len(Saved[rule]) + 1 < SizeMax
<1>1. PICK p \in Seq(Bytes) :
               /\ p = Encode(Raw(rule)).bytes /\ Len(p) \in 1..(MaxNetpatternLen - 1)
               /\ Decode(p) = Decoded(Raw(rule))
               /\ Saved[rule] = Netstring(p) \o <<Newline>>
               /\ EncodedLength(Len(p)) + 2 < SizeMax
               /\ EncodedLength(Len(p)) <= MaxNetpatternLen + 32
               /\ EncodedLength(Len(p)) \in Nat /\ Len(p) <= SizeMax
  BY SavedShape, Zenon
<1>2. Len(p) <= SizeMax
  BY <1>1
<1>3. /\ Netstring(p) \o <<Newline>> \in Seq(Bytes)
      /\ Len(Netstring(p) \o <<Newline>>) = EncodedLength(Len(p)) + 1
  BY ONLY <1>2, LineItem, NewlineByte, Zenon
<1>4. EncodedLength(Len(p)) + 1 + 1 < SizeMax
  BY <1>1, PatternFits
<1> QED BY <1>1, <1>3, <1>4, Zenon

LEMMA SubSeqTyped ==
    ASSUME NEW S, NEW t \in Seq(S), NEW i \in Nat, NEW j \in Nat, 1 <= i, j <= Len(t)
    PROVE  /\ SubSeq(t, i, j) \in Seq(S)
           /\ Len(SubSeq(t, i, j)) = IF i <= j THEN j - i + 1 ELSE 0
<1>1. \A k \in i..j : t[k] \in S
  <2>1. \A k \in i..j : k \in 1..Len(t)
    OBVIOUS
  <2> QED BY <2>1, ElementOfSeq
<1> QED BY <1>1, SubSeqProperties

(* A fault adds a byte at most. *)
LEMMA DamagedTyped ==
    ASSUME NEW t \in Seq(Bytes), Len(t) + 1 < SizeMax, NEW u \in Damaged(t)
    PROVE  u \in Seq(Bytes) /\ Len(u) < SizeMax
<1>a. PICK n : n = Len(t)
  OBVIOUS
<1>0. n \in Nat /\ n + 1 < SizeMax /\ SizeMax \in Nat
  BY <1>a, SizeAssumption
<1>1. \A b \in StrayBytes : b \in Bytes /\ <<b>> \in Seq(Bytes) /\ Len(<<b>>) = 1
  <2>1. \A b \in StrayBytes : b \in Bytes
    BY StoreAssumption, Zenon
  <2> QED BY <2>1, Singleton, Zenon
<1>2. ASSUME NEW i \in DOMAIN t, NEW b \in StrayBytes, u = Altered(t, i, b)
      PROVE  u \in Seq(Bytes) /\ Len(u) < SizeMax
  <2>1. u = [t EXCEPT ![i] = b]
    BY <1>2, Zenon DEF Altered
  <2>2. b \in Bytes
    BY <1>1
  <2>3. u \in Seq(Bytes) /\ Len(u) = n
    BY <1>a, <2>1, <2>2
  <2> QED BY <1>0, <2>3
<1>3. ASSUME NEW i \in 0..n, NEW b \in StrayBytes, u = Added(t, i, b)
      PROVE  u \in Seq(Bytes) /\ Len(u) < SizeMax
  <2>a. PICK s : s = SubSeq(t, 1, i)
    OBVIOUS
  <2>b. PICK e : e = SubSeq(t, i + 1, n)
    OBVIOUS
  <2>c. PICK x : x = <<b>>
    OBVIOUS
  <2>1. s \in Seq(Bytes) /\ Len(s) = i
    <3>1. i \in Nat /\ i <= Len(t) /\ 1 <= 1 /\ (IF 1 <= i THEN i - 1 + 1 ELSE 0) = i
      BY <1>0, <1>a
    <3> QED BY <2>a, <3>1, SubSeqTyped
  <2>2. e \in Seq(Bytes) /\ Len(e) = n - i
    <3>1. i + 1 \in Nat /\ n \in Nat /\ 1 <= i + 1 /\ n <= Len(t)
          /\ (IF i + 1 <= n THEN n - (i + 1) + 1 ELSE 0) = n - i
      BY <1>0, <1>a
    <3> QED BY <2>b, <3>1, SubSeqTyped
  <2>3. x \in Seq(Bytes) /\ Len(x) = 1
    BY <1>1, <2>c
  <2>4. (s \o x) \o e \in Seq(Bytes) /\ Len((s \o x) \o e) = i + 1 + (n - i)
    <3>1. s \o x \in Seq(Bytes) /\ Len(s \o x) = i + 1
      <4>1. s \o x \in Seq(Bytes) /\ Len(s \o x) = Len(s) + Len(x)
        BY <2>1, <2>3, ConcatProperties, Zenon
      <4> QED BY ONLY <2>1, <2>3, <4>1
    <3> PICK y : y = s \o x
      OBVIOUS
    <3>0. y \in Seq(Bytes) /\ Len(y) = i + 1
      BY <3>1
    <3>2. y \o e \in Seq(Bytes) /\ Len(y \o e) = i + 1 + (n - i)
      BY ONLY <2>2, <3>0
    <3> QED BY <3>2
  <2>5. u = (s \o x) \o e
    BY <1>3, <1>a, <2>a, <2>b, <2>c, Zenon DEF Added
  <2>6. i + 1 + (n - i) < SizeMax
    BY <1>0
  <2> QED BY <2>4, <2>5, <2>6, Zenon
<1>4. ASSUME NEW i \in DOMAIN t, u = Lost(t, i)
      PROVE  u \in Seq(Bytes) /\ Len(u) < SizeMax
  <2>0. i \in 1..n
    BY <1>a
  <2>a. PICK s : s = SubSeq(t, 1, i - 1)
    OBVIOUS
  <2>b. PICK e : e = SubSeq(t, i + 1, n)
    OBVIOUS
  <2>1. s \in Seq(Bytes) /\ Len(s) = i - 1
    <3>1. i - 1 \in Nat /\ i - 1 <= Len(t) /\ 1 <= 1
          /\ (IF 1 <= i - 1 THEN i - 1 - 1 + 1 ELSE 0) = i - 1
      BY <1>0, <1>a, <2>0
    <3> QED BY <2>a, <3>1, SubSeqTyped
  <2>2. e \in Seq(Bytes) /\ Len(e) = n - i
    <3>1. i + 1 \in Nat /\ n \in Nat /\ 1 <= i + 1 /\ n <= Len(t)
          /\ (IF i + 1 <= n THEN n - (i + 1) + 1 ELSE 0) = n - i
      BY <1>0, <1>a, <2>0
    <3> QED BY <2>b, <3>1, SubSeqTyped
  <2>3. s \o e \in Seq(Bytes) /\ Len(s \o e) = i - 1 + (n - i)
    BY ONLY <2>1, <2>2
  <2>4. u = s \o e
    BY <1>4, <1>a, <2>a, <2>b, Zenon DEF Lost
  <2>5. i - 1 + (n - i) < SizeMax
    BY <1>0, <2>0
  <2> QED BY <2>3, <2>4, <2>5, Zenon
<1>5. ASSUME NEW i \in 0..(n - 1), u = Cut(t, i)
      PROVE  u \in Seq(Bytes) /\ Len(u) < SizeMax
  <2>1. i \in Nat /\ i <= Len(t) /\ 1 <= 1 /\ (IF 1 <= i THEN i - 1 + 1 ELSE 0) = i
    BY <1>0, <1>a
  <2>a. PICK s : s = SubSeq(t, 1, i)
    OBVIOUS
  <2>2. s \in Seq(Bytes) /\ Len(s) = i
    BY <2>1, <2>a, SubSeqTyped
  <2>3. u = s
    BY <1>5, <2>a, Zenon DEF Cut
  <2>4. i < SizeMax
    BY <1>0
  <2> QED BY <2>2, <2>3, <2>4
<1>6. \/ \E i \in DOMAIN t, b \in StrayBytes : u = Altered(t, i, b)
      \/ \E i \in 0..n, b \in StrayBytes : u = Added(t, i, b)
      \/ \E i \in DOMAIN t : u = Lost(t, i)
      \/ \E i \in 0..(n - 1) : u = Cut(t, i)
  BY <1>a DEF Damaged
<1> QED BY <1>2, <1>3, <1>4, <1>5, <1>6, Zenon

(* The text is always one that a size_t can count. *)
LEMMA StoreInductive == StoreSpec => []StoreInv
<1>1. StoreInit => StoreInv
  <2> SUFFICES ASSUME StoreInit PROVE StoreInv
    OBVIOUS
  <2>1. wide \in Rules /\ narrow \in Rules /\ text = Saved[narrow]
    BY DEF StoreInit, PairInit
  <2>2. text \in Seq(Bytes) /\ Len(text) + 1 < SizeMax
    BY <2>1, SavedTyped, Zenon
  <2>3. Len(text) < SizeMax
    BY <2>2, SizeAssumption
  <2> QED BY <2>1, <2>2, <2>3 DEF StoreInv
<1>2. StoreInv /\ [StoreNext]_storeVars => StoreInv'
  <2> SUFFICES ASSUME StoreInv, [StoreNext]_storeVars PROVE StoreInv'
    OBVIOUS
  <2>1. \A rule \in Rules : Saved[rule] \in Seq(Bytes) /\ Len(Saved[rule]) < SizeMax
    <3> SUFFICES ASSUME NEW rule \in Rules
                 PROVE  Saved[rule] \in Seq(Bytes) /\ Len(Saved[rule]) < SizeMax
      OBVIOUS
    <3>1. Saved[rule] \in Seq(Bytes) /\ Len(Saved[rule]) + 1 < SizeMax
      BY SavedTyped
    <3> QED BY <3>1, SizeAssumption
  <2>2. ASSUME Pick PROVE StoreInv'
    <3>1. PICK rule \in Rules : wide' = wide /\ narrow' = rule /\ text' = Saved[rule]
      BY <2>2, Zenon DEF Pick, Compare
    <3> QED BY <2>1, <3>1 DEF StoreInv
  <2>3. ASSUME Damage PROVE StoreInv'
    <3>1. /\ text = Saved[narrow] /\ text' \in Damaged(text)
          /\ wide' = wide /\ narrow' = narrow
      BY <2>3 DEF Damage
    <3>2. text \in Seq(Bytes) /\ Len(text) + 1 < SizeMax
      <4>1. narrow \in Rules
        BY DEF StoreInv
      <4> QED BY <3>1, <4>1, SavedTyped, Zenon
    <3>3. text' \in Seq(Bytes) /\ Len(text') < SizeMax
      BY <3>1, <3>2, DamagedTyped
    <3> QED BY <3>1, <3>3 DEF StoreInv
  <2>4. ASSUME Save PROVE StoreInv'
    <3>1. text' = Saved[narrow] /\ wide' = wide /\ narrow' = narrow
      BY <2>4 DEF Save
    <3> QED BY <2>1, <3>1 DEF StoreInv
  <2>5. CASE UNCHANGED storeVars
    BY <2>5 DEF storeVars, StoreInv
  <2> QED BY <2>2, <2>3, <2>4, <2>5 DEF StoreNext
<1> QED BY <1>1, <1>2, PTL DEF StoreSpec

(* The readers of records agree with each other and with the writer at     *)
(* every offset of whatever text a fault leaves (shell_netstring.c).       *)
THEOREM FramingRight == StoreSpec => []FramingExact
<1>1. StoreInv => FramingExact
  BY Framing DEF StoreInv
<1> QED BY <1>1, StoreInductive, PTL

(* A saved rule loads to its own tokens, and whatever else loads is the    *)
(* canonical line of the rule it loads to (st_policy_save, dfs_save,       *)
(* st_policy_load, st_netpattern_decode_view).                             *)
THEOREM LoadRight == StoreSpec => []LoadExact
<1>1. StoreInv => LoadExact
  <2> SUFFICES ASSUME StoreInv PROVE LoadExact
    OBVIOUS
  <2>a. PICK loaded : loaded = Load(text)
    OBVIOUS
  <2>1. text = Saved[narrow] => loaded = Decoded(Raw(narrow))
    <3>1. narrow \in Rules
      BY DEF StoreInv
    <3> QED BY <2>a, <3>1, SavedLoads, Zenon
  <2>2. ASSUME loaded.status = "ok"
        PROVE  \E canonical \in {Netstring(Encode(loaded.tokens).bytes) \o <<Newline>>} :
                  canonical = Cut(text, Len(canonical))
    <3>a. PICK canonical : canonical = Netstring(Encode(loaded.tokens).bytes) \o <<Newline>>
      OBVIOUS
    <3>1. text \in Seq(Bytes)
      BY DEF StoreInv
    <3>2. Load(text).status = "ok"
          /\ canonical = Netstring(Encode(Load(text).tokens).bytes) \o <<Newline>>
      BY <2>2, <2>a, <3>a, Zenon
    <3>3. canonical = Cut(text, Len(canonical))
      BY ONLY <3>1, <3>2, LoadsCanonical
    <3> QED BY <3>3, <3>a, Zenon
  <2> QED BY <2>1, <2>2, <2>a, Zenon DEF LoadExact, Newline
<1> QED BY <1>1, StoreInductive, PTL


-------------------------------------------------------------------------------
(* The inductive invariant *)

Steps == {"idle", "stat", "create", "attach", "write", "mode", "sync", "close",
          "rename", "syncdir", "unlink", "closedir"}

(* While a save owns a temporary file. *)
Owning == {"attach", "write", "mode", "sync", "close", "rename", "unlink"}

Output == [open : BOOLEAN, stream : BOOLEAN, temp : Names \cup {NoName},
           mode : Modes \cup {NoMode}]

FileState == [parts : 0..Parts, mode : Modes,
              partsMay : SUBSET (0..Parts), modeMay : SUBSET Modes]

OutputTypes ==
    /\ pc \in Steps /\ out \in Output /\ written \in 0..Parts
    /\ failed \in BOOLEAN
    /\ dir \in [Names -> Entries] /\ dirMay \in [Names -> SUBSET Entries]
    /\ inode \in [Inodes -> FileState]
    /\ made \in Inodes /\ acked \in Nat /\ left \in SUBSET (Names \ {Dest})

Kept == inode[1].mode       \* the mode the path should have

(* A complete file, which a crash leaves as it is. *)
Settled == File(Parts, Kept)

(* The path: what a crash may restore is complete, not the file being      *)
(* written, and no older than what was acknowledged.                       *)
AtPath(entry) ==
    /\ entry <= made
    /\ pc \in Owning => entry < made
    /\ acked # 0 => entry >= acked
    /\ IF entry \in Inodes THEN inode[entry] = Settled ELSE Kept = Private

Path ==
    /\ inode[1] = Settled
    /\ dir[Dest] \in dirMay[Dest]
    /\ \A entry \in dirMay[Dest] : AtPath(entry)
    /\ acked <= made

(* The directory beside the path: what the save owns there, and what is    *)
(* left.                                                                   *)
Temporary ==
    /\ pc \in {"stat", "create"} => made < MaxInode
    /\ pc \in Owning \cup {"syncdir"} => made > 1
    /\ IF pc \in Owning
       THEN out.temp \in Names \ {Dest} /\ dir[out.temp] = made
                /\ out.temp \notin left
       ELSE out.temp = NoName
    /\ Present = left \cup ({out.temp} \ {NoName})
    /\ pc = "idle" => out = NoOutput

(* How far the new file is. *)
Progress ==
    /\ pc \in {"create", "attach", "write", "mode"} =>
           Kept = (IF out.mode = NoMode THEN Private ELSE out.mode)
    /\ pc \in {"attach", "write", "mode"} => inode[made].mode = Private
    /\ pc \in {"mode", "sync"} => written = Parts /\ inode[made].parts = Parts
    /\ pc = "sync" => inode[made].mode = Kept
    /\ pc \in {"rename", "syncdir"} \/ (pc = "close" /\ ~failed) =>
           inode[made] = Settled
    /\ pc = "close" /\ ~failed => written = Parts
    /\ pc = "unlink" => failed
    /\ pc \in Owning /\ inode[made].mode # Private => inode[made].parts = Parts
    /\ pc = "syncdir" => dir[Dest] = made
    /\ pc = "closedir" /\ ~failed => dirMay[Dest] = {made}

IInv == OutputTypes /\ Path /\ Temporary /\ Progress

-------------------------------------------------------------------------------
(* Files are made and change one at a time. *)
LEMMA FileIsState ==
  ASSUME NEW parts \in 0..Parts, NEW mode \in Modes
  PROVE  File(parts, mode) \in FileState
  BY DEF File, FileState

LEMMA SameFile ==
  ASSUME NEW file \in FileState, NEW parts \in 0..Parts, NEW mode \in Modes,
         file.parts = parts, file.mode = mode,
         file.partsMay = {parts}, file.modeMay = {mode}
  PROVE  file = File(parts, mode)
  BY DEF FileState, File

LEMMA NothingYet == 0 \in 0..Parts /\ 1 \in Inodes /\ 0 \in Nat
  BY OutputAssumption DEF Inodes

LEMMA NoOutputIsOutput == NoOutput \in Output
  BY DEF NoOutput, Output

LEMMA OneFile ==
  ASSUME OutputTypes, NEW file \in FileState, NEW i \in Inodes
  PROVE  /\ [inode EXCEPT ![i] = file] \in [Inodes -> FileState]
         /\ [inode EXCEPT ![i] = file][i] = file
         /\ \A j \in Inodes \ {i} : [inode EXCEPT ![i] = file][j] = inode[j]
  BY DEF OutputTypes

Grown(parts) == [inode[made] EXCEPT !.parts = parts, !.partsMay = @ \cup {parts}]

LEMMA ReachGrows ==
  ASSUME OutputTypes, NEW parts \in 0..Parts, Reach(parts)
  PROVE  /\ inode' \in [Inodes -> FileState]
         /\ inode'[made].parts = parts
         /\ inode'[made].mode = inode[made].mode
         /\ inode'[made].partsMay = inode[made].partsMay \cup {parts}
         /\ inode'[made].modeMay = inode[made].modeMay
         /\ \A i \in Inodes \ {made} : inode'[i] = inode[i]
  <1>1. inode[made] \in FileState /\ made \in Inodes  BY DEF OutputTypes
  <1>2. Grown(parts) \in FileState  BY <1>1 DEF FileState, Grown
  <1>3. inode' = [inode EXCEPT ![made] = Grown(parts)]  BY <1>1 DEF Reach, Grown, OutputTypes, FileState
  <1>4. /\ Grown(parts).parts = parts /\ Grown(parts).mode = inode[made].mode
        /\ Grown(parts).partsMay = inode[made].partsMay \cup {parts}
        /\ Grown(parts).modeMay = inode[made].modeMay
    BY <1>1 DEF Grown, FileState
  <1>. QED  BY <1>1, <1>2, <1>3, <1>4, OneFile

LEMMA LinkChanges ==
  ASSUME OutputTypes, NEW n \in Names \ {Dest}, NEW entry \in Entries, Link(n, entry)
  PROVE  /\ dir' \in [Names -> Entries] /\ dirMay' \in [Names -> SUBSET Entries]
         /\ dir'[Dest] = dir[Dest] /\ dirMay'[Dest] = dirMay[Dest]
         /\ dir'[n] = entry
         /\ \A m \in Names \ {n} : dir'[m] = dir[m]
  BY OutputAssumption DEF OutputTypes, Link

LEMMA TempChanges ==
  ASSUME out \in Output, NEW n \in Names \cup {NoName}
  PROVE  /\ [out EXCEPT !.temp = n] \in Output
         /\ [out EXCEPT !.temp = n].temp = n
         /\ [out EXCEPT !.temp = n].mode = out.mode
  BY DEF Output

(* The path does not depend on the file being written. *)
LEMMA PathStays ==
  ASSUME OutputTypes, Path, pc \in Owning, made > 1,
         UNCHANGED <<dir, dirMay, made, acked>>,
         \A i \in Inodes \ {made} : inode'[i] = inode[i]
  PROVE  Path'
  <1>a. 1 \in Inodes /\ 1 # made
    BY OutputAssumption DEF Inodes, OutputTypes
  <1>b. Kept' = Kept  BY <1>a DEF Kept
  <1>c. Settled' = Settled  BY <1>b DEF Settled
  <1>1. inode'[1] = inode[1] /\ Kept' = Kept /\ Settled' = Settled
    BY <1>a, <1>b, <1>c
  <1>d. ASSUME NEW entry \in dirMay[Dest], entry \in Inodes
        PROVE  entry \in Inodes \ {made}
    BY <1>d DEF Path, AtPath, OutputTypes, Inodes
  <1>2. \A entry \in dirMay[Dest] : AtPath(entry)'
    BY <1>1, <1>d DEF Path, AtPath
  <1>. QED  BY <1>1, <1>2 DEF Path

LEMMA InitIInv == Init => IInv
  <1> SUFFICES ASSUME Init PROVE IInv  OBVIOUS
  <1> USE OutputAssumption DEF Init, Inodes, Absent, Symlink, Special, Foreign
  <1>a. PICK mode \in Modes : /\ inode = [i \in Inodes |-> File(Parts, mode)]
                              /\ dir[Dest] # 1 => mode = Private
    OBVIOUS
  <1>b. \A i \in Inodes : inode[i] = File(Parts, mode) /\ inode[i] \in FileState
    BY <1>a, FileIsState
  <1>c. 1 \in Inodes /\ Kept = mode
    <2>1. 1 \in Inodes  OBVIOUS
    <2>2. File(Parts, mode).mode = mode  BY DEF File
    <2>. QED  BY <1>b, <2>1, <2>2 DEF Kept
  <1>d. dir \in [Names -> Entries]  BY DEF Entries
  <1>1. OutputTypes
    <2>1. dirMay \in [Names -> SUBSET Entries]  BY <1>d
    <2>2. inode \in [Inodes -> FileState]  BY <1>a, <1>b
    <2>3. left \in SUBSET (Names \ {Dest})  BY DEF Present
    <2>4. /\ pc \in Steps /\ out \in Output /\ written \in 0..Parts
          /\ failed \in BOOLEAN /\ made \in Inodes /\ acked \in Nat
      BY NoOutputIsOutput, NothingYet DEF Steps
    <2>. QED  BY <1>d, <2>1, <2>2, <2>3, <2>4 DEF OutputTypes
  <1>2. Path
    <2>1. dirMay[Dest] = {dir[Dest]}  OBVIOUS
    <2>2. dir[Dest] \in {1, Absent, Symlink, Special}  OBVIOUS
    <2>. QED  BY <1>b, <1>c, <1>a, <2>1, <2>2 DEF Path, AtPath, Settled, Owning
  <1>3. Temporary  BY DEF Temporary, Owning, NoOutput, Present
  <1>4. Progress  BY DEF Progress, Owning
  <1>. QED  BY <1>1, <1>2, <1>3, <1>4 DEF IInv

LEMMA OpenDirectoryStep == IInv /\ OpenDirectory => IInv'
  <1> SUFFICES ASSUME IInv, OpenDirectory PROVE IInv'  OBVIOUS
  <1> USE OutputAssumption DEF IInv, OpenDirectory, disk
  <1>1. OutputTypes'
    <2>1. out' \in Output  BY DEF NoOutput, Output
    <2>. QED  BY <2>1, NothingYet DEF OutputTypes, Steps, disk
  <1>2. Path'  BY DEF Path, AtPath, Settled, Kept, Owning
  <1>3. Temporary'  BY DEF Temporary, Present, Owning, NoOutput
  <1>4. Progress'  BY DEF Progress, Owning
  <1>. QED  BY <1>1, <1>2, <1>3, <1>4

LEMMA StatStep == IInv /\ Stat => IInv'
  <1> SUFFICES ASSUME IInv, Stat PROVE IInv'  OBVIOUS
  <1> USE OutputAssumption DEF IInv, Stat, Goto, disk
  <1>1. OutputTypes'  BY DEF OutputTypes, Steps, FileState, Output
  <1>2. Path'  BY DEF Path, AtPath, Settled, Kept, Owning
  <1>3. Temporary'  BY DEF Temporary, OutputTypes, Output, Present, Owning
  <1>4. Progress'
    <2>1. dir[Dest] \in Inodes => inode[dir[Dest]].mode = Kept
      BY DEF Path, AtPath, Settled, File
    <2>2. dir[Dest] \notin Inodes => Kept = Private
      BY DEF Path, AtPath
    <2>3. /\ Kept' = Kept /\ Kept \in Modes
          /\ out'.mode = IF dir[Dest] \in Inodes THEN Kept ELSE NoMode
      BY <2>1, NothingYet DEF Kept, OutputTypes, Output, FileState
    <2>. QED  BY <2>2, <2>3 DEF Progress, Owning
  <1>. QED  BY <1>1, <1>2, <1>3, <1>4

LEMMA StatFailsStep == IInv /\ StatFails => IInv'
  <1> SUFFICES ASSUME IInv, StatFails PROVE IInv'  OBVIOUS
  <1> USE OutputAssumption DEF IInv, StatFails, Fail, disk
  <1>1. OutputTypes'  BY DEF OutputTypes, Steps, Output
  <1>2. Path'  BY DEF Path, AtPath, Settled, Kept, Owning
  <1>3. Temporary'  BY DEF Temporary, Present, Owning
  <1>4. Progress'
    BY DEF Progress, Owning, Kept
  <1>. QED  BY <1>1, <1>2, <1>3, <1>4

LEMMA CreateStep ==
  ASSUME IInv, NEW n \in Names, Create(n)
  PROVE  IInv'
  <1> USE OutputAssumption DEF IInv, Create, CreateAt, Goto
  <1>a. /\ pc = "create" /\ made' = made + 1 /\ made \in Inodes
        /\ made' \in Inodes /\ made' \in Entries
    BY DEF Temporary, OutputTypes, Inodes, Entries
  <1>b. n \in Names \ {Dest} /\ n \notin left /\ Present = left
    BY <1>a DEF Temporary, Present, Owning
  <1>c. /\ dir' \in [Names -> Entries] /\ dirMay' \in [Names -> SUBSET Entries]
        /\ dir'[Dest] = dir[Dest] /\ dirMay'[Dest] = dirMay[Dest]
        /\ dir'[n] = made' /\ \A m \in Names \ {n} : dir'[m] = dir[m]
    BY <1>a, <1>b, LinkChanges
  <1>d. out' \in Output /\ out'.temp = n /\ out'.mode = out.mode
    BY TempChanges DEF OutputTypes
  <1>e. File(0, Private) \in FileState  BY FileIsState
  <1>f. /\ inode' \in [Inodes -> FileState]
        /\ inode'[made'] = File(0, Private)
        /\ \A i \in Inodes \ {made'} : inode'[i] = inode[i]
    BY <1>a, <1>e, OneFile
  <1>g. inode'[made'].mode = Private  BY <1>f DEF File
  <1>h. 1 \in Inodes \ {made'} /\ made' > 1  BY <1>a DEF Inodes
  <1>i. Kept' = Kept  BY <1>f, <1>h DEF Kept
  <1>j. Settled' = Settled  BY <1>i DEF Settled
  <1>1. OutputTypes'  BY <1>a, <1>c, <1>d, <1>f DEF OutputTypes, Steps
  <1>2. Path'
    <2>1. ASSUME NEW entry \in dirMay[Dest] PROVE AtPath(entry)'
      <3>1. entry \in Entries /\ entry <= made  BY DEF OutputTypes, Path, AtPath
      <3>2. entry < made'  BY <1>a, <3>1 DEF Entries, Inodes, Absent, Symlink, Special, Foreign
      <3>3. entry \in Inodes => inode'[entry] = inode[entry]
        BY <1>f, <3>2, <1>a DEF Inodes
      <3>4. entry <= made'  BY <1>a, <3>1, <3>2 DEF Entries, Inodes, Absent, Symlink, Special, Foreign
      <3>. QED  BY <1>i, <1>j, <3>2, <3>3, <3>4 DEF Path, AtPath
    <2>2. acked <= made'  BY <1>a DEF OutputTypes, Path, Inodes
    <2>. QED  BY <1>c, <1>f, <1>h, <1>j, <2>1, <2>2 DEF Path
  <1>3. Temporary'
    <2>1. Present' = left \cup {n}
      BY <1>a, <1>b, <1>c DEF Present, Inodes, Absent
    <2>2. pc' = "attach" /\ n # NoName  OBVIOUS
    <2>. QED  BY <1>a, <1>b, <1>c, <1>d, <1>h, <2>1, <2>2 DEF Temporary, Owning
  <1>4. Progress'
    BY <1>a, <1>d, <1>g, <1>i DEF Progress, Owning
  <1>. QED  BY <1>1, <1>2, <1>3, <1>4

LEMMA CreateFailsStep == IInv /\ CreateFails => IInv'
  <1> SUFFICES ASSUME IInv, CreateFails PROVE IInv'  OBVIOUS
  <1> USE OutputAssumption DEF IInv, CreateFails, Fail, disk
  <1>1. OutputTypes'  BY DEF OutputTypes, Steps, Output
  <1>2. Path'  BY DEF Path, AtPath, Settled, Kept, Owning
  <1>3. Temporary'  BY DEF Temporary, Present, Owning
  <1>4. Progress'
    BY DEF Progress, Owning, Kept
  <1>. QED  BY <1>1, <1>2, <1>3, <1>4

LEMMA AttachStep == IInv /\ Attach => IInv'
  <1> SUFFICES ASSUME IInv, Attach PROVE IInv'  OBVIOUS
  <1> USE OutputAssumption DEF IInv, Attach, Goto, Fail, disk
  <1>1. OutputTypes'  BY DEF OutputTypes, Steps, Output
  <1>2. Path'  BY DEF Path, AtPath, Settled, Kept, Owning
  <1>3. Temporary'  BY DEF Temporary, OutputTypes, Output, Present, Owning
  <1>4. Progress'
    BY DEF Progress, Owning, Kept, OutputTypes, Output
  <1>. QED  BY <1>1, <1>2, <1>3, <1>4

LEMMA WriteStep == IInv /\ Write => IInv'
  <1> SUFFICES ASSUME IInv, Write PROVE IInv'  OBVIOUS
  <1> USE OutputAssumption DEF IInv, Write
  <1>a. pc \in Owning /\ pc = "write" /\ made > 1 /\ made \in Inodes
    BY DEF Owning, Temporary, OutputTypes
  <1>b. PICK parts \in 0..Parts : Reach(parts)
    BY <1>a DEF OutputTypes, FileState
  <1>1. OutputTypes'  BY <1>b, ReachGrows DEF OutputTypes
  <1>2. Path'  BY <1>a, <1>b, ReachGrows, PathStays
  <1>3. Temporary'  BY DEF Temporary, Present
  <1>4. Progress'
    BY <1>a, <1>b, ReachGrows DEF Progress, OutputTypes, Settled, Kept, File, FileState, Owning, Goto, Fail, Inodes
  <1>. QED  BY <1>1, <1>2, <1>3, <1>4

LEMMA DiscardStep == IInv /\ Discard => IInv'
  <1> SUFFICES ASSUME IInv, Discard PROVE IInv'  OBVIOUS
  <1> USE OutputAssumption DEF IInv, Discard, Fail, disk
  <1>1. OutputTypes'  BY DEF OutputTypes, Steps, Output
  <1>2. Path'  BY DEF Path, AtPath, Settled, Kept, Owning
  <1>3. Temporary'  BY DEF Temporary, Present, Owning
  <1>4. Progress'
    BY DEF Progress, Owning, Kept
  <1>. QED  BY <1>1, <1>2, <1>3, <1>4

LEMMA FlushStep == IInv /\ Flush => IInv'
  <1> SUFFICES ASSUME IInv, Flush PROVE IInv'  OBVIOUS
  <1> USE OutputAssumption DEF IInv, Flush
  <1>a. pc \in Owning /\ pc = "write" /\ made > 1 /\ made \in Inodes
    BY DEF Owning, Temporary, OutputTypes
  <1>b. PICK parts \in 0..Parts :
            Reach(parts) /\ (pc' = "mode" => parts = Parts)
    BY <1>a DEF OutputTypes, FileState, Goto, Fail, Drain
  <1>1. OutputTypes'  BY <1>b, ReachGrows DEF OutputTypes, Goto, Fail, Steps
  <1>2. Path'  BY <1>a, <1>b, ReachGrows, PathStays
  <1>3. Temporary'  BY <1>a DEF Temporary, Present, Goto, Fail, Owning
  <1>4. Progress'
    BY <1>a, <1>b, ReachGrows DEF Progress, OutputTypes, Settled, Kept, File, FileState, Owning, Goto, Fail, Inodes
  <1>. QED  BY <1>1, <1>2, <1>3, <1>4

LEMMA SetModeStep == IInv /\ SetMode => IInv'
  <1> SUFFICES ASSUME IInv, SetMode PROVE IInv'  OBVIOUS
  <1> USE OutputAssumption DEF IInv, SetMode
  <1>a. pc \in Owning /\ pc = "mode" /\ made > 1 /\ made \in Inodes
    BY DEF Owning, Temporary, OutputTypes
  <1>b. UNCHANGED inode \/ (out.mode \in Modes /\ inode' = [inode EXCEPT
            ![made].mode = out.mode, ![made].modeMay = @ \cup {out.mode}])
    BY DEF OutputTypes, Output
  <1>c. CASE UNCHANGED inode
    <2>1. OutputTypes'  BY <1>c DEF OutputTypes, Goto, Fail, Steps
    <2>2. Path'  BY <1>a, <1>c, PathStays
    <2>3. Temporary'  BY <1>a DEF Temporary, Present, Goto, Fail, Owning
    <2>4. Progress'  BY <1>a, <1>c DEF Progress, OutputTypes, Settled, Kept, File, FileState, Owning, Goto, Fail, Inodes
    <2>. QED  BY <2>1, <2>2, <2>3, <2>4
  <1>d. CASE out.mode \in Modes /\ inode' = [inode EXCEPT
            ![made].mode = out.mode, ![made].modeMay = @ \cup {out.mode}]
    <2> DEFINE file == [inode[made] EXCEPT !.mode = out.mode,
                                           !.modeMay = @ \cup {out.mode}]
    <2>a. inode[made] \in FileState  BY <1>a DEF OutputTypes
    <2>b. file \in FileState /\ file.mode = out.mode
              /\ file.parts = inode[made].parts
      BY <1>d, <2>a DEF FileState
    <2>c. inode' = [inode EXCEPT ![made] = file]
      BY <1>a, <1>d, <2>a DEF OutputTypes, FileState
    <2> HIDE DEF file
    <2>1. OutputTypes'  BY <1>a, <2>b, <2>c, OneFile DEF OutputTypes, Goto, Fail, Steps
    <2>2. Path'  BY <1>a, <2>b, <2>c, OneFile, PathStays
    <2>3. Temporary'  BY <1>a DEF Temporary, Present, Goto, Fail, Owning
    <2>d. /\ inode'[made].mode = out.mode /\ inode'[made].parts = Parts
          /\ Kept' = Kept
      BY <1>a, <2>b, <2>c, OneFile DEF Progress, Kept, Inodes
    <2>4. Progress'  BY <1>a, <1>d, <2>d DEF Progress, Goto, Fail, Owning, Kept
    <2>. QED  BY <2>1, <2>2, <2>3, <2>4
  <1>. QED  BY <1>b, <1>c, <1>d

LEMMA SyncFileStep == IInv /\ SyncFile => IInv'
  <1> SUFFICES ASSUME IInv, SyncFile PROVE IInv'  OBVIOUS
  <1> USE OutputAssumption DEF IInv, SyncFile
  <1>a. pc \in Owning /\ pc = "sync" /\ made > 1 /\ made \in Inodes
    BY DEF Owning, Temporary, OutputTypes
  <1>b. CASE UNCHANGED inode /\ Fail("close")
    <2>1. OutputTypes'  BY <1>b DEF OutputTypes, Fail, Steps
    <2>2. Path'  BY <1>a, <1>b, PathStays
    <2>3. Temporary'  BY <1>a, <1>b DEF Temporary, Present, Fail, Owning
    <2>4. Progress'  BY <1>a, <1>b DEF Progress, OutputTypes, Settled, Kept, File, FileState, Owning, Goto, Fail, Inodes
    <2>. QED  BY <2>1, <2>2, <2>3, <2>4
  <1>c. CASE /\ Goto("close")
             /\ inode' = [inode EXCEPT ![made] = File(@.parts, @.mode)]
    <2>a. inode[made] \in FileState /\ inode[made].mode = Kept
              /\ inode[made].parts = Parts
      BY <1>a DEF OutputTypes, Progress
    <2>b. Settled \in FileState
      BY <2>a, FileIsState DEF Settled, FileState
    <2>c. inode' = [inode EXCEPT ![made] = Settled]
      BY <1>c, <2>a DEF Settled
    <2>1. OutputTypes'  BY <1>a, <1>c, <2>b, <2>c, OneFile DEF OutputTypes, Goto, Steps
    <2>2. Path'  BY <1>a, <2>b, <2>c, OneFile, PathStays
    <2>3. Temporary'  BY <1>a, <1>c DEF Temporary, Present, Goto, Owning
    <2>d. inode'[made] = Settled /\ inode'[1] = inode[1]
      BY <1>a, <2>b, <2>c, OneFile DEF Inodes
    <2>e. Settled' = Settled  BY <2>d DEF Settled, Kept
    <2>f. inode'[made].parts = Parts  BY <2>d DEF Settled, File
    <2>4. Progress'
      BY <1>a, <1>c, <2>d, <2>e, <2>f DEF Progress, Goto, Owning
    <2>. QED  BY <2>1, <2>2, <2>3, <2>4
  <1>. QED  BY <1>b, <1>c

LEMMA CloseStep == IInv /\ Close => IInv'
  <1> SUFFICES ASSUME IInv, Close PROVE IInv'  OBVIOUS
  <1> USE OutputAssumption DEF IInv, Close
  <1>a. pc \in Owning /\ pc = "close" /\ made > 1 /\ made \in Inodes
    BY DEF Owning, Temporary, OutputTypes
  <1>b. PICK parts \in 0..Parts : /\ Reach(parts)
                                  /\ parts >= inode[made].parts
                                  /\ ~failed => parts = Parts
    BY <1>a DEF OutputTypes, FileState, Drain, Progress, Settled, File
  <1>c. out.temp = out'.temp /\ out' \in Output
    BY DEF OutputTypes, Output
  <1>1. OutputTypes'  BY <1>b, <1>c, ReachGrows DEF OutputTypes, Goto, Fail, Steps
  <1>2. Path'  BY <1>a, <1>b, ReachGrows, PathStays
  <1>3. Temporary'
    BY <1>a, <1>c DEF Temporary, Present, Goto, Fail, Owning
  <1>d. ~failed => inode' = inode
    <2> SUFFICES ASSUME ~failed PROVE inode' = inode  OBVIOUS
    <2>1. inode[made] = File(Parts, Kept)  BY <1>a DEF Progress, Settled
    <2>2. /\ inode[made].parts = Parts /\ inode[made].mode = Kept
          /\ inode[made].partsMay = {Parts} /\ inode[made].modeMay = {Kept}
      BY <2>1 DEF File
    <2>3. inode'[made] \in FileState  BY <1>a, <1>b, ReachGrows
    <2>4. /\ inode'[made].parts = Parts /\ inode'[made].mode = Kept
          /\ inode'[made].partsMay = {Parts} /\ inode'[made].modeMay = {Kept}
      BY <1>b, <2>2, ReachGrows
    <2>5. Parts \in 0..Parts /\ Kept \in Modes
      BY <1>a DEF OutputTypes, FileState, Kept, Inodes
    <2>6. inode'[made] = inode[made]  BY <2>1, <2>3, <2>4, <2>5, SameFile
    <2>7. inode' \in [Inodes -> FileState] /\ \A i \in Inodes \ {made} : inode'[i] = inode[i]
      BY <1>b, ReachGrows
    <2>. QED  BY <2>6, <2>7 DEF OutputTypes
  <1>4. Progress'
    BY <1>a, <1>b, <1>d, ReachGrows DEF Progress, Goto, Fail, Owning, Settled, Kept, OutputTypes, FileState
  <1>. QED  BY <1>1, <1>2, <1>3, <1>4

LEMMA RenameStep == IInv /\ Rename => IInv'
  <1> SUFFICES ASSUME IInv, Rename PROVE IInv'  OBVIOUS
  <1> USE OutputAssumption DEF IInv, Rename, disk, Goto
  <1>a. /\ pc = "rename" /\ pc \in Owning /\ made \in Inodes /\ made \in Entries
        /\ inode[made] = Settled
    BY DEF OutputTypes, Owning, Progress, Entries
  <1>b. out.temp \in Names \ {Dest} /\ dir[out.temp] = made /\ out.temp \notin left
    BY <1>a DEF Temporary
  <1>c. /\ dir'[Dest] = made /\ dir'[out.temp] = Absent
        /\ \A n \in Names \ {Dest, out.temp} : dir'[n] = dir[n]
        /\ dirMay'[Dest] = dirMay[Dest] \cup {made}
        /\ dir' \in [Names -> Entries] /\ dirMay' \in [Names -> SUBSET Entries]
    BY <1>a, <1>b DEF OutputTypes, Entries
  <1>d. out' \in Output /\ out'.temp = NoName
    BY TempChanges DEF OutputTypes
  <1>1. OutputTypes'  BY <1>c, <1>d DEF OutputTypes, Steps
  <1>e. Kept' = Kept /\ Settled' = Settled
    BY DEF Kept, Settled
  <1>2. Path'
    <2>1. ASSUME NEW entry \in dirMay'[Dest] PROVE AtPath(entry)'
      <3>1. CASE entry = made
        BY <3>1, <1>a, <1>e DEF AtPath, Path, Owning, OutputTypes, Inodes
      <3>2. CASE entry \in dirMay[Dest]
        BY <3>2, <1>a, <1>e DEF AtPath, Path, Owning
      <3>. QED  BY <1>c, <3>1, <3>2
    <2>. QED  BY <1>c, <1>e, <2>1 DEF Path
  <1>3. Temporary'
    <2>1. Present' = Present \ {out.temp}
      BY <1>b, <1>c DEF Present, OutputTypes
    <2>. QED  BY <1>a, <1>b, <1>d, <2>1 DEF Temporary, Owning
  <1>4. Progress'  BY <1>a, <1>c, <1>e DEF Progress, Owning
  <1>. QED  BY <1>1, <1>2, <1>3, <1>4

LEMMA RenameFailsStep == IInv /\ RenameFails => IInv'
  <1> SUFFICES ASSUME IInv, RenameFails PROVE IInv'  OBVIOUS
  <1> USE OutputAssumption DEF IInv, RenameFails, Fail, disk
  <1>1. OutputTypes'  BY DEF OutputTypes, Steps, Output
  <1>2. Path'  BY DEF Path, AtPath, Settled, Kept, Owning
  <1>3. Temporary'  BY DEF Temporary, Present, Owning
  <1>4. Progress'
    BY DEF Progress, Owning, Kept
  <1>. QED  BY <1>1, <1>2, <1>3, <1>4

LEMMA SyncDirectoryStep == IInv /\ SyncDirectory => IInv'
  <1> SUFFICES ASSUME IInv, SyncDirectory PROVE IInv'  OBVIOUS
  <1> USE OutputAssumption DEF IInv, SyncDirectory, disk, Goto, Fail
  <1>a. \/ UNCHANGED dirMay /\ failed' = TRUE
        \/ dirMay' = [n \in Names |-> {dir[n]}]
    OBVIOUS
  <1>1. OutputTypes'
    <2>1. dirMay' \in [Names -> SUBSET Entries]  BY <1>a DEF OutputTypes
    <2>. QED  BY <2>1 DEF OutputTypes, Steps
  <1>2. Path'
    <2>1. dirMay'[Dest] \subseteq dirMay[Dest] /\ dir[Dest] \in dirMay'[Dest]
      BY <1>a DEF Path
    <2>. QED  BY <2>1 DEF Path, AtPath, Settled, Kept, Owning
  <1>3. Temporary'  BY DEF Temporary, Present, Owning
  <1>4. Progress'  BY <1>a DEF Progress, Owning
  <1>. QED  BY <1>1, <1>2, <1>3, <1>4

LEMMA UnlinkStep == IInv /\ Unlink => IInv'
  <1> SUFFICES ASSUME IInv, Unlink PROVE IInv'  OBVIOUS
  <1> USE OutputAssumption DEF IInv, Unlink, disk, Goto
  <1>a. pc = "unlink" /\ pc \in Owning /\ failed /\ Absent \in Entries
    BY DEF Owning, Progress, Entries
  <1>b. out.temp \in Names \ {Dest} /\ out.temp \notin left
    BY <1>a DEF Temporary
  <1>c. out' \in Output /\ out'.temp = NoName
    BY TempChanges DEF OutputTypes
  <1>d. /\ dir' \in [Names -> Entries] /\ dirMay' \in [Names -> SUBSET Entries]
        /\ dir'[Dest] = dir[Dest] /\ dirMay'[Dest] = dirMay[Dest]
    BY <1>a, <1>b, LinkChanges DEF OutputTypes
  <1>1. OutputTypes'
    <2>1. left' \in SUBSET (Names \ {Dest})  BY <1>b DEF OutputTypes
    <2>. QED  BY <1>c, <1>d, <2>1 DEF OutputTypes, Steps
  <1>2. Path'
    BY <1>a, <1>d DEF Path, AtPath, Settled, Kept, Owning
  <1>3. Temporary'
    <2>1. Present' = left'
      <3>1. CASE Link(out.temp, Absent) /\ UNCHANGED left
        BY <1>a, <1>b, <3>1, LinkChanges DEF Present, Temporary
      <3>2. CASE left' = left \cup {out.temp} /\ UNCHANGED dir
        BY <1>a, <1>b, <3>2 DEF Present, Temporary
      <3>. QED  BY <3>1, <3>2
    <2>. QED  BY <1>c, <2>1 DEF Temporary, Owning
  <1>4. Progress'  BY <1>a DEF Progress, Owning
  <1>. QED  BY <1>1, <1>2, <1>3, <1>4

LEMMA CloseDirectoryStep == IInv /\ CloseDirectory => IInv'
  <1> SUFFICES ASSUME IInv, CloseDirectory PROVE IInv'  OBVIOUS
  <1> USE OutputAssumption DEF IInv, CloseDirectory, disk, Goto
  <1>a. acked' \in {acked, made} /\ acked' \in Nat /\ made \in Nat
    BY DEF OutputTypes, Inodes
  <1>b. acked' # acked => dirMay[Dest] = {made}
    BY DEF Progress
  <1>1. OutputTypes'  BY <1>a, NoOutputIsOutput DEF OutputTypes, Steps
  <1>2. Path'
    <2>1. ASSUME NEW entry \in dirMay[Dest] PROVE AtPath(entry)'
      <3>1. acked' # 0 => entry >= acked'
        BY <1>a, <1>b DEF Path, AtPath
      <3>. QED  BY <3>1 DEF Path, AtPath, Settled, Kept, Owning
    <2>2. acked' <= made  BY <1>a DEF Path
    <2>. QED  BY <2>1, <2>2 DEF Path, Settled, Kept
  <1>3. Temporary'  BY DEF Temporary, Present, Owning, NoOutput
  <1>4. Progress'  BY DEF Progress, Owning
  <1>. QED  BY <1>1, <1>2, <1>3, <1>4

LEMMA CrashStep == IInv /\ Crash => IInv'
  <1> SUFFICES ASSUME IInv, Crash PROVE IInv'  OBVIOUS
  <1> USE OutputAssumption DEF IInv, Crash
  <1>a. PICK parts \in 0..Parts, mode \in Modes :
          /\ parts \in inode[made].partsMay /\ mode \in inode[made].modeMay
          /\ inode' = [inode EXCEPT ![made] = File(parts, mode)]
    OBVIOUS
  <1>b. made \in Inodes /\ 1 \in Inodes  BY DEF OutputTypes, Inodes
  <1>c. /\ inode' \in [Inodes -> FileState]
        /\ inode'[made] = File(parts, mode)
        /\ \A i \in Inodes \ {made} : inode'[i] = inode[i]
    BY <1>a, <1>b, FileIsState, OneFile
  <1>d. ASSUME NEW i \in Inodes, inode[i] = Settled PROVE inode'[i] = Settled
    <2>1. CASE i = made
      <3>1. inode[made].partsMay = {Parts} /\ inode[made].modeMay = {Kept}
        BY <1>d, <2>1 DEF Settled, File
      <3>. QED  BY <1>a, <1>c, <2>1, <3>1 DEF Settled
    <2>. QED  BY <1>c, <1>d, <2>1
  <1>e. inode'[1] = inode[1]  BY <1>b, <1>d DEF Path
  <1>f. Kept' = Kept  BY <1>e DEF Kept
  <1>g. Settled' = Settled  BY <1>f DEF Settled
  <1>h. /\ dir' \in [Names -> Entries] /\ dir'[Dest] \in dirMay[Dest]
        /\ dirMay'[Dest] = {dir'[Dest]} /\ dirMay' \in [Names -> SUBSET Entries]
    OBVIOUS
  <1>1. OutputTypes'
    <2>1. left' \in SUBSET (Names \ {Dest})  BY DEF Present
    <2>. QED  BY <1>c, <1>h, <2>1, NoOutputIsOutput, NothingYet DEF OutputTypes, Steps
  <1>2. Path'
    <2>1. ASSUME NEW entry \in dirMay[Dest] PROVE AtPath(entry)'
      BY <1>d, <1>f, <1>g DEF Path, AtPath, Owning
    <2>. QED  BY <1>e, <1>g, <1>h, <2>1 DEF Path
  <1>3. Temporary'
    <2>1. out'.temp = NoName  BY DEF NoOutput
    <2>. QED  BY <2>1 DEF Temporary, Owning
  <1>4. Progress'  BY DEF Progress, Owning
  <1>. QED  BY <1>1, <1>2, <1>3, <1>4

LEMMA StutterStep == IInv /\ UNCHANGED vars => IInv'
  BY DEF IInv, vars, disk, OutputTypes, Path, AtPath, Settled, Kept, Temporary, Present,
         Progress

(* What a save, a failure or a crash does to the file system keeps the     *)
(* invariant.                                                              *)
LEMMA NextIInv == IInv /\ [Next]_vars => IInv'
  BY OpenDirectoryStep, StatStep, StatFailsStep, CreateStep, CreateFailsStep,
     AttachStep, WriteStep, DiscardStep, FlushStep, SetModeStep, SyncFileStep,
     CloseStep, RenameStep, RenameFailsStep, SyncDirectoryStep, UnlinkStep,
     CloseDirectoryStep, CrashStep, StutterStep DEF Next

-------------------------------------------------------------------------------
(* The invariant holds through any sequence of saves, failures and crashes *)
(* of st_atomic_output_begin and st_atomic_output_commit.                  *)
THEOREM OutputInvariance == Spec => []IInv
  <1>. QED  BY InitIInv, NextIInv, PTL DEF Spec

(* A policy or model whose save reported success is never lost to a crash  *)
(* (the fsync of the file, the rename, and the fsync of the directory).    *)
THEOREM SavedIsKept == Spec => []AckedSurvives
  <1>1. IInv => AckedSurvives  BY DEF IInv, Path, AtPath, AckedSurvives
  <1>. QED  BY <1>1, OutputInvariance, PTL

(* The mode of a replaced file is kept, and the temporary file is private  *)
(* until it is complete.                                                   *)
THEOREM ModeIsKept == Spec => []ModeKept
  <1>1. ASSUME IInv PROVE ModeKept
    <2>1. \A i \in dirMay[Dest] \cap Inodes : inode[i] = inode[1]
      BY <1>1 DEF IInv, Path, AtPath
    <2>2. out.temp # NoName => pc \in Owning  BY <1>1 DEF IInv, Temporary
    <2>. QED  BY <1>1, <2>1, <2>2 DEF IInv, Progress, ModeKept
  <1>. QED  BY <1>1, OutputInvariance, PTL

(* A save unlinks its own temporary file and no other.                     *)
THEOREM TemporaryIsOwned == Spec => []OwnsItsFile
  <1>1. IInv => OwnsItsFile  BY DEF IInv, Temporary, OwnsItsFile, Owning
  <1>. QED  BY <1>1, OutputInvariance, PTL

-------------------------------------------------------------------------------
(* The path as a ReplacedFile: since nothing torn is ever there, the       *)
(* version shown is the entry itself, and a crash leaves one of dirMay.    *)
Shown  == Shows(dir[Dest], IF dir[Dest] \in Inodes
                           THEN inode[dir[Dest]].parts ELSE Parts)
Stable == UNION {{Shows(entry, parts) :
                    parts \in IF entry \in Inodes
                              THEN inode[entry].partsMay ELSE {Parts}} :
                   entry \in dirMay[Dest]}

LEMMA NothingTorn == IInv => Shown = dir[Dest] /\ Stable = dirMay[Dest]
  <1> SUFFICES ASSUME IInv PROVE Shown = dir[Dest] /\ Stable = dirMay[Dest]
    OBVIOUS
  <1>1. ASSUME NEW entry \in dirMay[Dest], entry \in Inodes
        PROVE  inode[entry].parts = Parts /\ inode[entry].partsMay = {Parts}
    BY <1>1 DEF IInv, Path, AtPath, Settled, File
  <1>2. Shown = dir[Dest]  BY <1>1 DEF IInv, Path, Shown, Shows
  <1>3. ASSUME NEW entry \in dirMay[Dest]
        PROVE  {Shows(entry, parts) :
                  parts \in IF entry \in Inodes THEN inode[entry].partsMay
                                                ELSE {Parts}} = {entry}
    <2>1. (IF entry \in Inodes THEN inode[entry].partsMay ELSE {Parts}) = {Parts}
      BY <1>1
    <2>. QED  BY <2>1 DEF Shows
  <1>4. Stable = UNION {{entry} : entry \in dirMay[Dest]}
    BY <1>3 DEF Stable
  <1>. QED  BY <1>2, <1>4

(* The destination's entry, as it is and as a crash may leave it. *)
LEMMA PathSteps ==
  ASSUME IInv, [Next]_vars
  PROVE  \/ UNCHANGED <<dir[Dest], dirMay[Dest], acked>>
         \/ /\ made \in Entries /\ made > dir[Dest] /\ made > acked
            /\ dir'[Dest] = made /\ dirMay'[Dest] = dirMay[Dest] \cup {made}
            /\ UNCHANGED acked
         \/ dirMay'[Dest] = {dir[Dest]} /\ UNCHANGED <<dir[Dest], acked>>
         \/ /\ dirMay[Dest] = {dir[Dest]} /\ acked' = dir[Dest]
            /\ UNCHANGED <<dir[Dest], dirMay[Dest]>>
         \/ /\ dir'[Dest] \in dirMay[Dest] /\ dirMay'[Dest] = {dir'[Dest]}
            /\ UNCHANGED acked
  <1> USE OutputAssumption DEF IInv, disk
  <1>1. CASE UNCHANGED <<dir, dirMay, acked>>
    BY <1>1
  <1>2. ASSUME NEW n \in Names, Create(n)
        PROVE  UNCHANGED <<dir[Dest], dirMay[Dest], acked>>
    <2>1. made' \in Entries
      BY <1>2 DEF Create, CreateAt, Temporary, OutputTypes, Inodes, Entries
    <2>. QED  BY <1>2, <2>1, LinkChanges DEF Create, CreateAt
  <1>3. CASE Unlink
    <2>1. out.temp \in Names \ {Dest} /\ Absent \in Entries
      BY <1>3 DEF Unlink, Temporary, Owning, Entries
    <2>. QED  BY <1>3, <2>1, LinkChanges DEF Unlink
  <1>4. CASE Rename
    <2>1. pc \in Owning /\ made \in Entries /\ made > 1 /\ out.temp \in Names \ {Dest}
      BY <1>4 DEF Rename, Temporary, Owning, OutputTypes, Entries
    <2>2. made > dir[Dest] /\ (acked # 0 => dir[Dest] >= acked)
      BY <2>1 DEF Path, AtPath
    <2>3. made > acked
      BY <2>1, <2>2 DEF OutputTypes, Entries, Inodes, Absent, Symlink, Special, Foreign
    <2>4. dir'[Dest] = made /\ dirMay'[Dest] = dirMay[Dest] \cup {made}
      BY <1>4, <2>1 DEF Rename, OutputTypes
    <2>. QED  BY <1>4, <2>1, <2>2, <2>3, <2>4 DEF Rename
  <1>5. CASE SyncDirectory
    BY <1>5 DEF SyncDirectory
  <1>6. CASE CloseDirectory
    <2>1. acked' # acked => dirMay[Dest] = {made} /\ acked' = made
      BY <1>6 DEF CloseDirectory, Progress
    <2>. QED  BY <1>6, <2>1 DEF CloseDirectory, Path
  <1>7. CASE Crash
    BY <1>7 DEF Crash
  <1>8. [Next]_vars => \/ UNCHANGED <<dir, dirMay, acked>>
                      \/ \E n \in Names : Create(n)
                      \/ Unlink \/ Rename \/ SyncDirectory \/ CloseDirectory
                      \/ Crash
    BY DEF Next, vars, OpenDirectory, Stat, StatFails, CreateFails, Attach, Write,
           Discard, Flush, SetMode, SyncFile, Close, RenameFails, Reach, Drain
  <1>. QED  BY <1>1, <1>2, <1>3, <1>4, <1>5, <1>6, <1>7, <1>8

LEMMA InitReplaces == Init => Promise!Init
  <1> SUFFICES ASSUME Init PROVE Promise!Init  OBVIOUS
  <1>1. Shown = dir[Dest] /\ Stable = dirMay[Dest]
    BY InitIInv, NothingTorn
  <1>2. dir[Dest] \in Entries /\ dirMay[Dest] = {dir[Dest]} /\ acked = 0
    BY InitIInv, OutputAssumption DEF Init, IInv, OutputTypes
  <1>. QED  BY <1>1, <1>2 DEF Promise!Init, Shown, Stable

LEMMA StepReplaces ==
  ASSUME IInv, IInv', [Next]_vars
  PROVE  [Promise!Next]_<<Shown, Stable, acked>>
  <1>1. Shown = dir[Dest] /\ Stable = dirMay[Dest]  BY NothingTorn
  <1>2. Shown' = dir'[Dest] /\ Stable' = dirMay'[Dest]
    <2>1. IInv' => (Shown = dir[Dest] /\ Stable = dirMay[Dest])'
      BY NothingTorn, PTL
    <2>. QED  BY <2>1
  <1>3. CASE UNCHANGED <<dir[Dest], dirMay[Dest], acked>>
    BY <1>1, <1>2, <1>3
  <1>4. CASE /\ made \in Entries /\ made > dir[Dest] /\ made > acked
             /\ dir'[Dest] = made /\ dirMay'[Dest] = dirMay[Dest] \cup {made}
             /\ UNCHANGED acked
    <2>1. /\ made \in Entries /\ made > Shown /\ made > acked
          /\ Shown' = made /\ Stable' = Stable \cup {made} /\ acked' = acked
      BY <1>1, <1>2, <1>4
    <2>2. \E v \in Entries :
            /\ v > Shown /\ v > acked
            /\ Shown' = v /\ Stable' = Stable \cup {v} /\ acked' = acked
      BY <2>1
    <2>. QED
      BY <2>2 DEF Promise!Next, Promise!Install, Shown, Stable
  <1>5. CASE dirMay'[Dest] = {dir[Dest]} /\ UNCHANGED <<dir[Dest], acked>>
    <2>1. Promise!Settle
      BY <1>1, <1>2, <1>5 DEF Promise!Settle, Shown, Stable
    <2>. QED  BY <2>1 DEF Promise!Next
  <1>6. CASE /\ dirMay[Dest] = {dir[Dest]} /\ acked' = dir[Dest]
             /\ UNCHANGED <<dir[Dest], dirMay[Dest]>>
    <2>1. Promise!Acknowledge
      BY <1>1, <1>2, <1>6 DEF Promise!Acknowledge, Shown, Stable
    <2>. QED  BY <2>1 DEF Promise!Next
  <1>7. CASE /\ dir'[Dest] \in dirMay[Dest] /\ dirMay'[Dest] = {dir'[Dest]}
             /\ UNCHANGED acked
    <2>1. Promise!Crash
      BY <1>1, <1>2, <1>7 DEF Promise!Crash, Shown, Stable
    <2>. QED  BY <2>1 DEF Promise!Next
  <1>. QED  BY <1>3, <1>4, <1>5, <1>6, <1>7, PathSteps

(* Through every failure and crash the path holds a complete version, no   *)
(* older than the last one reported as saved (st_policy_save,              *)
(* sg_anomaly_model_save).                                                 *)
THEOREM SavesReplace == Spec => ImplementsReplacement
  <1>1. Init => Promise!Init  BY InitReplaces
  <1>2. IInv /\ IInv' /\ [Next]_vars => [Promise!Next]_<<Shown, Stable, acked>>
    BY StepReplaces
  <1>. QED  BY <1>1, <1>2, OutputInvariance, PTL
             DEF Spec, ImplementsReplacement, Promise!Spec, Shown, Stable
===============================================================================
