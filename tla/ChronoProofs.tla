----------------------------- MODULE ChronoProofs ----------------------------
(***************************************************************************)
(* Theorems about the clock conversion, for doubles of any number of bits, *)
(* any unit of time and all clocks.                                        *)
(***************************************************************************)
EXTENDS Chrono, Integers, WellFoundedInduction, TLAPS

(* A set of numbers has a least one.                                       *)
LEMMA LeastElement ==
  ASSUME NEW S, S \subseteq Nat, S # {}
  PROVE  \E m \in S : \A n \in S : m <= n
<1> DEFINE R == OpToRel(<, Nat)
<1>1. IsWellFoundedOn(R, Nat)
  BY NatLessThanWellFounded
<1>2. PICK m \in S : \A n \in S : <<n, m>> \notin R
  BY <1>1, WFMin
<1>3. \A n \in S : ~(n < m)
  BY <1>2 DEF OpToRel
<1> QED
  BY <1>3

-----------------------------------------------------------------------------
(* The powers of two.  That there is a function with the recursive         *)
(* equation of Power is shown by its beginnings, which are finite.         *)

Beginning(n) ==
  {f \in [0 .. n -> Nat] :
     \A k \in 0 .. n : f[k] = IF k = 0 THEN 1 ELSE 2 * f[k - 1]}

LEMMA BeginningExists ==
  ASSUME NEW n \in Nat
  PROVE  Beginning(n) # {}
<1> DEFINE Bad == {k \in Nat : Beginning(k) = {}}
<1>1. SUFFICES ASSUME Bad # {} PROVE FALSE
  OBVIOUS
<1>2. PICK m \in Bad : \A k \in Bad : m <= k
  <2>1. Bad \subseteq Nat
    OBVIOUS
  <2> HIDE DEF Bad
  <2> QED
    BY <1>1, <2>1, LeastElement
<1>3. CASE m = 0
  <2>1. [k \in 0 .. 0 |-> 1] \in Beginning(0)
    BY DEF Beginning
  <2> QED
    BY <1>2, <1>3, <2>1
<1>4. CASE m # 0
  <2>1. m - 1 \in Nat /\ m - 1 \notin Bad
    BY <1>2, <1>4
  <2>2. PICK f : f \in Beginning(m - 1)
    BY <2>1
  <2> DEFINE g == [k \in 0 .. m |-> IF k = m THEN 2 * f[m - 1] ELSE f[k]]
  <2>3. /\ f \in [0 .. m - 1 -> Nat]
        /\ \A k \in 0 .. m - 1 : f[k] = IF k = 0 THEN 1 ELSE 2 * f[k - 1]
    BY <2>2 DEF Beginning
  <2>4. g \in [0 .. m -> Nat]
    BY <2>1, <2>3
  <2>5. \A k \in 0 .. m : g[k] = IF k = 0 THEN 1 ELSE 2 * g[k - 1]
    BY <1>4, <2>1, <2>3
  <2>6. g \in Beginning(m)
    BY <2>4, <2>5 DEF Beginning
  <2> QED
    BY <1>2, <2>6
<1> QED
  BY <1>3, <1>4

LEMMA BeginningsAgree ==
  ASSUME NEW n \in Nat, NEW m \in Nat, NEW f \in Beginning(n),
         NEW g \in Beginning(m), NEW k \in 0 .. n, k <= m
  PROVE  f[k] = g[k]
<1> DEFINE Bad == {j \in 0 .. k : f[j] # g[j]}
<1>1. SUFFICES ASSUME Bad # {} PROVE FALSE
  OBVIOUS
<1>2. PICK j \in Bad : \A i \in Bad : j <= i
  <2>1. Bad \subseteq Nat
    OBVIOUS
  <2> HIDE DEF Bad
  <2> QED
    BY <1>1, <2>1, LeastElement
<1>3. /\ f[j] = IF j = 0 THEN 1 ELSE 2 * f[j - 1]
      /\ g[j] = IF j = 0 THEN 1 ELSE 2 * g[j - 1]
  BY <1>2 DEF Beginning
<1>4. j # 0 => j - 1 \in 0 .. k /\ j - 1 \notin Bad
  BY <1>2
<1> QED
  BY <1>2, <1>3, <1>4

LEMMA PowerEquation ==
  Power = [x \in Nat |-> IF x = 0 THEN 1 ELSE 2 * Power[x - 1]]
<1> DEFINE F == [x \in Nat |-> (CHOOSE f : f \in Beginning(x))[x]]
<1>1. ASSUME NEW x \in Nat
      PROVE  F[x] = IF x = 0 THEN 1 ELSE 2 * F[x - 1]
  <2> DEFINE f == CHOOSE f : f \in Beginning(x)
             g == CHOOSE g : g \in Beginning(x - 1)
  <2>1. f \in Beginning(x)
    BY BeginningExists
  <2>2. f[x] = IF x = 0 THEN 1 ELSE 2 * f[x - 1]
    <3> HIDE DEF f
    <3> QED
      BY <2>1 DEF Beginning
  <2>3. CASE x = 0
    BY <2>2, <2>3
  <2>4. CASE x # 0
    <3>1. x - 1 \in Nat
      BY <2>4
    <3>2. g \in Beginning(x - 1)
      BY <3>1, BeginningExists
    <3>3. f[x - 1] = g[x - 1]
      <4> HIDE DEF f, g
      <4> QED
        BY <2>1, <3>1, <3>2, BeginningsAgree
    <3>4. F[x] = f[x] /\ F[x - 1] = g[x - 1]
      BY <3>1
    <3> QED
      BY <2>2, <2>4, <3>3, <3>4
  <2> QED
    BY <2>3, <2>4
<1>2. F = [x \in Nat |-> IF x = 0 THEN 1 ELSE 2 * F[x - 1]]
  <2>1. F = [x \in Nat |-> F[x]]
    OBVIOUS
  <2> HIDE DEF F
  <2> QED
    BY <1>1, <2>1
<1> HIDE DEF F
<1> QED
  BY <1>2 DEF Power

LEMMA PowerFact ==
  /\ Power[0] = 1
  /\ \A x \in Nat : Power[x + 1] = 2 * Power[x]
<1>1. Power[0] = 1
  BY PowerEquation
<1>2. \A x \in Nat : Power[x + 1] = 2 * Power[x]
  <2>1. \A x \in Nat : Power[x] = IF x = 0 THEN 1 ELSE 2 * Power[x - 1]
    BY PowerEquation
  <2> QED
    BY <2>1
<1> QED
  BY <1>1, <1>2

LEMMA PowerType == \A x \in Nat : Power[x] \in Nat \ {0}
<1> DEFINE Bad == {x \in Nat : Power[x] \notin Nat \ {0}}
<1>1. SUFFICES ASSUME Bad # {} PROVE FALSE
  OBVIOUS
<1>2. PICK m \in Bad : \A k \in Bad : m <= k
  <2>1. Bad \subseteq Nat
    OBVIOUS
  <2> HIDE DEF Bad
  <2> QED
    BY <1>1, <2>1, LeastElement
<1>3. m # 0
  BY <1>2, PowerFact
<1>4. m - 1 \in Nat /\ m - 1 \notin Bad /\ m = (m - 1) + 1
  BY <1>2, <1>3
<1>5. Power[m] = 2 * Power[m - 1] /\ Power[m - 1] \in Nat \ {0}
  BY <1>4, PowerFact
<1> QED
  BY <1>2, <1>5

(* The powers add their exponents.                                         *)
LEMMA PowerSum == \A x, y \in Nat : Power[x + y] = Power[x] * Power[y]
<1> SUFFICES ASSUME NEW x \in Nat
             PROVE  \A y \in Nat : Power[x + y] = Power[x] * Power[y]
  OBVIOUS
<1> DEFINE Bad == {y \in Nat : Power[x + y] # Power[x] * Power[y]}
<1>1. SUFFICES ASSUME Bad # {} PROVE FALSE
  OBVIOUS
<1>2. PICK m \in Bad : \A k \in Bad : m <= k
  <2>1. Bad \subseteq Nat
    OBVIOUS
  <2> HIDE DEF Bad
  <2> QED
    BY <1>1, <2>1, LeastElement
<1>3. m # 0
  BY <1>2, PowerFact, PowerType
<1>4. m - 1 \in Nat /\ m - 1 \notin Bad /\ m = (m - 1) + 1
      /\ x + m = (x + (m - 1)) + 1 /\ x + (m - 1) \in Nat
  BY <1>2, <1>3
<1>5. /\ Power[m] = 2 * Power[m - 1]
      /\ Power[x + m] = 2 * Power[x + (m - 1)]
      /\ Power[x + (m - 1)] = Power[x] * Power[m - 1]
  BY <1>4, PowerFact
<1>6. Power[x] \in Nat /\ Power[m - 1] \in Nat
  BY <1>4, PowerType
<1>7. Power[x + m] = Power[x] * Power[m]
  BY <1>5, <1>6
<1> QED
  BY <1>2, <1>7

LEMMA PowerMonotone ==
  ASSUME NEW x \in Nat, NEW y \in Nat, x <= y
  PROVE  Power[x] <= Power[y]
<1>1. y - x \in Nat /\ y = x + (y - x)
  OBVIOUS
<1>2. Power[y] = Power[x] * Power[y - x]
  BY <1>1, PowerSum
<1>3. Power[x] \in Nat /\ Power[y - x] \in Nat \ {0}
  BY <1>1, PowerType
<1>4. \A a \in Nat, b \in Nat \ {0} : a <= a * b
  OBVIOUS
<1> QED
  BY <1>2, <1>3, <1>4

-----------------------------------------------------------------------------
(* Products                                                                *)

LEMMA Times ==
  ASSUME NEW a \in Nat, NEW b \in Nat, NEW c \in Nat
  PROVE  /\ a * b \in Nat
         /\ a <= b => a * c <= b * c
         /\ a < b /\ c # 0 => a * c < b * c
         /\ a * c <= b * c /\ c # 0 => a <= b
         /\ a * c < b * c => a < b
         /\ a # 0 /\ b # 0 => a * b # 0
OBVIOUS

LEMMA Division ==
  ASSUME NEW n \in Nat, NEW d \in Nat \ {0}
  PROVE  /\ n \div d \in Nat /\ n % d \in Nat
         /\ n % d < d
         /\ n = d * (n \div d) + (n % d)
OBVIOUS

(* Fractions are compared by cross products.                               *)
LEMMA FloorMonotone ==
  ASSUME NEW a \in Nat, NEW b \in Nat \ {0}, NEW c \in Nat,
         NEW d \in Nat \ {0}, a * d <= c * b
  PROVE  a \div b <= c \div d
<1> DEFINE p == a \div b
           q == c \div d
<1>1. /\ p \in Nat /\ q \in Nat
      /\ b * p <= a /\ c < d * (q + 1)
  BY Division
<1> HIDE DEF p, q
<1>2. SUFFICES ASSUME q + 1 <= p PROVE FALSE
  BY <1>1 DEF p, q
<1>3. (q + 1) * b <= p * b
  BY <1>1, <1>2, Times
<1>4. ((q + 1) * b) * d <= a * d
  <2>1. (q + 1) * b <= a /\ (q + 1) * b \in Nat
    BY <1>1, <1>3
  <2> QED
    BY <2>1, Times
<1>5. c * b < (d * (q + 1)) * b
  BY <1>1, Times
<1>6. ((q + 1) * b) * d = (d * (q + 1)) * b
  BY <1>1
<1>7. /\ ((q + 1) * b) * d \in Nat /\ a * d \in Nat /\ c * b \in Nat
      /\ (d * (q + 1)) * b \in Nat
  BY <1>1
<1> QED
  BY <1>4, <1>5, <1>6, <1>7

LEMMA CeilMonotone ==
  ASSUME NEW a \in Nat, NEW b \in Nat \ {0}, NEW c \in Nat,
         NEW d \in Nat \ {0}, a * d <= c * b
  PROVE  (a + b - 1) \div b <= (c + d - 1) \div d
<1> DEFINE p == (a + b - 1) \div b
           q == (c + d - 1) \div d
<1>1. /\ p \in Nat /\ q \in Nat
      /\ b * p <= a + b - 1 /\ c + d - 1 < d * (q + 1)
  <2>1. a + b - 1 \in Nat /\ c + d - 1 \in Nat
    OBVIOUS
  <2> QED
    BY <2>1, Division
<1> HIDE DEF p, q
<1>2. SUFFICES ASSUME q + 1 <= p PROVE FALSE
  BY <1>1 DEF p, q
<1>3. q * b + 1 <= a
  <2>1. (q + 1) * b <= p * b
    BY <1>1, <1>2, Times
  <2> QED
    BY <1>1, <2>1
<1>4. c <= d * q
  BY <1>1
<1>5. c * b <= (d * q) * b
  BY <1>1, <1>4, Times
<1>6. (q * b + 1) * d <= a * d
  BY <1>1, <1>3, Times
<1>7. (q * b + 1) * d = (d * q) * b + d
  BY <1>1
<1>8. a * d \in Nat /\ c * b \in Nat /\ (d * q) * b \in Nat
  BY <1>1
<1> QED
  BY <1>5, <1>6, <1>7, <1>8

-----------------------------------------------------------------------------
(* Rounding to integers                                                    *)

(* The nearest integer is at most one half away, and even if it is.        *)
LEMMA NearestFact ==
  ASSUME NEW n \in Nat, NEW d \in Nat \ {0}
  PROVE  /\ Nearest(n, d) \in Nat
         /\ 2 * (d * Nearest(n, d)) <= 2 * n + d
         /\ 2 * n <= 2 * (d * Nearest(n, d)) + d
         /\ \/ 2 * (d * Nearest(n, d)) = 2 * n + d
            \/ 2 * n = 2 * (d * Nearest(n, d)) + d
            => Nearest(n, d) % 2 = 0
<1> DEFINE q == n \div d
           r == n % d
<1>1. /\ q \in Nat /\ r \in Nat /\ r < d /\ n = d * q + r
  BY Division
<1>2. Nearest(n, d) =
        IF 2 * r < d \/ (2 * r = d /\ q % 2 = 0) THEN q ELSE q + 1
  BY DEF Nearest
<1> HIDE DEF q, r
<1>3. d * (q + 1) = d * q + d /\ d * q \in Nat
  BY <1>1
<1>4. CASE 2 * r < d \/ (2 * r = d /\ q % 2 = 0)
  BY <1>1, <1>2, <1>3, <1>4
<1>5. CASE ~(2 * r < d \/ (2 * r = d /\ q % 2 = 0))
  <2>1. Nearest(n, d) = q + 1
    BY <1>2, <1>5
  <2>2. 2 * r > d \/ (2 * r = d /\ q % 2 # 0)
    BY <1>1, <1>5
  <2>3. q % 2 # 0 => (q + 1) % 2 = 0
    BY <1>1
  <2> QED
    BY <1>1, <1>3, <2>1, <2>2, <2>3
<1> QED
  BY <1>4, <1>5

LEMMA NearestMonotone ==
  ASSUME NEW n \in Nat, NEW d \in Nat \ {0}, NEW m \in Nat,
         NEW e \in Nat \ {0}, n * e <= m * d
  PROVE  Nearest(n, d) <= Nearest(m, e)
<1> DEFINE p == Nearest(n, d)
           q == Nearest(m, e)
<1>1. /\ p \in Nat /\ q \in Nat
      /\ 2 * (d * p) <= 2 * n + d
      /\ 2 * m <= 2 * (e * q) + e
      /\ 2 * (d * p) = 2 * n + d => p % 2 = 0
      /\ 2 * m = 2 * (e * q) + e => q % 2 = 0
  BY NearestFact
<1> HIDE DEF p, q
<1>2. SUFFICES ASSUME q + 1 <= p PROVE FALSE
  BY <1>1 DEF p, q
<1> DEFINE k == d * e
<1>3. /\ k \in Nat \ {0} /\ n * e \in Nat /\ m * d \in Nat
      /\ k * p \in Nat /\ k * q \in Nat
  BY <1>1, Times
<1>4. 2 * (k * p) <= 2 * (n * e) + k
  <2>1. (2 * (d * p)) * e <= (2 * n + d) * e
    BY <1>1, Times
  <2>2. (2 * (d * p)) * e = 2 * (k * p) /\ (2 * n + d) * e = 2 * (n * e) + k
    BY <1>1
  <2> QED
    BY <2>1, <2>2
<1>5. 2 * (m * d) <= 2 * (k * q) + k
  <2>1. (2 * m) * d <= (2 * (e * q) + e) * d
    BY <1>1, Times
  <2>2. /\ (2 * m) * d = 2 * (m * d)
        /\ (2 * (e * q) + e) * d = 2 * (k * q) + k
    BY <1>1
  <2> QED
    BY <2>1, <2>2
<1>6. k * q + k <= k * p
  <2>1. (q + 1) * k <= p * k
    BY <1>1, <1>2, <1>3, Times
  <2>2. (q + 1) * k = k * q + k /\ p * k = k * p
    BY <1>1, <1>3
  <2> QED
    BY <2>1, <2>2
<1> HIDE DEF k
<1>7. /\ k * p = k * q + k
      /\ 2 * (k * p) = 2 * (n * e) + k
      /\ 2 * (m * d) = 2 * (k * q) + k
  BY <1>3, <1>4, <1>5, <1>6
<1>8. p = q + 1
  <2>1. k * p = k * (q + 1)
    BY <1>1, <1>3, <1>7
  <2> QED
    BY <1>1, <1>3, <2>1
<1>9. 2 * (d * p) = 2 * n + d
  <2>1. (2 * (d * p)) * e = (2 * n + d) * e
    BY <1>1, <1>3, <1>7 DEF k
  <2> QED
    BY <1>1, <2>1
<1>10. 2 * m = 2 * (e * q) + e
  <2>1. (2 * m) * d = (2 * (e * q) + e) * d
    BY <1>1, <1>3, <1>7 DEF k
  <2> QED
    BY <1>1, <2>1
<1> QED
  BY <1>1, <1>8, <1>9, <1>10

LEMMA NearestWhole ==
  ASSUME NEW n \in Nat, NEW d \in Nat \ {0}
  PROVE  Nearest(d * n, d) = n
<1>1. (d * n) \div d = n /\ (d * n) % d = 0
  OBVIOUS
<1> QED
  BY <1>1 DEF Nearest

-----------------------------------------------------------------------------
(* Rounding to doubles                                                     *)

(* The exponents suffice for the double nearest to n/d.                    *)
Fits(n, d) ==
  n # 0 => /\ n < d * Power[Bits + MaxExponent]
           /\ d * Power[Bits - 1] <= n * Power[MaxExponent]

(* A double that is not 0: of n/d, scaled with a power of two such that it *)
(* is between two powers of two, the nearest integer, scaled back.         *)
Scaled(n, d, u, v) ==
  /\ u \in Nat /\ v \in Nat /\ (u = 0 \/ v = 0)
  /\ (d * Power[v]) * Power[Bits - 1] <= n * Power[u]
  /\ n * Power[u] < (d * Power[v]) * Power[Bits]
  /\ Double(n, d) =
       <<Nearest(n * Power[u], d * Power[v]) * Power[v], Power[u]>>

LEMMA BitsFact ==
  /\ Bits \in Nat /\ Bits - 1 \in Nat /\ MaxExponent \in Nat
  /\ Power[Bits] = 2 * Power[Bits - 1]
  /\ Power[Bits] \in Nat \ {0} /\ Power[Bits - 1] \in Nat \ {0}
<1>1. Bits \in Nat \ {0} /\ MaxExponent \in Nat
  BY ChronoAssumption
<1>2. Bits - 1 \in Nat /\ Bits = (Bits - 1) + 1
  BY <1>1
<1> QED
  BY <1>1, <1>2, PowerFact, PowerType

(* Where a property that does not hold at 0 holds at m, there is a first   *)
(* number at which it holds.                                               *)
LEMMA FirstExponent ==
  ASSUME NEW S, S \subseteq Nat, NEW m \in S
  PROVE  \E x \in 0 .. m : x \in S /\ (x # 0 => x - 1 \notin S)
<1>1. PICK x \in S : \A y \in S : x <= y
  BY LeastElement
<1>2. x \in 0 .. m
  BY <1>1
<1>3. x # 0 => x - 1 \notin S
  BY <1>1
<1> QED
  BY <1>1, <1>2, <1>3

LEMMA DoubleScaled ==
  ASSUME NEW n \in Nat \ {0}, NEW d \in Nat \ {0}, Fits(n, d)
  PROVE  \E u, v \in Nat : Scaled(n, d, u, v)
<1>1. /\ n < d * Power[Bits + MaxExponent]
      /\ d * Power[Bits - 1] <= n * Power[MaxExponent]
  BY DEF Fits
<1>2. CASE n >= d * Power[Bits]
  <2> DEFINE P(x) == /\ n < d * Power[Bits + x]
                     /\ n >= d * Power[Bits + x - 1]
             S == {x \in Nat : n < d * Power[Bits + x]}
             x == CHOOSE x \in 0 .. MaxExponent : P(x)
  <2>1. \E y \in 0 .. MaxExponent : P(y)
    <3>1. MaxExponent \in S /\ S \subseteq Nat
      BY <1>1, BitsFact
    <3>2. 0 \notin S
      <4>1. Bits + 0 = Bits /\ d * Power[Bits] \in Nat
        BY BitsFact, Times
      <4> QED
        BY <1>2, <4>1
    <3>3. PICK y \in 0 .. MaxExponent : y \in S /\ (y # 0 => y - 1 \notin S)
      <4> HIDE DEF S
      <4> QED
        BY <3>1, FirstExponent
    <3>4. y \in Nat /\ y - 1 \in Nat /\ Bits + (y - 1) = Bits + y - 1
      BY <3>2, <3>3, BitsFact
    <3>5. d * Power[Bits + y - 1] \in Nat
      BY <3>4, BitsFact, PowerType, Times
    <3>6. ~(n < d * Power[Bits + (y - 1)])
      BY <3>2, <3>3, <3>4
    <3> QED
      BY <3>3, <3>4, <3>5, <3>6
  <2>2. x \in 0 .. MaxExponent /\ P(x)
    <3> HIDE DEF P
    <3> QED
      BY <2>1
  <2>3. Double(n, d) = <<Nearest(n, d * Power[x]) * Power[x], 1>>
    BY <1>2 DEF Double
  <2> HIDE DEF x
  <2>4. /\ x \in Nat /\ n < d * Power[Bits + x]
        /\ n >= d * Power[Bits + x - 1]
    BY <2>2, BitsFact
  <2>5. /\ Power[Bits + x] = Power[Bits] * Power[x]
        /\ Power[Bits + x - 1] = Power[Bits - 1] * Power[x]
    <3>1. Bits + x - 1 = (Bits - 1) + x
      BY <2>4, BitsFact
    <3> QED
      BY <2>4, <3>1, BitsFact, PowerSum
  <2>6. Power[x] \in Nat \ {0} /\ Power[0] = 1
    BY <2>4, PowerType, PowerFact
  <2>7. Scaled(n, d, 0, x)
    <3>1. n * Power[0] = n
      BY <2>6
    <3>2. /\ d * Power[Bits + x] = (d * Power[x]) * Power[Bits]
          /\ d * Power[Bits + x - 1] = (d * Power[x]) * Power[Bits - 1]
      BY <2>5, <2>6, BitsFact
    <3>3. /\ (d * Power[x]) * Power[Bits - 1] <= n
          /\ n < (d * Power[x]) * Power[Bits]
      BY <2>4, <3>2
    <3> QED
      BY <2>3, <2>4, <2>6, <3>1, <3>3 DEF Scaled
  <2> QED
    BY <2>4, <2>7
<1>3. CASE ~(n >= d * Power[Bits])
  <2> DEFINE P(x) == /\ n * Power[x] < d * Power[Bits]
                     /\ n * Power[x] >= d * Power[Bits - 1]
             S == {x \in Nat : d * Power[Bits - 1] <= n * Power[x]}
             x == CHOOSE x \in 0 .. MaxExponent : P(x)
  <2>1. \E y \in 0 .. MaxExponent : P(y)
    <3>1. MaxExponent \in S /\ S \subseteq Nat
      BY <1>1, BitsFact
    <3>2. PICK y \in 0 .. MaxExponent : y \in S /\ (y # 0 => y - 1 \notin S)
      <4> HIDE DEF S
      <4> QED
        BY <3>1, FirstExponent
    <3>3. /\ d * Power[Bits - 1] \in Nat /\ d * Power[Bits] \in Nat
          /\ d * Power[Bits] = 2 * (d * Power[Bits - 1])
      BY BitsFact, Times
    <3>4. CASE y = 0
      <4>1. n * Power[y] = n
        BY <3>4, PowerFact
      <4> QED
        BY <1>3, <3>2, <3>3, <4>1
    <3>5. CASE y # 0
      <4>1. y - 1 \in Nat /\ y = (y - 1) + 1
        BY <3>2, <3>5
      <4>2. Power[y] = 2 * Power[y - 1] /\ Power[y - 1] \in Nat
        BY <4>1, PowerFact, PowerType
      <4>3. n * Power[y] = 2 * (n * Power[y - 1]) /\ n * Power[y - 1] \in Nat
        BY <4>2, Times
      <4>4. ~(d * Power[Bits - 1] <= n * Power[y - 1])
        BY <3>2, <3>5, <4>1
      <4> QED
        BY <3>2, <3>3, <4>3, <4>4
    <3> QED
      BY <3>4, <3>5
  <2>2. x \in 0 .. MaxExponent /\ P(x)
    <3> HIDE DEF P
    <3> QED
      BY <2>1
  <2>3. Double(n, d) = <<Nearest(n * Power[x], d), Power[x]>>
    BY <1>3 DEF Double
  <2> HIDE DEF x
  <2>4. /\ x \in Nat /\ Power[x] \in Nat \ {0} /\ Power[0] = 1
        /\ n * Power[x] < d * Power[Bits]
        /\ n * Power[x] >= d * Power[Bits - 1]
    BY <2>2, BitsFact, PowerType, PowerFact
  <2>5. d * Power[0] = d
    BY <2>4
  <2>6. Nearest(n * Power[x], d) * Power[0] = Nearest(n * Power[x], d)
    <3>1. Nearest(n * Power[x], d) \in Nat
      BY <2>4, NearestFact, Times
    <3> QED
      BY <2>4, <3>1
  <2>7. Scaled(n, d, x, 0)
    BY <2>3, <2>4, <2>5, <2>6 DEF Scaled
  <2> QED
    BY <2>4, <2>7
<1> QED
  BY <1>2, <1>3

(* The integer of a double has Bits bits, or is the power of two above.    *)
LEMMA SignificandBounds ==
  ASSUME NEW n \in Nat, NEW d \in Nat \ {0},
         d * Power[Bits - 1] <= n, n < d * Power[Bits]
  PROVE  /\ Nearest(n, d) \in Nat
         /\ Power[Bits - 1] <= Nearest(n, d)
         /\ Nearest(n, d) <= Power[Bits]
<1>1. /\ d * Power[Bits - 1] \in Nat /\ d * Power[Bits] \in Nat
      /\ Power[Bits - 1] \in Nat /\ Power[Bits] \in Nat
  BY BitsFact, Times
<1>2. /\ Nearest(d * Power[Bits - 1], d) = Power[Bits - 1]
      /\ Nearest(d * Power[Bits], d) = Power[Bits]
  BY <1>1, NearestWhole
<1>3. (d * Power[Bits - 1]) * d <= n * d /\ n * d <= (d * Power[Bits]) * d
  BY <1>1, Times
<1>4. Nearest(d * Power[Bits - 1], d) <= Nearest(n, d)
  BY <1>1, <1>3, NearestMonotone
<1>5. Nearest(n, d) <= Nearest(d * Power[Bits], d)
  BY <1>1, <1>3, NearestMonotone
<1> QED
  BY <1>2, <1>4, <1>5, NearestFact

(* A double is a fraction and at most by the factor two away.              *)
LEMMA DoubleNear ==
  ASSUME NEW n \in Nat, NEW d \in Nat \ {0}, Fits(n, d)
  PROVE  /\ Double(n, d)[1] \in Nat /\ Double(n, d)[2] \in Nat \ {0}
         /\ n = 0 => Double(n, d)[1] = 0
         /\ Double(n, d)[1] * d <= 2 * (n * Double(n, d)[2])
         /\ n * Double(n, d)[2] <= 2 * (Double(n, d)[1] * d)
<1>1. CASE n = 0
  <2>1. Double(n, d)[1] = 0 /\ Double(n, d)[2] = 1
    BY <1>1 DEF Double
  <2> QED
    BY <1>1, <2>1
<1>2. CASE n # 0
  <2>1. PICK u, v \in Nat : Scaled(n, d, u, v)
    BY <1>2, DoubleScaled
  <2> DEFINE U == Power[u]
             V == Power[v]
             L == Power[Bits - 1]
             m == Nearest(n * U, d * V)
  <2>2. U \in Nat \ {0} /\ V \in Nat \ {0} /\ L \in Nat \ {0}
    BY <2>1, PowerType, BitsFact
  <2>3. /\ (d * V) * L <= n * U /\ n * U < (d * V) * Power[Bits]
        /\ Double(n, d)[1] = m * V /\ Double(n, d)[2] = U
    BY <2>1 DEF Scaled
  <2>4. /\ n * U \in Nat /\ d * V \in Nat \ {0}
        /\ m \in Nat /\ L <= m /\ m <= Power[Bits]
    <3>1. n * U \in Nat /\ d * V \in Nat \ {0}
      BY <2>2, Times
    <3> HIDE DEF U, V
    <3> QED
      BY <2>3, <3>1, SignificandBounds
  <2>5. Power[Bits] = 2 * L
    BY BitsFact
  <2> HIDE DEF U, V, L, m
  <2>6. (m * V) * d = m * (d * V) /\ m * V \in Nat
    BY <2>2, <2>4
  <2>7. m * (d * V) <= 2 * (n * U)
    <3>1. m * (d * V) <= (2 * L) * (d * V)
      BY <2>2, <2>4, <2>5, Times
    <3>2. (2 * L) * (d * V) = 2 * ((d * V) * L) /\ (d * V) * L \in Nat
      BY <2>2, <2>4
    <3>3. m * (d * V) \in Nat
      BY <2>4, Times
    <3> QED
      BY <2>3, <2>4, <3>1, <3>2, <3>3
  <2>8. n * U <= 2 * (m * (d * V))
    <3>1. L * (d * V) <= m * (d * V)
      BY <2>2, <2>4, Times
    <3>2. (d * V) * (2 * L) = 2 * (L * (d * V)) /\ L * (d * V) \in Nat
      BY <2>2, <2>4
    <3>3. m * (d * V) \in Nat
      BY <2>4, Times
    <3> QED
      BY <2>3, <2>4, <2>5, <3>1, <3>2, <3>3
  <2> QED
    BY <1>2, <2>2, <2>3, <2>6, <2>7, <2>8
<1> QED
  BY <1>1, <1>2

(* Rounding to a double does not change the order.                         *)
LEMMA DoubleMonotone ==
  ASSUME NEW n \in Nat, NEW d \in Nat \ {0}, Fits(n, d),
         NEW m \in Nat, NEW e \in Nat \ {0}, Fits(m, e),
         n * e <= m * d
  PROVE  Double(n, d)[1] * Double(m, e)[2] <= Double(m, e)[1] * Double(n, d)[2]
<1>1. CASE n = 0
  <2>1. /\ Double(n, d)[1] = 0 /\ Double(n, d)[2] \in Nat
        /\ Double(m, e)[1] \in Nat /\ Double(m, e)[2] \in Nat
    BY <1>1, DoubleNear
  <2> QED
    BY <2>1, Times
<1>2. CASE n # 0
  <2>0. m # 0
    BY <1>2
  <2>1. PICK u, v \in Nat : Scaled(n, d, u, v)
    BY <1>2, DoubleScaled
  <2>2. PICK x, y \in Nat : Scaled(m, e, x, y)
    BY <2>0, DoubleScaled
  <2> DEFINE U == Power[u]
             V == Power[v]
             X == Power[x]
             Y == Power[y]
             L == Power[Bits - 1]
             H == Power[Bits]
             p == Nearest(n * U, d * V)
             q == Nearest(m * X, e * Y)
  <2>3. /\ U \in Nat \ {0} /\ V \in Nat \ {0} /\ X \in Nat \ {0}
        /\ Y \in Nat \ {0} /\ L \in Nat \ {0} /\ H = 2 * L /\ H \in Nat
    BY PowerType, BitsFact
  <2>4. /\ (d * V) * L <= n * U /\ n * U < (d * V) * H
        /\ (e * Y) * L <= m * X /\ m * X < (e * Y) * H
        /\ Double(n, d)[1] = p * V /\ Double(n, d)[2] = U
        /\ Double(m, e)[1] = q * Y /\ Double(m, e)[2] = X
    BY <2>1, <2>2 DEF Scaled
  <2>5. /\ V * X = Power[v + x] /\ Y * U = Power[y + u]
        /\ v + x \in Nat /\ y + u \in Nat
    <3>1. Power[v + x] = V * X
      BY PowerSum
    <3>2. Power[y + u] = Y * U
      BY PowerSum
    <3> HIDE DEF U, V, X, Y
    <3> QED
      BY <3>1, <3>2
  <2>6. /\ v + x < y + u => 2 * (V * X) <= Y * U
        /\ y + u < v + x => 2 * (Y * U) <= V * X
    <3>1. \A i, j \in Nat : i < j => 2 * Power[i] <= Power[j]
      <4> SUFFICES ASSUME NEW i \in Nat, NEW j \in Nat, i < j
                   PROVE  2 * Power[i] <= Power[j]
        OBVIOUS
      <4>1. i + 1 \in Nat /\ i + 1 <= j
        OBVIOUS
      <4> QED
        BY <4>1, PowerMonotone, PowerFact
    <3> QED
      BY <2>5, <3>1
  <2>7. /\ n * U \in Nat /\ d * V \in Nat \ {0}
        /\ m * X \in Nat /\ e * Y \in Nat \ {0}
    BY <2>3, Times
  <2>8. /\ p \in Nat /\ L <= p /\ p <= H
        /\ q \in Nat /\ L <= q /\ q <= H
    <3> HIDE DEF U, V, X, Y
    <3> QED
      BY <2>4, <2>7, SignificandBounds
  <2>9. (n * U) * (e * Y) <= (m * X) * (d * V) => p <= q
    <3> HIDE DEF U, V, X, Y
    <3> QED
      BY <2>7, NearestMonotone
  <2>10. v + x = y + u => V * X = Y * U
    BY <2>5
  <2> HIDE DEF U, V, X, Y, L, H, p, q
  <2>11. /\ V * X \in Nat \ {0} /\ Y * U \in Nat \ {0}
         /\ n * e \in Nat /\ m * d \in Nat
    BY <2>3, Times
  <2>12. SUFFICES p * (V * X) <= q * (Y * U)
    <3>1. (p * V) * X = p * (V * X) /\ (q * Y) * U = q * (Y * U)
      BY <2>3, <2>8
    <3> QED
      BY <2>4, <3>1
  <2>13. CASE v + x = y + u
    <3>1. (n * e) * (U * Y) <= (m * d) * (U * Y)
      BY <2>3, <2>11, Times
    <3>2. /\ (n * U) * (e * Y) = (n * e) * (U * Y)
          /\ (m * X) * (d * V) = (m * d) * (V * X)
          /\ U * Y = Y * U
      BY <2>3
    <3>3. p <= q
      BY <2>9, <2>10, <2>13, <3>1, <3>2
    <3> QED
      BY <2>8, <2>10, <2>11, <2>13, <3>3, Times
  <2>14. CASE v + x < y + u
    <3>1. p * (V * X) <= H * (V * X)
      BY <2>3, <2>8, <2>11, Times
    <3>2. H * (V * X) = L * (2 * (V * X)) /\ 2 * (V * X) \in Nat
      BY <2>3, <2>11
    <3>3. L * (2 * (V * X)) <= L * (Y * U)
      <4>1. (2 * (V * X)) * L <= (Y * U) * L
        BY <2>3, <2>6, <2>11, <2>14, <3>2, Times
      <4> QED
        BY <2>3, <2>11, <3>2, <4>1
    <3>4. L * (Y * U) <= q * (Y * U)
      BY <2>3, <2>8, <2>11, Times
    <3>5. /\ p * (V * X) \in Nat /\ H * (V * X) \in Nat
          /\ L * (Y * U) \in Nat /\ q * (Y * U) \in Nat
      BY <2>3, <2>8, <2>11, Times
    <3> QED
      BY <3>1, <3>2, <3>3, <3>4, <3>5
  <2>15. CASE y + u < v + x
    <3> DEFINE K == U * X
               a == d * e
    <3>1. K \in Nat \ {0} /\ a \in Nat \ {0}
      BY <2>3, Times
    <3>2. (n * e) * K <= (m * d) * K
      BY <2>11, <3>1, Times
    <3>3. (a * L) * (V * X) <= (n * e) * K
      <4>1. ((d * V) * L) * (e * X) <= (n * U) * (e * X)
        BY <2>3, <2>4, <2>7, Times
      <4>2. /\ ((d * V) * L) * (e * X) = (a * L) * (V * X)
            /\ (n * U) * (e * X) = (n * e) * K
        BY <2>3
      <4> QED
        BY <4>1, <4>2
    <3>4. (m * d) * K < (a * L) * (2 * (Y * U))
      <4>1. (m * X) * (d * U) < ((e * Y) * H) * (d * U)
        BY <2>3, <2>4, <2>7, Times
      <4>2. /\ (m * X) * (d * U) = (m * d) * K
            /\ ((e * Y) * H) * (d * U) = (a * L) * (2 * (Y * U))
        BY <2>3
      <4> QED
        BY <4>1, <4>2
    <3> HIDE DEF K, a
    <3>5. (2 * (Y * U)) * (a * L) <= (V * X) * (a * L)
      BY <2>3, <2>6, <2>11, <2>15, <3>1, Times
    <3>6. /\ (2 * (Y * U)) * (a * L) = (a * L) * (2 * (Y * U))
          /\ (V * X) * (a * L) = (a * L) * (V * X)
          /\ (a * L) * (V * X) \in Nat /\ (a * L) * (2 * (Y * U)) \in Nat
          /\ (n * e) * K \in Nat /\ (m * d) * K \in Nat
      BY <2>3, <2>11, <3>1
    <3> QED
      BY <3>2, <3>3, <3>4, <3>5, <3>6
  <2> QED
    BY <2>5, <2>13, <2>14, <2>15
<1> QED
  BY <1>1, <1>2

-----------------------------------------------------------------------------
(* The conversions                                                         *)

(* The exponents suffice for numbers of w bits: 1023 in the program, for   *)
(* numbers of 64 bits.                                                     *)
Width(w) ==
  /\ w \in Nat
  /\ w + w + Bits + 2 <= MaxExponent
  /\ Den \in 1 .. Power[w]

LEMMA WidthPowers ==
  ASSUME NEW w, Width(w)
  PROVE  /\ w \in Nat /\ Power[w] \in Nat \ {0} /\ Den \in 1 .. Power[w]
         /\ Power[w] < Power[Bits + MaxExponent]
         /\ Power[w] * Power[Bits - 1] <= Power[MaxExponent]
         /\ (4 * (Power[w] * Power[w])) < Power[Bits + MaxExponent]
         /\ (4 * Power[w]) * Power[Bits - 1] <= Power[MaxExponent]
<1>1. /\ w \in Nat /\ Bits \in Nat \ {0} /\ MaxExponent \in Nat
      /\ w + w + Bits + 2 <= MaxExponent
  BY BitsFact, ChronoAssumption DEF Width
<1>2. /\ w + w \in Nat /\ (w + w) + 1 \in Nat /\ (w + w) + 2 \in Nat
      /\ w + 1 \in Nat /\ (w + w) + 2 = ((w + w) + 1) + 1
      /\ (w + w) + 3 = ((w + w) + 2) + 1
      /\ w + 2 \in Nat /\ w + 2 = (w + 1) + 1
      /\ Bits + MaxExponent \in Nat /\ (w + w) + 3 <= Bits + MaxExponent
      /\ Bits - 1 \in Nat
      /\ (w + 2) + (Bits - 1) \in Nat /\ (w + 2) + (Bits - 1) <= MaxExponent
      /\ (w + w) + 3 \in Nat
  BY <1>1
<1> DEFINE W == Power[w]
           L == Power[Bits - 1]
           M == Power[MaxExponent]
           T == Power[Bits + MaxExponent]
<1>3. W \in Nat \ {0} /\ L \in Nat \ {0} /\ M \in Nat /\ T \in Nat
  BY <1>1, <1>2, PowerType
<1>4. Power[(w + w) + 3] = 8 * (W * W) /\ Power[w + 2] = 4 * W
  <2>1. Power[w + w] = W * W
    BY <1>1, PowerSum
  <2>2. /\ Power[(w + w) + 1] = 2 * Power[w + w]
        /\ Power[(w + w) + 2] = 2 * Power[(w + w) + 1]
        /\ Power[(w + w) + 3] = 2 * Power[(w + w) + 2]
        /\ Power[w + 1] = 2 * W /\ Power[w + 2] = 2 * Power[w + 1]
    BY <1>1, <1>2, PowerFact
  <2> HIDE DEF W
  <2> QED
    BY <1>3, <2>1, <2>2
<1>5. 8 * (W * W) <= T
  BY <1>2, <1>4, PowerMonotone
<1>6. (4 * W) * L <= M
  <2>1. Power[(w + 2) + (Bits - 1)] = Power[w + 2] * L
    BY <1>2, PowerSum
  <2>2. Power[(w + 2) + (Bits - 1)] <= M
    BY <1>1, <1>2, PowerMonotone
  <2> QED
    BY <1>4, <2>1, <2>2
<1> HIDE DEF W, L, M, T
<1>7. W * W \in Nat \ {0} /\ W <= W * W /\ W * L \in Nat
      /\ (4 * W) * L = 4 * (W * L)
  BY <1>3
<1>8. W < T /\ 4 * (W * W) < T /\ W * L <= M
  BY <1>3, <1>5, <1>6, <1>7
<1>9. Den \in 1 .. Power[w]
  BY DEF Width
<1> QED
  BY <1>1, <1>3, <1>6, <1>8, <1>9 DEF W, L, M, T

(* A quotient of two numbers of w bits has its double, ...                 *)
LEMMA QuotientFits ==
  ASSUME NEW w, Width(w), NEW n \in 0 .. Power[w], NEW d \in 1 .. Power[w]
  PROVE  Fits(n, d)
<1> DEFINE W == Power[w]
           L == Power[Bits - 1]
           M == Power[MaxExponent]
           T == Power[Bits + MaxExponent]
<1>1. /\ W \in Nat \ {0} /\ W < T /\ W * L <= M
      /\ L \in Nat /\ M \in Nat /\ T \in Nat
  <2>1. /\ Bits - 1 \in Nat /\ MaxExponent \in Nat
        /\ Bits + MaxExponent \in Nat
    BY BitsFact
  <2> QED
    BY <2>1, WidthPowers, PowerType
<1>2. SUFFICES ASSUME n # 0 PROVE n < d * T /\ d * L <= n * M
  BY DEF Fits
<1> HIDE DEF W, L, M, T
<1>3. n \in Nat /\ d \in Nat \ {0} /\ n <= W /\ d <= W
  BY <1>1 DEF W
<1>4. T <= d * T /\ M <= n * M /\ d * T \in Nat /\ n * M \in Nat
  <2>1. 1 * T <= d * T /\ 1 * M <= n * M
    BY <1>1, <1>2, <1>3, Times
  <2> QED
    BY <1>1, <1>3, <2>1, Times
<1>5. d * L <= W * L /\ d * L \in Nat /\ W * L \in Nat
  BY <1>1, <1>3, Times
<1> QED
  BY <1>1, <1>3, <1>4, <1>5

(* ... and so has the product of a number with such a double.              *)
LEMMA ProductFits ==
  ASSUME NEW w, Width(w), NEW k \in 0 .. Power[w],
         NEW n \in 1 .. Power[w], NEW d \in 1 .. Power[w]
  PROVE  Fits(Double(k, 1)[1] * Double(n, d)[1],
              Double(k, 1)[2] * Double(n, d)[2])
<1> DEFINE W == Power[w]
           L == Power[Bits - 1]
           M == Power[MaxExponent]
           T == Power[Bits + MaxExponent]
           a == Double(k, 1)[1]
           b == Double(k, 1)[2]
           f == Double(n, d)[1]
           g == Double(n, d)[2]
<1>1. /\ W \in Nat \ {0} /\ 4 * (W * W) < T /\ (4 * W) * L <= M
      /\ L \in Nat /\ M \in Nat /\ T \in Nat
  <2>1. /\ Bits - 1 \in Nat /\ MaxExponent \in Nat
        /\ Bits + MaxExponent \in Nat
    BY BitsFact
  <2> QED
    BY <2>1, WidthPowers, PowerType
<1>2. /\ k \in Nat /\ k <= W
      /\ n \in Nat \ {0} /\ n <= W /\ d \in Nat \ {0} /\ d <= W
  BY <1>1
<1>3. Fits(k, 1) /\ Fits(n, d)
  <2>1. 1 \in 1 .. Power[w] /\ n \in 0 .. Power[w]
    BY <1>1
  <2> QED
    BY <2>1, QuotientFits
<1>4. /\ a \in Nat /\ b \in Nat \ {0} /\ f \in Nat /\ g \in Nat \ {0}
      /\ k = 0 => a = 0
      /\ a * 1 <= 2 * (k * b) /\ k * b <= 2 * (a * 1)
      /\ f * d <= 2 * (n * g) /\ n * g <= 2 * (f * d)
  BY <1>2, <1>3, DoubleNear
<1> HIDE DEF W, L, M, T, a, b, f, g
<1>5. SUFFICES ASSUME a * f # 0
               PROVE  /\ a * f < (b * g) * T
                      /\ (b * g) * L <= (a * f) * M
  BY DEF Fits, L, M, T, a, b, f, g
<1>6. k # 0
  BY <1>4, <1>5, Times
<1>7. a <= (2 * W) * b
  <2>1. k * b <= W * b
    BY <1>1, <1>2, <1>4, Times
  <2> QED
    BY <1>1, <1>2, <1>4, <2>1
<1>8. f <= (2 * W) * g
  <2>1. n * g <= W * g
    BY <1>1, <1>2, <1>4, Times
  <2>2. f <= f * d
    BY <1>2, <1>4
  <2> QED
    BY <1>1, <1>2, <1>4, <2>1, <2>2
<1>9. b <= 2 * a
  <2>1. b <= k * b
    BY <1>2, <1>4, <1>6
  <2> QED
    BY <1>2, <1>4, <2>1
<1>10. g <= (2 * W) * f
  <2>1. g <= n * g
    BY <1>2, <1>4
  <2>2. d * f <= W * f
    BY <1>1, <1>2, <1>4, Times
  <2> QED
    BY <1>1, <1>2, <1>4, <2>1, <2>2
<1>11. a * f <= (4 * (W * W)) * (b * g)
  <2>1. a * f <= ((2 * W) * b) * f
    BY <1>1, <1>4, <1>7, Times
  <2>2. f * ((2 * W) * b) <= ((2 * W) * g) * ((2 * W) * b)
    BY <1>1, <1>4, <1>8, Times
  <2>3. /\ ((2 * W) * b) * f = f * ((2 * W) * b)
        /\ ((2 * W) * g) * ((2 * W) * b) = (4 * (W * W)) * (b * g)
        /\ ((2 * W) * b) * f \in Nat /\ a * f \in Nat
        /\ (4 * (W * W)) * (b * g) \in Nat
    BY <1>1, <1>4
  <2> QED
    BY <2>1, <2>2, <2>3
<1>12. b * g <= (4 * W) * (a * f)
  <2>1. b * g <= (2 * a) * g
    BY <1>4, <1>9, Times
  <2>2. g * (2 * a) <= ((2 * W) * f) * (2 * a)
    BY <1>1, <1>4, <1>10, Times
  <2>3. /\ (2 * a) * g = g * (2 * a)
        /\ ((2 * W) * f) * (2 * a) = (4 * W) * (a * f)
        /\ (2 * a) * g \in Nat /\ b * g \in Nat
        /\ (4 * W) * (a * f) \in Nat
    BY <1>1, <1>4
  <2> QED
    BY <2>1, <2>2, <2>3
<1> DEFINE p == a * f
           q == b * g
           S == 4 * (W * W)
           V == 4 * W
<1>13. /\ p \in Nat /\ q \in Nat \ {0} /\ S \in Nat /\ V \in Nat
       /\ p <= S * q /\ q <= V * p /\ S < T /\ V * L <= M
  BY <1>1, <1>4, <1>11, <1>12, Times
<1> HIDE DEF p, q, S, V
<1>14. p < q * T
  <2>1. S * q < T * q /\ S * q \in Nat /\ T * q \in Nat
    BY <1>1, <1>13, Times
  <2> QED
    BY <1>1, <1>13, <2>1
<1>15. q * L <= p * M
  <2>1. q * L <= (V * p) * L
    BY <1>1, <1>13, Times
  <2>2. (V * L) * p <= M * p
    BY <1>1, <1>13, Times
  <2>3. /\ (V * p) * L = (V * L) * p /\ M * p = p * M
        /\ q * L \in Nat /\ (V * L) * p \in Nat /\ p * M \in Nat
    BY <1>1, <1>13
  <2> QED
    BY <2>1, <2>2, <2>3
<1> QED
  BY <1>14, <1>15 DEF p, q

(* The product of a number with a double, which is a fraction, does not    *)
(* decrease with the number.                                               *)
LEMMA ProductMonotone ==
  ASSUME NEW w, Width(w), NEW j \in 0 .. Power[w], NEW k \in 0 .. Power[w],
         j <= k, NEW n \in 1 .. Power[w], NEW d \in 1 .. Power[w]
  PROVE  LET p == Product(Double(j, 1), Double(n, d))
             q == Product(Double(k, 1), Double(n, d))
         IN /\ p[1] \in Nat /\ p[2] \in Nat \ {0}
            /\ q[1] \in Nat /\ q[2] \in Nat \ {0}
            /\ p[1] * q[2] <= q[1] * p[2]
<1> DEFINE a == Double(j, 1)[1]
           b == Double(j, 1)[2]
           c == Double(k, 1)[1]
           e == Double(k, 1)[2]
           f == Double(n, d)[1]
           g == Double(n, d)[2]
<1>1. /\ j \in Nat /\ k \in Nat /\ n \in Nat /\ d \in Nat \ {0}
      /\ Power[w] \in Nat \ {0}
  BY WidthPowers
<1>2. Fits(j, 1) /\ Fits(k, 1) /\ Fits(n, d)
  <2>1. 1 \in 1 .. Power[w] /\ n \in 0 .. Power[w]
    BY <1>1
  <2> QED
    BY <2>1, QuotientFits
<1>3. /\ a \in Nat /\ b \in Nat \ {0} /\ c \in Nat /\ e \in Nat \ {0}
      /\ f \in Nat /\ g \in Nat \ {0}
  BY <1>1, <1>2, DoubleNear
<1>4. a * e <= c * b
  <2>1. j * 1 <= k * 1
    BY <1>1
  <2> QED
    BY <1>1, <1>2, <2>1, DoubleMonotone
<1>5. Fits(a * f, b * g) /\ Fits(c * f, e * g)
  BY ProductFits
<1> HIDE DEF a, b, c, e, f, g
<1>6. (a * f) * (e * g) <= (c * f) * (b * g)
  <2>1. (a * e) * (f * g) <= (c * b) * (f * g)
    BY <1>3, <1>4, Times
  <2>2. /\ (a * f) * (e * g) = (a * e) * (f * g)
        /\ (c * f) * (b * g) = (c * b) * (f * g)
    BY <1>3
  <2> QED
    BY <2>1, <2>2
<1>7. /\ a * f \in Nat /\ c * f \in Nat
      /\ b * g \in Nat \ {0} /\ e * g \in Nat \ {0}
  BY <1>3, Times
<1>8. /\ Double(a * f, b * g)[1] * Double(c * f, e * g)[2]
           <= Double(c * f, e * g)[1] * Double(a * f, b * g)[2]
      /\ Double(a * f, b * g)[1] \in Nat
      /\ Double(a * f, b * g)[2] \in Nat \ {0}
      /\ Double(c * f, e * g)[1] \in Nat
      /\ Double(c * f, e * g)[2] \in Nat \ {0}
  BY <1>5, <1>6, <1>7, DoubleMonotone, DoubleNear
<1> QED
  BY <1>8 DEF Product, a, b, c, e, f, g

(* The conversion of a reader does not turn time back: of two readings of  *)
(* a clock, the later one gets no earlier point in time.                   *)
THEOREM TimesDoNotDecrease ==
  ASSUME NEW w, Width(w), NEW cp, cp.tps \in 1 .. Power[w],
         cp.start \in Nat, NEW s \in Nat, NEW t \in Nat,
         cp.start <= s, s <= t, t - cp.start <= Power[w]
  PROVE  /\ TimeOf(cp, s) \in Nat
         /\ TimeOf(cp, s) <= TimeOf(cp, t)
<1> DEFINE p == Product(Double(s - cp.start, 1), Factor(cp))
           q == Product(Double(t - cp.start, 1), Factor(cp))
<1>1. /\ s - cp.start \in 0 .. Power[w] /\ t - cp.start \in 0 .. Power[w]
      /\ s - cp.start <= t - cp.start /\ Den \in 1 .. Power[w]
  BY WidthPowers
<1>2. /\ p[1] \in Nat /\ p[2] \in Nat \ {0}
      /\ q[1] \in Nat /\ q[2] \in Nat \ {0}
      /\ p[1] * q[2] <= q[1] * p[2]
  BY <1>1, ProductMonotone DEF Factor
<1>3. TimeOf(cp, s) = p[1] \div p[2] /\ TimeOf(cp, t) = q[1] \div q[2]
  BY DEF TimeOf, Floor
<1> HIDE DEF p, q
<1>4. p[1] \div p[2] <= q[1] \div q[2]
  BY <1>2, FloorMonotone
<1>5. p[1] \div p[2] \in Nat
  BY <1>2, Division
<1> QED
  BY <1>3, <1>4, <1>5

(* Neither does the one of a writer: the later of two points in time gets  *)
(* no fewer ticks, so that what is written in order is read in order.      *)
THEOREM TicksDoNotDecrease ==
  ASSUME NEW w, Width(w), NEW cp, cp.tps \in 1 .. Power[w],
         cp.start \in Nat, NEW s \in Nat, NEW t \in Nat,
         s <= t, t <= Power[w]
  PROVE  /\ TicksOf(cp, s) \in Nat
         /\ cp.start <= TicksOf(cp, s)
         /\ TicksOf(cp, s) <= TicksOf(cp, t)
<1> DEFINE p == Product(Double(s, 1), InverseFactor(cp))
           q == Product(Double(t, 1), InverseFactor(cp))
<1>1. /\ s \in 0 .. Power[w] /\ t \in 0 .. Power[w] /\ Den \in 1 .. Power[w]
  BY WidthPowers
<1>2. /\ p[1] \in Nat /\ p[2] \in Nat \ {0}
      /\ q[1] \in Nat /\ q[2] \in Nat \ {0}
      /\ p[1] * q[2] <= q[1] * p[2]
  BY <1>1, ProductMonotone DEF InverseFactor
<1> DEFINE c == (p[1] + p[2] - 1) \div p[2]
           d == (q[1] + q[2] - 1) \div q[2]
<1>3. TicksOf(cp, s) = c + cp.start /\ TicksOf(cp, t) = d + cp.start
  BY DEF TicksOf, Ceil
<1> HIDE DEF p, q
<1>4. c <= d
  BY <1>2, CeilMonotone
<1>5. c \in Nat /\ d \in Nat
  <2>1. p[1] + p[2] - 1 \in Nat /\ q[1] + q[2] - 1 \in Nat
    BY <1>2
  <2> QED
    BY <1>2, <2>1, Division
<1> HIDE DEF c, d
<1> QED
  BY <1>3, <1>4, <1>5

-----------------------------------------------------------------------------
(* Whole numbers                                                           *)

(* A whole number of Bits bits is a double itself.                         *)
LEMMA DoubleWhole ==
  ASSUME NEW k \in Nat, k < Power[Bits], NEW d \in Nat \ {0}, Fits(k * d, d)
  PROVE  /\ Double(k * d, d)[1] = k * Double(k * d, d)[2]
         /\ Double(k * d, d)[2] \in Nat \ {0}
<1>0. k * d \in Nat
  BY Times
<1>1. CASE k = 0
  <2>1. k * d = 0
    BY <1>1
  <2>2. Double(k * d, d)[1] = 0 /\ Double(k * d, d)[2] = 1
    BY <2>1 DEF Double
  <2> QED
    BY <1>1, <2>2
<1>2. CASE k # 0
  <2>0. k * d \in Nat \ {0}
    BY <1>2, Times
  <2>1. PICK u, v \in Nat : Scaled(k * d, d, u, v)
    <3> DEFINE n == k * d
    <3>1. n \in Nat \ {0} /\ Fits(n, d)
      BY <2>0
    <3> HIDE DEF n
    <3>2. \E u, v \in Nat : Scaled(n, d, u, v)
      BY <3>1, DoubleScaled
    <3> QED
      BY <3>2 DEF n
  <2> DEFINE U == Power[u]
             V == Power[v]
             L == Power[Bits - 1]
  <2>2. /\ U \in Nat \ {0} /\ V \in Nat \ {0} /\ L \in Nat \ {0}
        /\ Power[Bits] = 2 * L /\ Power[0] = 1
    BY PowerType, BitsFact, PowerFact
  <2>3. /\ u = 0 \/ v = 0
        /\ (d * V) * L <= (k * d) * U
        /\ Double(k * d, d) = <<Nearest((k * d) * U, d * V) * V, U>>
    BY <2>1 DEF Scaled
  <2>4. v = 0
    <3>1. SUFFICES ASSUME v # 0 PROVE FALSE
      OBVIOUS
    <3>2. U = 1 /\ 2 <= V
      <4>1. v - 1 \in Nat /\ v = (v - 1) + 1
        BY <3>1
      <4>2. V = 2 * Power[v - 1] /\ Power[v - 1] \in Nat \ {0}
        BY <4>1, PowerFact, PowerType
      <4>3. u = 0
        BY <2>3, <3>1
      <4> QED
        BY <2>2, <4>2, <4>3
    <3> HIDE DEF U, V, L
    <3>3. (V * L) * d <= k * d
      <4>1. (V * L) * d = (d * V) * L /\ (k * d) * U = k * d
        BY <2>2, <3>2
      <4> QED
        BY <2>3, <4>1
    <3>4. V * L <= k
      BY <2>2, <3>3, Times
    <3>5. 2 * L <= V * L /\ V * L \in Nat
      BY <2>2, <3>2, Times
    <3> QED
      BY <2>2, <3>4, <3>5
  <2>5. V = 1
    BY <2>2, <2>4
  <2> HIDE DEF U, V, L
  <2>6. (k * d) * U = d * (k * U) /\ d * V = d /\ k * U \in Nat
    BY <2>2, <2>5
  <2>7. Nearest(d * (k * U), d) = k * U
    BY <2>6, NearestWhole
  <2>8. Double(k * d, d)[1] = k * U /\ Double(k * d, d)[2] = U
    BY <2>3, <2>5, <2>6, <2>7
  <2> QED
    BY <2>2, <2>8
<1> QED
  BY <1>1, <1>2

(* The product of such a number with the double of 1.                      *)
LEMMA ProductWhole ==
  ASSUME NEW w, Width(w), NEW k \in 0 .. Power[w], k < Power[Bits]
  PROVE  LET p == Product(Double(k, 1), Double(Den, Den))
         IN p[1] = k * p[2] /\ p[2] \in Nat \ {0}
<1> DEFINE b == Double(k, 1)[2]
           g == Double(Den, Den)[2]
<1>1. /\ k \in Nat /\ Den \in Nat \ {0} /\ Power[w] \in Nat \ {0}
      /\ Den \in 1 .. Power[w] /\ Den \in 0 .. Power[w] /\ 1 \in 1 .. Power[w]
      /\ k * 1 = k /\ 1 * Den = Den /\ 1 < Power[Bits]
  <2>1. Power[w] \in Nat \ {0} /\ Den \in 1 .. Power[w]
    BY WidthPowers
  <2>2. 1 < Power[Bits]
    BY BitsFact
  <2> QED
    BY <2>1, <2>2
<1>2. Double(k, 1)[1] = k * b /\ b \in Nat \ {0}
  BY <1>1, QuotientFits, DoubleWhole
<1>3. Double(Den, Den)[1] = g /\ g \in Nat \ {0}
  <2>1. Fits(Den, Den)
    BY <1>1, QuotientFits
  <2>2. /\ Double(1 * Den, Den)[1] = 1 * Double(1 * Den, Den)[2]
        /\ Double(1 * Den, Den)[2] \in Nat \ {0}
    BY <1>1, <2>1, DoubleWhole
  <2> QED
    BY <1>1, <2>2
<1>4. Fits((k * b) * g, b * g)
  BY <1>1, <1>2, <1>3, ProductFits
<1> HIDE DEF b, g
<1>5. (k * b) * g = k * (b * g) /\ b * g \in Nat \ {0}
  <2>1. b * g \in Nat \ {0}
    BY <1>2, <1>3, Times
  <2> QED
    BY <1>1, <1>2, <1>3, <2>1
<1>6. /\ Double(k * (b * g), b * g)[1] = k * Double(k * (b * g), b * g)[2]
      /\ Double(k * (b * g), b * g)[2] \in Nat \ {0}
  <2> DEFINE d == b * g
  <2>1. d \in Nat \ {0} /\ Fits(k * d, d)
    BY <1>4, <1>5
  <2> HIDE DEF d
  <2>2. /\ Double(k * d, d)[1] = k * Double(k * d, d)[2]
        /\ Double(k * d, d)[2] \in Nat \ {0}
    BY <1>1, <2>1, DoubleWhole
  <2> QED
    BY <2>2 DEF d
<1> QED
  BY <1>2, <1>3, <1>5, <1>6 DEF Product, b, g

(* A clock with the unit of the points in time loses nothing, as far as a  *)
(* double has the bits for a number of ticks.  It is the clock of a writer *)
(* to which none was given.                                                *)
THEOREM SameUnitIsExact ==
  ASSUME NEW w, Width(w), NEW start \in Nat, NEW k \in 0 .. Power[w],
         k < Power[Bits]
  PROVE  LET cp == [tps |-> Den, start |-> start]
         IN /\ TicksOf(cp, k) = k + start
            /\ TimeOf(cp, k + start) = k
<1> DEFINE cp == [tps |-> Den, start |-> start]
           p == Product(Double(k, 1), Double(Den, Den))
<1>1. p[1] = k * p[2] /\ p[2] \in Nat \ {0} /\ k \in Nat
  BY ProductWhole, WidthPowers
<1>2. Factor(cp) = Double(Den, Den) /\ InverseFactor(cp) = Double(Den, Den)
  BY DEF Factor, InverseFactor
<1>3. (k + start) - cp.start = k
  BY <1>1
<1>4. /\ TicksOf(cp, k) = (p[1] + p[2] - 1) \div p[2] + start
      /\ TimeOf(cp, k + start) = p[1] \div p[2]
  BY <1>2, <1>3 DEF TicksOf, TimeOf, Floor, Ceil
<1> HIDE DEF p
<1>5. \A d \in Nat \ {0} : (k * d) \div d = k /\ (k * d + d - 1) \div d = k
  <2> SUFFICES ASSUME NEW d \in Nat \ {0}
               PROVE  (k * d) \div d = k /\ (k * d + d - 1) \div d = k
    OBVIOUS
  <2>1. \A r \in 0 .. d - 1 : (k * d + r) \div d = k
    <3> SUFFICES ASSUME NEW r \in 0 .. d - 1 PROVE (k * d + r) \div d = k
      OBVIOUS
    <3> DEFINE q == (k * d + r) \div d
    <3>1. k * d \in Nat /\ k * d + r \in Nat
      BY <1>1, Times
    <3>2. q \in Nat /\ d * q <= k * d + r /\ k * d + r < d * q + d
      BY <3>1, Division
    <3> HIDE DEF q
    <3>3. ~(k + 1 <= q)
      <4>1. k + 1 <= q => (k + 1) * d <= q * d
        BY <1>1, <3>2, Times
      <4>2. (k + 1) * d = k * d + d /\ q * d = d * q
        BY <1>1, <3>2
      <4> QED
        BY <3>1, <3>2, <4>1, <4>2
    <3>4. ~(q + 1 <= k)
      <4>1. q + 1 <= k => (q + 1) * d <= k * d
        BY <1>1, <3>2, Times
      <4>2. (q + 1) * d = d * q + d
        BY <1>1, <3>2
      <4> QED
        BY <3>1, <3>2, <4>1, <4>2
    <3> QED
      BY <1>1, <3>2, <3>3, <3>4 DEF q
  <2>2. k * d + 0 = k * d /\ k * d + (d - 1) = k * d + d - 1
        /\ 0 \in 0 .. d - 1 /\ d - 1 \in 0 .. d - 1
    <3>1. k * d \in Nat
      BY <1>1, Times
    <3> QED
      BY <3>1
  <2> QED
    BY <2>1, <2>2
<1> QED
  BY <1>1, <1>4, <1>5

-----------------------------------------------------------------------------
(* The greatest point in time                                              *)

(* So has a fraction of the magnitude of such a product.                   *)
LEMMA RatioFits ==
  ASSUME NEW w, Width(w), NEW n \in Nat, NEW d \in Nat \ {0},
         n <= (4 * (Power[w] * Power[w])) * d, d <= (4 * Power[w]) * n
  PROVE  Fits(n, d)
<1> DEFINE S == 4 * (Power[w] * Power[w])
           W == 4 * Power[w]
           L == Power[Bits - 1]
           M == Power[MaxExponent]
           T == Power[Bits + MaxExponent]
<1>1. /\ S \in Nat /\ S < T /\ W \in Nat /\ W * L <= M
      /\ L \in Nat /\ M \in Nat /\ T \in Nat
  <2>1. /\ Bits - 1 \in Nat /\ MaxExponent \in Nat
        /\ Bits + MaxExponent \in Nat
    BY BitsFact
  <2>2. Power[w] \in Nat \ {0} /\ S < T /\ W * L <= M
    BY WidthPowers
  <2>3. S \in Nat /\ W \in Nat
    BY <2>2, Times
  <2>4. L \in Nat /\ M \in Nat /\ T \in Nat
    BY <2>1, PowerType
  <2> HIDE DEF T, L, M, S, W
  <2> QED
    BY <2>2, <2>3, <2>4
<1> HIDE DEF S, W, L, M, T
<1>2. SUFFICES n < d * T /\ d * L <= n * M
  BY DEF Fits, L, M, T
<1>3. n <= S * d /\ d <= W * n
  BY DEF S, W
<1>4. S * d < T * d /\ T * d = d * T /\ S * d \in Nat /\ d * T \in Nat
  BY <1>1, Times
<1>5. /\ d * L <= (W * n) * L /\ (W * n) * L = (W * L) * n
      /\ (W * L) * n <= M * n /\ M * n = n * M
      /\ d * L \in Nat /\ (W * L) * n \in Nat /\ n * M \in Nat
  BY <1>1, <1>3, Times
<1> QED
  BY <1>3, <1>4, <1>5

(* A double is greater by less than one part in 2^Bits.                    *)
LEMMA DoubleError ==
  ASSUME NEW n \in Nat, NEW d \in Nat \ {0}, Fits(n, d)
  PROVE  (Double(n, d)[1] * d) * Power[Bits]
           <= (n * Double(n, d)[2]) * (Power[Bits] + 1)
<1> DEFINE H == Power[Bits]
<1>0. H \in Nat \ {0}
  BY BitsFact
<1>1. CASE n = 0
  <2>1. Double(n, d)[1] = 0 /\ Double(n, d)[2] \in Nat
    BY <1>1, DoubleNear
  <2> HIDE DEF H
  <2>2. (0 * d) * H = 0 /\ (n * Double(n, d)[2]) * (H + 1) \in Nat
    BY <1>0, <2>1
  <2> QED
    BY <2>1, <2>2 DEF H
<1>2. CASE n # 0
  <2>1. PICK u, v \in Nat : Scaled(n, d, u, v)
    BY <1>2, DoubleScaled
  <2> DEFINE U == Power[u]
             V == Power[v]
             L == Power[Bits - 1]
             N == n * U
             D == d * V
             m == Nearest(N, D)
  <2>2. U \in Nat \ {0} /\ V \in Nat \ {0} /\ L \in Nat \ {0} /\ H = 2 * L
    BY <2>1, PowerType, BitsFact
  <2>3. /\ D * L <= N
        /\ Double(n, d)[1] = m * V /\ Double(n, d)[2] = U
    BY <2>1 DEF Scaled
  <2>4. N \in Nat /\ D \in Nat \ {0}
    <3> HIDE DEF U, V
    <3> QED
      BY <2>2, Times
  <2>5. m \in Nat /\ 2 * (D * m) <= 2 * N + D
    <3> HIDE DEF N, D
    <3> QED
      BY <2>4, NearestFact
  <2>6. (m * V) * d = D * m
    <3> HIDE DEF V, m
    <3> QED
      BY <2>2, <2>5
  <2> HIDE DEF m, N, D, H, L
  <2>7. (2 * (D * m)) * L <= (2 * N + D) * L
    BY <2>2, <2>4, <2>5, Times
  <2>8. /\ (2 * (D * m)) * L = (D * m) * H
        /\ (2 * N + D) * L = N * H + D * L
        /\ N * (H + 1) = N * H + N
        /\ D * L \in Nat /\ N * H \in Nat /\ (D * m) * H \in Nat
    BY <2>2, <2>4, <2>5
  <2>9. (D * m) * H <= N * (H + 1)
    BY <2>3, <2>4, <2>7, <2>8
  <2> QED
    BY <2>3, <2>6, <2>9 DEF H, N
<1> QED
  BY <1>1, <1>2

(* Half a unit above a power of two the even number is the power of two.   *)
LEMMA DoubleAbovePower ==
  ASSUME Bits >= 2, NEW p \in Nat,
         Fits(Power[p] * (Power[Bits] + 1), Power[Bits])
  PROVE  LET r == Double(Power[p] * (Power[Bits] + 1), Power[Bits])
         IN r[1] = Power[p] * r[2] /\ r[2] \in Nat \ {0}
<1> DEFINE H == Power[Bits]
           Q == Power[p]
           n == Q * (H + 1)
<1>1. H \in Nat \ {0} /\ Q \in Nat \ {0} /\ n \in Nat \ {0}
  <2>1. H \in Nat \ {0} /\ Q \in Nat \ {0}
    BY BitsFact, PowerType
  <2> HIDE DEF H, Q
  <2> QED
    BY <2>1, Times
<1>2. PICK u, v \in Nat : Scaled(n, H, u, v)
  <2> HIDE DEF n, H
  <2> QED
    BY <1>1, DoubleScaled DEF n, H
<1> DEFINE U == Power[u]
           V == Power[v]
           L == Power[Bits - 1]
           N == n * U
           D == H * V
           m == Nearest(N, D)
<1>3. /\ D * L <= N /\ N < D * H
      /\ Double(n, H)[1] = m * V /\ Double(n, H)[2] = U
  BY <1>2 DEF Scaled
<1>4. /\ U \in Nat \ {0} /\ V \in Nat \ {0} /\ L \in Nat \ {0} /\ H = 2 * L
      /\ L % 2 = 0
  <2>1. Bits - 2 \in Nat /\ Bits - 1 = (Bits - 2) + 1
    BY BitsFact
  <2>2. L = 2 * Power[Bits - 2] /\ Power[Bits - 2] \in Nat
    BY <2>1, PowerFact, PowerType
  <2>3. \A k \in Nat : (2 * k) % 2 = 0
    OBVIOUS
  <2> QED
    BY <1>2, <2>2, <2>3, PowerType, BitsFact
<1>5. /\ Q * U < V * L => 2 * (Q * U) <= V * L
      /\ V * L < Q * U => 2 * (V * L) <= Q * U
  <2>1. \A i, j \in Nat : Power[i] < Power[j] => 2 * Power[i] <= Power[j]
    <3> SUFFICES ASSUME NEW i \in Nat, NEW j \in Nat, Power[i] < Power[j]
                 PROVE  2 * Power[i] <= Power[j]
      OBVIOUS
    <3>1. i < j
      <4>1. ~(j <= i)
        <5>1. j <= i => Power[j] <= Power[i]
          BY PowerMonotone
        <5>2. Power[i] \in Nat /\ Power[j] \in Nat
          BY PowerType
        <5> QED
          BY <5>1, <5>2
      <4> QED
        BY <4>1
    <3>2. i + 1 \in Nat /\ i + 1 <= j
      BY <3>1
    <3> QED
      BY <3>2, PowerMonotone, PowerFact
  <2>2. Power[p + u] = Q * U /\ p + u \in Nat
    BY PowerSum
  <2>3. Power[v + (Bits - 1)] = V * L /\ v + (Bits - 1) \in Nat
    BY BitsFact, PowerSum
  <2> HIDE DEF Q, U, V, L
  <2> QED
    BY <2>1, <2>2, <2>3
<1>6. N = (Q * U) * (H + 1)
  <2> HIDE DEF Q, U, H
  <2> QED
    BY <1>1, <1>4
<1> DEFINE A == Q * U
           B == V * L
<1>7. /\ A \in Nat /\ B \in Nat \ {0}
      /\ A < B => 2 * A <= B
      /\ B < A => 2 * B <= A
      /\ D = 2 * B /\ D \in Nat \ {0} /\ N = A * (H + 1) /\ N \in Nat
  <2>1. A \in Nat /\ B \in Nat \ {0} /\ D = 2 * B
    <3> HIDE DEF Q, U, V, L, H
    <3> QED
      BY <1>1, <1>4, Times
  <2> HIDE DEF A, B, N, D, H
  <2>2. N = A * (H + 1)
    BY <1>6 DEF A
  <2> QED
    BY <1>1, <1>5, <2>1, <2>2 DEF A, B
<1>8. m \in Nat /\ 2 * (D * m) <= 2 * N + D /\ 2 * N <= 2 * (D * m) + D
      /\ (2 * (D * m) = 2 * N + D => m % 2 = 0)
  <2> HIDE DEF N, D
  <2> QED
    BY <1>7, NearestFact
<1> HIDE DEF A, B, N, D, H, L, m
<1>9. A = B
  <2>1. ~(A < B)
    <3>1. SUFFICES ASSUME 2 * A <= B PROVE FALSE
      BY <1>7
    <3>2. (2 * A) * (H + 1) <= B * (H + 1)
      BY <1>1, <1>7, <3>1, Times
    <3>3. /\ (2 * A) * (H + 1) = 2 * N /\ B * (H + 1) = B * (2 * L) + B
          /\ D * L = B * (2 * L)
          /\ B * (2 * L) \in Nat
      BY <1>1, <1>4, <1>7
    <3>4. B < B * (2 * L)
      BY <1>4, <1>7
    <3> QED
      BY <1>3, <1>7, <3>2, <3>3, <3>4
  <2>2. ~(B < A)
    <3>1. SUFFICES ASSUME 2 * B <= A PROVE FALSE
      BY <1>7
    <3>2. D * (H + 1) <= A * (H + 1)
      BY <1>1, <1>7, <3>1, Times
    <3>3. D * (H + 1) = D * H + D /\ D * H \in Nat
      BY <1>1, <1>7
    <3> QED
      BY <1>3, <1>7, <3>2, <3>3
  <2> QED
    BY <1>7, <2>1, <2>2
<1>10. 2 * N = 2 * (D * L) + D
  BY <1>1, <1>4, <1>7, <1>9
<1>11. m = L
  <2>1. D * m <= D * (L + 1) /\ D * L <= D * m
    <3>1. /\ D * (L + 1) = D * L + D /\ D * L \in Nat /\ D * m \in Nat
      BY <1>4, <1>7, <1>8
    <3> QED
      BY <1>7, <1>8, <1>10, <3>1
  <2>2. m <= L + 1 /\ L <= m
    <3>1. /\ m * D <= (L + 1) * D => m <= L + 1
          /\ L * D <= m * D => L <= m
      BY <1>4, <1>7, <1>8, Times
    <3>2. /\ D * m = m * D /\ D * (L + 1) = (L + 1) * D /\ D * L = L * D
      BY <1>4, <1>7, <1>8
    <3> QED
      BY <2>1, <3>1, <3>2
  <2>3. m # L + 1
    <3>1. SUFFICES ASSUME m = L + 1 PROVE FALSE
      OBVIOUS
    <3>2. D * m = D * L + D /\ D * L \in Nat
      BY <1>4, <1>7, <3>1
    <3>3. m % 2 = 0
      BY <1>7, <1>8, <1>10, <3>2
    <3> QED
      BY <1>4, <3>1, <3>3
  <2> QED
    BY <1>4, <1>8, <2>2, <2>3
<1>12. m * V = Q * U
  <2>1. m * V = V * L
    BY <1>4, <1>11
  <2> QED
    BY <1>9, <2>1 DEF A, B
<1> QED
  BY <1>3, <1>4, <1>12 DEF H

(* The greatest length of a clock that the constructor accepts, times the  *)
(* factor: <<f, g>> is the factor, <<x, y>> the greatest duration divided  *)
(* by it, and a product that rounds three times is not above the duration. *)
LEMMA GreatestProduct ==
  ASSUME NEW w, Width(w), Bits >= 2, NEW p \in Nat, Limit = Power[p],
         Limit <= Power[w], NEW tps \in 1 .. Power[w]
  PROVE  LET f == Double(Den, tps)[1]
             g == Double(Den, tps)[2]
             x == Double(Limit * g, f)[1]
             y == Double(Limit * g, f)[2]
             r == Double(x * f, y * g)
         IN /\ f \in Nat \ {0} /\ g \in Nat \ {0}
            /\ x \in Nat /\ y \in Nat \ {0}
            /\ Fits(x * f, y * g)
            /\ r[1] \in Nat /\ r[2] \in Nat \ {0}
            /\ r[1] <= Limit * r[2]
<1> DEFINE W == Power[w]
           H == Power[Bits]
           f == Double(Den, tps)[1]
           g == Double(Den, tps)[2]
           x == Double(Limit * g, f)[1]
           y == Double(Limit * g, f)[2]
           r == Double(x * f, y * g)
           s == Double(Limit * (H + 1), H)
<1>1. /\ W \in Nat \ {0} /\ H \in Nat \ {0}
      /\ Limit \in Nat \ {0} /\ Limit <= W
      /\ Den \in Nat \ {0} /\ Den <= W /\ tps \in Nat \ {0} /\ tps <= W
  <2>1. /\ W \in Nat \ {0} /\ Den \in 1 .. W
        /\ Limit \in Nat \ {0} /\ H \in Nat \ {0}
    BY WidthPowers, PowerType, BitsFact
  <2> QED
    BY <2>1
<1>2. /\ f \in Nat \ {0} /\ g \in Nat \ {0}
      /\ f <= (2 * W) * g /\ g <= (2 * W) * f
  <2>1. Fits(Den, tps)
    <3>1. Den \in 0 .. Power[w]
      BY <1>1
    <3> QED
      BY <3>1, QuotientFits
  <2>2. /\ f \in Nat /\ g \in Nat \ {0}
        /\ f * tps <= 2 * (Den * g) /\ Den * g <= 2 * (f * tps)
    BY <1>1, <2>1, DoubleNear
  <2> HIDE DEF W, f, g
  <2>3. /\ Den * g <= W * g /\ tps * f <= W * f
        /\ g <= Den * g /\ f <= f * tps
        /\ Den * g \in Nat /\ f * tps \in Nat /\ tps * f = f * tps
        /\ W * g \in Nat /\ W * f \in Nat
    BY <1>1, <2>2, Times
  <2>4. f <= 2 * (W * g) /\ g <= 2 * (W * f)
    BY <2>2, <2>3
  <2>5. f # 0
    BY <1>1, <2>2, <2>4, Times
  <2> QED
    BY <1>1, <2>2, <2>4, <2>5
<1> HIDE DEF W, H, f, g
<1>3. Limit * g \in Nat \ {0} /\ Fits(Limit * g, f)
  <2>1. Limit * g \in Nat \ {0}
    BY <1>1, <1>2, Times
  <2>2. Limit * g <= (4 * (W * W)) * f
    <3>1. /\ Limit * g <= W * g
          /\ g * W <= ((2 * W) * f) * W
      BY <1>1, <1>2, Times
    <3>2. /\ W * g = g * W /\ ((2 * W) * f) * W = 2 * ((W * W) * f)
          /\ (4 * (W * W)) * f = 4 * ((W * W) * f)
          /\ (W * W) * f \in Nat /\ g * W \in Nat
      BY <1>1, <1>2
    <3> QED
      BY <2>1, <3>1, <3>2
  <2>3. f <= (4 * W) * (Limit * g)
    <3>1. /\ g <= Limit * g /\ (4 * W) * g = 2 * ((2 * W) * g)
          /\ (2 * W) * g \in Nat
      BY <1>1, <1>2
    <3>2. g * (4 * W) <= (Limit * g) * (4 * W)
      BY <1>1, <1>2, <2>1, <3>1, Times
    <3>3. /\ g * (4 * W) = (4 * W) * g
          /\ (Limit * g) * (4 * W) = (4 * W) * (Limit * g)
          /\ (4 * W) * (Limit * g) \in Nat
      BY <1>1, <1>2, <2>1
    <3> QED
      BY <1>2, <3>1, <3>2, <3>3
  <2> QED
    BY <1>2, <2>1, <2>2, <2>3, RatioFits DEF W
<1>4. /\ x \in Nat /\ y \in Nat \ {0}
      /\ x * f <= 2 * ((Limit * g) * y) /\ (Limit * g) * y <= 2 * (x * f)
      /\ (x * f) * H <= ((Limit * g) * y) * (H + 1)
  BY <1>2, <1>3, DoubleNear, DoubleError DEF H
<1> HIDE DEF x, y
<1>5. x * f \in Nat /\ y * g \in Nat \ {0}
  BY <1>2, <1>4, Times
<1>6. (Limit * g) * y = Limit * (y * g)
  BY <1>1, <1>2, <1>4
<1> DEFINE A == x * f
           B == y * g
<1> HIDE DEF A, B
<1>7. /\ A \in Nat /\ B \in Nat \ {0}
      /\ A <= 2 * (Limit * B) /\ Limit * B <= 2 * A
      /\ A * H <= (Limit * B) * (H + 1)
  BY <1>4, <1>5, <1>6 DEF A, B
<1>8. Fits(A, B)
  <2>1. /\ B * Limit <= B * W /\ B <= B * Limit
        /\ B * Limit = Limit * B
        /\ B * W <= (W * W) * B /\ (4 * (W * W)) * B = 4 * ((W * W) * B)
        /\ (W * W) * B \in Nat /\ B * W \in Nat /\ B * Limit \in Nat
    <3>1. /\ Limit * B <= W * B /\ 1 * B <= Limit * B /\ W <= W * W
          /\ W * W \in Nat
      BY <1>1, <1>7, Times
    <3>2. W * B <= (W * W) * B
      BY <1>1, <1>7, <3>1, Times
    <3>3. /\ B * Limit = Limit * B /\ B * W = W * B /\ 1 * B = B
          /\ (4 * (W * W)) * B = 4 * ((W * W) * B)
          /\ (W * W) * B \in Nat /\ B * W \in Nat /\ B * Limit \in Nat
      BY <1>1, <1>7
    <3> QED
      BY <3>1, <3>2, <3>3
  <2>2. A <= (4 * (W * W)) * B
    BY <1>7, <2>1
  <2>3. B <= (4 * W) * A
    <3>1. (4 * W) * A = 4 * (W * A) /\ A <= W * A /\ W * A \in Nat
      BY <1>1, <1>7
    <3> QED
      BY <1>7, <2>1, <3>1
  <2> QED
    BY <1>7, <2>2, <2>3, RatioFits DEF W
<1>9. Limit * (H + 1) \in Nat /\ Fits(Limit * (H + 1), H)
  <2>1. /\ Limit * (H + 1) \in Nat
        /\ Limit * (H + 1) <= (2 * H) * Limit
        /\ H <= H * Limit /\ Limit * (H + 1) = H * Limit + Limit
        /\ H * Limit \in Nat
    BY <1>1
  <2>2. Limit * (H + 1) <= (4 * (W * W)) * H
    <3>1. /\ Limit * H <= W * H /\ W <= W * W /\ W * W \in Nat
      BY <1>1, Times
    <3>2. W * H <= (W * W) * H
      BY <1>1, <3>1, Times
    <3>3. /\ (4 * (W * W)) * H = 4 * ((W * W) * H)
          /\ (2 * H) * Limit = 2 * (Limit * H)
          /\ (W * W) * H \in Nat /\ W * H \in Nat /\ Limit * H \in Nat
      BY <1>1
    <3> QED
      BY <2>1, <3>1, <3>2, <3>3
  <2>3. H <= (4 * W) * (Limit * (H + 1))
    <3> DEFINE n == Limit * (H + 1)
    <3>1. n \in Nat /\ H <= n
      BY <1>1, <2>1
    <3> HIDE DEF n
    <3>2. n <= (4 * W) * n
      BY <1>1, <3>1
    <3>3. (4 * W) * n \in Nat
      BY <1>1, <3>1
    <3> QED
      BY <1>1, <3>1, <3>2, <3>3 DEF n
  <2> QED
    BY <1>1, <2>1, <2>2, <2>3, RatioFits DEF W
<1>10. s[1] = Limit * s[2] /\ s[2] \in Nat \ {0}
  BY <1>9, DoubleAbovePower DEF H
<1>11. /\ r[1] \in Nat /\ r[2] \in Nat \ {0}
       /\ r[1] * s[2] <= s[1] * r[2]
  <2>1. A * H <= (Limit * (H + 1)) * B
    BY <1>1, <1>7
  <2>2. /\ Double(A, B)[1] * s[2] <= s[1] * Double(A, B)[2]
        /\ Double(A, B)[1] \in Nat /\ Double(A, B)[2] \in Nat \ {0}
    BY <1>1, <1>7, <1>8, <1>9, <2>1, DoubleMonotone, DoubleNear
  <2> QED
    BY <2>2 DEF A, B
<1> HIDE DEF r, s
<1>12. r[1] <= Limit * r[2]
  <2>1. s[1] * r[2] = (Limit * r[2]) * s[2] /\ Limit * r[2] \in Nat
    BY <1>1, <1>10, <1>11
  <2>2. r[1] * s[2] <= (Limit * r[2]) * s[2]
    BY <1>11, <2>1
  <2> QED
    BY <1>10, <1>11, <2>1, <2>2, Times
<1>13. Fits(x * f, y * g)
  BY <1>8 DEF A, B
<1> QED
  BY <1>2, <1>4, <1>11, <1>12, <1>13 DEF f, g, x, y, r

(* What the constructor of convert checks is enough, up to one: the points *)
(* in time of a clock that it accepts are at most the greatest duration as *)
(* a double, 2^63.  The greatest duration itself is one less, and TLC      *)
(* finds clocks for which the bound is reached.                            *)
THEOREM AcceptedClocksFit ==
  ASSUME NEW w, Width(w), Bits >= 2, NEW p \in Nat, Limit = Power[p],
         Limit <= Power[w], NEW cp, cp.tps \in 1 .. Power[w],
         cp.start \in Nat, cp.length \in 0 .. Power[w],
         Representable(cp),
         NEW t \in Nat, cp.start <= t, t - cp.start <= cp.length
  PROVE  TimeOf(cp, t) \in 0 .. Limit
<1> DEFINE k == t - cp.start
           f == Double(Den, cp.tps)[1]
           g == Double(Den, cp.tps)[2]
           x == Double(Limit * g, f)[1]
           y == Double(Limit * g, f)[2]
           r == Double(x * f, y * g)
           a == Double(k, 1)[1]
           b == Double(k, 1)[2]
           l == Double(cp.length, 1)[1]
           m == Double(cp.length, 1)[2]
           q == Double(a * f, b * g)
<1>1. /\ f \in Nat \ {0} /\ g \in Nat \ {0}
      /\ x \in Nat /\ y \in Nat \ {0}
      /\ Fits(x * f, y * g)
      /\ r[1] \in Nat /\ r[2] \in Nat \ {0}
      /\ r[1] <= Limit * r[2]
  BY GreatestProduct
<1>2. /\ Power[w] \in Nat \ {0} /\ Den \in 1 .. Power[w]
      /\ 1 \in 1 .. Power[w] /\ Limit \in Nat
      /\ k \in 0 .. Power[w] /\ k \in Nat
      /\ cp.length \in Nat /\ k * 1 <= cp.length * 1
  <2>1. Power[w] \in Nat \ {0} /\ Den \in 1 .. Power[w] /\ Limit \in Nat
    BY WidthPowers, PowerType
  <2> QED
    BY <2>1
<1>3. Fits(k, 1) /\ Fits(cp.length, 1) /\ Fits(a * f, b * g)
  BY <1>2, QuotientFits, ProductFits
<1>4. /\ a \in Nat /\ b \in Nat \ {0} /\ l \in Nat /\ m \in Nat \ {0}
      /\ a * m <= l * b
  BY <1>2, <1>3, DoubleNear, DoubleMonotone
<1>5. l * y <= x * m
  BY DEF Representable, Factor
<1>6. TimeOf(cp, t) = q[1] \div q[2]
  BY DEF TimeOf, Product, Factor, Floor
<1> HIDE DEF f, g, x, y, r, a, b, l, m, k
<1>7. a * y <= x * b
  <2>1. (a * m) * y <= (l * b) * y /\ (l * y) * b <= (x * m) * b
    BY <1>1, <1>4, <1>5, Times
  <2>2. /\ (a * m) * y = (a * y) * m /\ (l * b) * y = (l * y) * b
        /\ (x * m) * b = (x * b) * m
        /\ (a * y) * m \in Nat /\ (l * y) * b \in Nat
        /\ (x * b) * m \in Nat /\ a * y \in Nat /\ x * b \in Nat
    BY <1>1, <1>4
  <2>3. (a * y) * m <= (x * b) * m
    BY <2>1, <2>2
  <2> QED
    BY <1>4, <2>2, <2>3, Times
<1>8. (a * f) * (y * g) <= (x * f) * (b * g)
  <2>1. (a * y) * (f * g) <= (x * b) * (f * g)
    BY <1>1, <1>4, <1>7, Times
  <2>2. /\ (a * f) * (y * g) = (a * y) * (f * g)
        /\ (x * f) * (b * g) = (x * b) * (f * g)
    BY <1>1, <1>4
  <2> QED
    BY <2>1, <2>2
<1>9. /\ q[1] \in Nat /\ q[2] \in Nat \ {0}
      /\ q[1] * r[2] <= r[1] * q[2]
  <2>1. /\ a * f \in Nat /\ x * f \in Nat
        /\ b * g \in Nat \ {0} /\ y * g \in Nat \ {0}
    BY <1>1, <1>4, Times
  <2> QED
    BY <1>1, <1>3, <1>8, <2>1, DoubleMonotone, DoubleNear DEF r
<1> HIDE DEF q
<1>10. q[1] <= Limit * q[2]
  <2>1. r[1] * q[2] <= (Limit * r[2]) * q[2]
    BY <1>1, <1>2, <1>9, Times
  <2>2. /\ (Limit * r[2]) * q[2] = (Limit * q[2]) * r[2]
        /\ (Limit * q[2]) * r[2] \in Nat /\ Limit * q[2] \in Nat
        /\ q[1] * r[2] \in Nat /\ r[1] * q[2] \in Nat
    BY <1>1, <1>2, <1>9
  <2>3. q[1] * r[2] <= (Limit * q[2]) * r[2]
    BY <1>9, <2>1, <2>2
  <2> QED
    BY <1>1, <1>9, <2>2, <2>3, Times
<1> DEFINE z == q[1] \div q[2]
<1>11. z \in Nat /\ q[2] * z <= q[1]
  <2>1. /\ z \in Nat /\ q[1] % q[2] \in Nat
        /\ q[1] = q[2] * z + (q[1] % q[2])
    BY <1>9, Division
  <2> HIDE DEF z
  <2>2. q[2] * z \in Nat
    BY <1>9, <2>1, Times
  <2> QED
    BY <2>1, <2>2
<1> HIDE DEF z
<1>12. z <= Limit
  <2>1. z * q[2] <= Limit * q[2]
    <3>1. q[2] * z = z * q[2] /\ z * q[2] \in Nat /\ Limit * q[2] \in Nat
      BY <1>2, <1>9, <1>11
    <3> QED
      BY <1>9, <1>10, <1>11, <3>1
  <2> QED
    BY <1>2, <1>9, <1>11, <2>1, Times
<1> QED
  BY <1>2, <1>6, <1>11, <1>12 DEF z
=============================================================================
