---------------------------- MODULE NumberLemmas ----------------------------
(***************************************************************************)
(* Facts about numbers for the proofs of the algorithms: division and the  *)
(* function Gcd, what the operators of Fractions compute, and sums over a  *)
(* finite set.                                                             *)
(***************************************************************************)
EXTENDS Fractions, Functions, FiniteSetTheorems, WellFoundedInduction, TLAPS

(* Induction over the numbers, for what recursive functions compute.       *)
LEMMA Induction ==
  ASSUME NEW S \in SUBSET Nat,
         \A n \in Nat : (\A m \in Nat : m < n => m \in S) => n \in S
  PROVE  \A n \in Nat : n \in S
<1> DEFINE R == {ss \in Nat \X Nat : ss[1] < ss[2]}
           T == Nat \ S
<1>1. IsWellFoundedOn(R, Nat)
  BY NatLessThanWellFounded DEF OpToRel
<1>2. ASSUME NEW x \in Nat, NEW y \in Nat, y < x PROVE <<y, x>> \in R
  <2>1. <<y, x>> \in Nat \X Nat /\ <<y, x>>[1] = y /\ <<y, x>>[2] = x
    OBVIOUS
  <2> QED
    BY <1>2, <2>1
<1> HIDE DEF R
<1>3. ASSUME T # {} PROVE FALSE
  <2>1. PICK x \in T : \A y \in T : ~(<<y, x>> \in R)
    BY <1>1, <1>3, WFMin
  <2>2. \A m \in Nat : m < x => m \in S
    BY <1>2, <2>1
  <2> QED
    BY <2>1, <2>2
<1> QED
  BY <1>3

-----------------------------------------------------------------------------
(* Integers.                                                               *)

(* Signs of products.                                                      *)
LEMMA IntProducts ==
  \A a, b \in Int : /\ a * b \in Int
                    /\ a > 0 /\ b > 0 => a * b > 0
                    /\ a >= 0 /\ b >= 0 => a * b >= 0
OBVIOUS

(* Multiplication keeps the order.                                         *)
LEMMA Scaled ==
  ASSUME NEW k \in Int, k >= 0, NEW x \in Int, NEW y \in Int, x <= y
  PROVE  k * x <= k * y
<1>1. PICK w \in Nat : y = x + w
  <2>1. y - x \in Nat /\ y = x + (y - x)
    OBVIOUS
  <2> QED
    BY <2>1
<1>2. k * y = k * x + k * w /\ k * w >= 0
  BY <1>1
<1> QED
  BY <1>2

(* A factor on both sides cancels.                                         *)
LEMMA Cancel ==
  ASSUME NEW c \in Int, c > 0, NEW p \in Int, NEW q \in Int
  PROVE  /\ c * p <= c * q <=> p <= q
         /\ c * p = c * q <=> p = q
<1>1. ASSUME p < q PROVE c * p < c * q
  <2>1. PICK w \in Nat : q = p + 1 + w
    <3>1. q - p - 1 \in Nat /\ q = p + 1 + (q - p - 1)
      BY <1>1
    <3> QED
      BY <3>1
  <2>2. c * q = c * p + c + c * w /\ c * w >= 0
    BY <2>1
  <2> QED
    BY <2>2
<1>2. ASSUME q < p PROVE c * q < c * p
  <2>1. PICK w \in Nat : p = q + 1 + w
    <3>1. p - q - 1 \in Nat /\ p = q + 1 + (p - q - 1)
      BY <1>2
    <3> QED
      BY <3>1
  <2>2. c * p = c * q + c + c * w /\ c * w >= 0
    BY <2>1
  <2> QED
    BY <2>2
<1>3. c * p \in Int /\ c * q \in Int
  OBVIOUS
<1> QED
  BY <1>1, <1>2, <1>3

AbsInt(x) == IF x < 0 THEN -x ELSE x
ClampInt(x, lo, hi) == IF x < lo THEN lo ELSE IF hi < x THEN hi ELSE x

(* A factor that is not negative comes out of the absolute value.          *)
LEMMA AbsScaled ==
  ASSUME NEW k \in Int, k >= 0, NEW x \in Int
  PROVE  AbsInt(k * x) = k * AbsInt(x)
<1>1. CASE x < 0
  <2>1. k * x = -(k * (-x)) /\ k * (-x) \in Int /\ k * (-x) >= 0
    BY <1>1
  <2>2. CASE k * x < 0
    BY <1>1, <2>1, <2>2 DEF AbsInt
  <2>3. CASE k * x = 0
    BY <1>1, <2>1, <2>3 DEF AbsInt
  <2> QED
    BY <2>1, <2>2, <2>3
<1>2. CASE x >= 0
  <2>1. k * x >= 0
    BY <1>2
  <2> QED
    BY <1>2, <2>1 DEF AbsInt
<1> QED
  BY <1>1, <1>2

(* Clamping neither turns two numbers round nor moves them apart.          *)
LEMMA ClampFollows ==
  ASSUME NEW x \in Int, NEW y \in Int, NEW l \in Int, 0 <= l
  PROVE  /\ ClampInt(x, -l, l) \in Int
         /\ AbsInt(ClampInt(x, -l, l)) <= l
         /\ x <= y => ClampInt(x, -l, l) <= ClampInt(y, -l, l)
         /\ AbsInt(ClampInt(y, -l, l) - ClampInt(x, -l, l)) <= AbsInt(y - x)
BY DEF ClampInt, AbsInt

(* Quotient and remainder are the only ones.                               *)
LEMMA Division ==
  ASSUME NEW v \in Nat, v > 0, NEW q \in Int, NEW w \in Nat, w < v
  PROVE  (v * q + w) \div v = q /\ (v * q + w) % v = w
<1> DEFINE u == v * q + w
           d == u \div v
           e == u % v
<1>1. u \in Int /\ d \in Int /\ e \in Nat /\ e < v /\ u = v * d + e
  OBVIOUS
<1>2. u = v * q + w
  OBVIOUS
<1> HIDE DEF u, d, e
<1>3. ASSUME NEW i \in Int, NEW j \in Int, i < j
      PROVE  v * i + v <= v * j
  <2>1. PICK t \in Nat : j = i + 1 + t
    <3>1. j - i - 1 \in Nat /\ j = i + 1 + (j - i - 1)
      BY <1>3
    <3> QED
      BY <3>1
  <2>2. v * j = v * i + v + v * t /\ v * t >= 0
    BY <2>1
  <2> QED
    BY <2>2
<1>4. v * d \in Int /\ v * q \in Int
  BY <1>1
<1>5. d = q
  BY <1>1, <1>2, <1>3, <1>4
<1>6. e = w
  BY <1>1, <1>2, <1>4, <1>5
<1> QED
  BY <1>5, <1>6 DEF u, d, e

(* Division of a multiple.                                                 *)
LEMMA Quotient ==
  ASSUME NEW g \in Nat, g > 0, NEW q \in Int
  PROVE  (g * q) \div g = q
<1>1. g * q = g * q + 0
  OBVIOUS
<1> QED
  BY <1>1, Division

(* Squares: none is negative, and what two of them add up to bounds both.  *)
LEMMA Squares == \A a \in Int : a * a >= 0
<1> SUFFICES ASSUME NEW a \in Int PROVE a * a >= 0
  OBVIOUS
<1>1. CASE a >= 0
  BY <1>1, IntProducts
<1>2. CASE a < 0
  <2>1. -a \in Int /\ -a >= 0 /\ a * a = (-a) * (-a)
    BY <1>2
  <2> QED
    BY <2>1, IntProducts
<1> QED
  BY <1>1, <1>2

(* Beyond a number that is not negative squares are larger.                *)
LEMMA SquareGrows ==
  ASSUME NEW a \in Int, NEW r \in Int, r >= 0, a > r
  PROVE  a * a > r * r
<1>1. a * a = r * r + (a - r) * (a + r)
  OBVIOUS
<1>2. (a - r) * (a + r) > 0
  <2>1. a - r \in Int /\ a + r \in Int /\ a - r > 0 /\ a + r > 0
    OBVIOUS
  <2> QED
    BY <2>1, IntProducts
<1>3. a * a \in Int /\ r * r \in Int /\ (a - r) * (a + r) \in Int
  OBVIOUS
<1> QED
  BY <1>1, <1>2, <1>3

(* What two squares add up to bounds each of them.                         *)
LEMMA WithinRadius ==
  ASSUME NEW a \in Int, NEW b \in Int, NEW r \in Int, r >= 0,
         a * a + b * b <= r * r
  PROVE  -r <= a /\ a <= r
<1>1. a * a \in Int /\ b * b \in Int /\ r * r \in Int /\ b * b >= 0
  BY Squares
<1>2. a * a <= r * r
  BY <1>1
<1>3. ASSUME a > r PROVE FALSE
  BY <1>1, <1>2, <1>3, SquareGrows
<1>4. ASSUME -a > r PROVE FALSE
  <2>1. (-a) * (-a) = a * a
    OBVIOUS
  <2> QED
    BY <1>1, <1>2, <1>4, <2>1, SquareGrows
<1> QED
  BY <1>3, <1>4

-----------------------------------------------------------------------------
(* Euclid's algorithm.                                                     *)

(* k divides n.                                                            *)
Divides(k, n) == \E q \in Nat : n = k * q

CommonDivisors(a, b) == {k \in Nat : k > 0 /\ Divides(k, a) /\ Divides(k, b)}

(* What divides two numbers divides their combinations.                    *)
LEMMA DividesSum ==
  ASSUME NEW k \in Nat, NEW a \in Nat, NEW b \in Nat,
         Divides(k, a), Divides(k, b)
  PROVE  \A c \in Nat : Divides(k, a * c + b)
<1>1. PICK q \in Nat : a = k * q
  BY DEF Divides
<1>2. PICK r \in Nat : b = k * r
  BY DEF Divides
<1>3. ASSUME NEW c \in Nat PROVE Divides(k, a * c + b)
  <2>1. q * c + r \in Nat /\ a * c + b = k * (q * c + r)
    BY <1>1, <1>2
  <2> QED
    BY <2>1 DEF Divides
<1> QED
  BY <1>3

(* The remainder has the same divisors in common.                          *)
LEMMA Remainders ==
  ASSUME NEW a \in Nat, NEW b \in Nat, b > 0
  PROVE  /\ a % b \in Nat /\ a % b < b
         /\ CommonDivisors(b, a % b) = CommonDivisors(a, b)
<1> DEFINE q == a \div b
           r == a % b
<1>1. q \in Nat /\ r \in Nat /\ r < b /\ a = b * q + r
  OBVIOUS
<1> HIDE DEF q, r
<1>2. ASSUME NEW k \in CommonDivisors(b, r) PROVE k \in CommonDivisors(a, b)
  BY <1>1, <1>2, DividesSum DEF CommonDivisors
<1>3. ASSUME NEW k \in CommonDivisors(a, b) PROVE Divides(k, r)
  <2>1. PICK s \in Nat : a = k * s
    BY DEF CommonDivisors, Divides
  <2>2. PICK t \in Nat : b = k * t
    BY DEF CommonDivisors, Divides
  <2>3. k \in Nat /\ k > 0
    BY DEF CommonDivisors
  <2>4. s - t * q \in Int /\ r = k * (s - t * q)
    BY <1>1, <2>1, <2>2, <2>3
  <2>5. s - t * q >= 0
    <3>1. SUFFICES ASSUME s - t * q <= -1 PROVE FALSE
      BY <2>4
    <3>2. PICK w \in Nat : w = t * q - s - 1
      <4>1. s \in Int /\ t * q \in Int
        BY <1>1
      <4> QED
        BY <3>1, <4>1
    <3>3. r = -k - k * w
      BY <1>1, <2>1, <2>2, <2>3, <2>4, <3>2
    <3>4. k * w >= 0
      BY <2>3
    <3> QED
      BY <1>1, <2>3, <3>3, <3>4
  <2> QED
    BY <2>4, <2>5 DEF Divides
<1>4. CommonDivisors(b, r) = CommonDivisors(a, b)
  BY <1>2, <1>3 DEF CommonDivisors
<1> QED
  BY <1>1, <1>4 DEF r

(* Gcd is a function that satisfies its equation: the greatest common      *)
(* divisor does, so that there is one.                                     *)
LEMMA GcdComputes ==
  Gcd = [p \in Nat \X Nat |->
           IF p[2] = 0 THEN p[1] ELSE Gcd[<<p[2], p[1] % p[2]>>]]
<1> DEFINE greatest(a, b) == CHOOSE k \in CommonDivisors(a, b) :
                               \A j \in CommonDivisors(a, b) : j <= k
           F == [p \in Nat \X Nat |->
                   IF p[2] = 0 THEN p[1] ELSE greatest(p[1], p[2])]
<1>1. ASSUME NEW a \in Nat, NEW b \in Nat
      PROVE  F[<<a, b>>] = IF b = 0 THEN a ELSE greatest(a, b)
  <2> HIDE DEF greatest
  <2>1. <<a, b>> \in Nat \X Nat /\ <<a, b>>[1] = a /\ <<a, b>>[2] = b
    OBVIOUS
  <2> QED
    BY <2>1
<1> HIDE DEF F
<1>2. ASSUME NEW a \in Nat, NEW b \in Nat, b # 0
      PROVE  F[<<a, b>>] = F[<<b, a % b>>]
  <2>1. F[<<a, b>>] = greatest(a, b)
    BY <1>1, <1>2
  <2>2. a % b \in Nat /\ CommonDivisors(b, a % b) = CommonDivisors(a, b)
    BY <1>2, Remainders
  <2>3. F[<<b, a % b>>] = IF a % b = 0 THEN b ELSE greatest(b, a % b)
    BY <1>1, <2>2
  <2>4. CASE a % b # 0
    BY <2>1, <2>2, <2>3, <2>4
  <2>5. CASE a % b = 0
    <3>2. b \in CommonDivisors(a, b)
      <4>1. b = b * 1 /\ 0 = b * 0
        OBVIOUS
      <4>2. Divides(b, b) /\ Divides(b, 0)
        BY <4>1 DEF Divides
      <4>3. b \in CommonDivisors(b, a % b)
        BY <1>2, <2>5, <4>2 DEF CommonDivisors
      <4> QED
        BY <2>2, <4>3
    <3>3. ASSUME NEW j \in CommonDivisors(a, b) PROVE j \in Nat /\ j <= b
      <4>1. PICK t \in Nat : b = j * t
        BY DEF CommonDivisors, Divides
      <4>2. j \in Nat /\ j > 0
        BY DEF CommonDivisors
      <4>3. t >= 1
        BY <1>2, <4>1, <4>2
      <4>4. j * (t - 1) >= 0 /\ j * t = j + j * (t - 1)
        BY <4>2, <4>3
      <4> QED
        BY <4>1, <4>2, <4>4
    <3>4. greatest(a, b) \in CommonDivisors(a, b) /\ b <= greatest(a, b)
      BY <3>2, <3>3
    <3> QED
      BY <2>1, <2>3, <2>5, <3>3, <3>4
  <2> QED
    BY <2>4, <2>5
<1>3. F = [p \in Nat \X Nat |->
             IF p[2] = 0 THEN p[1] ELSE F[<<p[2], p[1] % p[2]>>]]
  <2>1. ASSUME NEW p \in Nat \X Nat
        PROVE  F[p] = IF p[2] = 0 THEN p[1] ELSE F[<<p[2], p[1] % p[2]>>]
    <3>1. PICK a \in Nat, b \in Nat : p = <<a, b>>
      OBVIOUS
    <3> QED
      BY <1>1, <1>2, <3>1
  <2>2. F = [p \in Nat \X Nat |-> F[p]]
    BY DEF F
  <2> QED
    BY <2>1, <2>2
<1> QED
  BY <1>3 DEF Gcd

(* One step of the algorithm.                                              *)
LEMMA GcdStep ==
  ASSUME NEW a \in Nat, NEW b \in Nat
  PROVE  Gcd[<<a, b>>] = IF b = 0 THEN a ELSE Gcd[<<b, a % b>>]
<1>1. <<a, b>> \in Nat \X Nat /\ <<a, b>>[1] = a /\ <<a, b>>[2] = b
  OBVIOUS
<1> QED
  BY <1>1, GcdComputes

(* It ends with a divisor of both numbers.                                 *)
LEMMA GcdDivides ==
  ASSUME NEW a \in Nat, NEW b \in Nat, a > 0 \/ b > 0
  PROVE  Gcd[<<a, b>>] \in CommonDivisors(a, b)
<1> DEFINE Good(m) == \A n \in Nat : n > 0 \/ m > 0 =>
                        Gcd[<<n, m>>] \in CommonDivisors(n, m)
           S == {m \in Nat : Good(m)}
<1>1. ASSUME NEW m \in Nat, \A k \in Nat : k < m => k \in S
      PROVE  m \in S
  <2>1. SUFFICES ASSUME NEW n \in Nat, n > 0 \/ m > 0
                 PROVE  Gcd[<<n, m>>] \in CommonDivisors(n, m)
    OBVIOUS
  <2>2. Gcd[<<n, m>>] = IF m = 0 THEN n ELSE Gcd[<<m, n % m>>]
    BY GcdStep
  <2>3. CASE m = 0
    <3>1. n = n * 1 /\ 0 = n * 0
      OBVIOUS
    <3> QED
      BY <2>1, <2>2, <2>3, <3>1 DEF CommonDivisors, Divides
  <2>4. CASE m # 0
    <3>1. /\ n % m \in Nat /\ n % m < m
          /\ CommonDivisors(m, n % m) = CommonDivisors(n, m)
      BY <2>4, Remainders
    <3>2. Good(n % m)
      BY <1>1, <3>1
    <3>3. Gcd[<<m, n % m>>] \in CommonDivisors(m, n % m)
      BY <2>4, <3>2
    <3> QED
      BY <2>2, <2>4, <3>1, <3>3
  <2> QED
    BY <2>3, <2>4
<1> HIDE DEF Good
<1>2. b \in S
  BY <1>1, Induction
<1> QED
  BY <1>2 DEF Good

(* A common factor comes out of it.                                        *)
LEMMA GcdScaled ==
  ASSUME NEW k \in Nat, k > 0, NEW a \in Nat, NEW b \in Nat
  PROVE  Gcd[<<k * a, k * b>>] = k * Gcd[<<a, b>>]
<1> DEFINE Good(m) == \A n \in Nat : Gcd[<<k * n, k * m>>] = k * Gcd[<<n, m>>]
           S == {m \in Nat : Good(m)}
<1>1. ASSUME NEW m \in Nat, \A j \in Nat : j < m => j \in S
      PROVE  m \in S
  <2>1. SUFFICES ASSUME NEW n \in Nat
                 PROVE  Gcd[<<k * n, k * m>>] = k * Gcd[<<n, m>>]
    OBVIOUS
  <2>2. k * n \in Nat /\ k * m \in Nat
    OBVIOUS
  <2>3. CASE m = 0
    <3>1. k * m = 0
      BY <2>3
    <3>2. Gcd[<<k * n, k * m>>] = k * n /\ Gcd[<<n, m>>] = n
      BY <2>2, <2>3, <3>1, GcdStep
    <3> QED
      BY <3>2
  <2>4. CASE m # 0
    <3> DEFINE q == n \div m
               r == n % m
    <3>1. n = m * q + r /\ r \in Nat /\ r < m /\ q \in Nat
      BY <2>4
    <3> HIDE DEF q, r
    <3>2. (k * n) % (k * m) = k * r
      <4> DEFINE v == k * m
                 w == k * r
      <4>1. k * n = v * q + w
        BY <3>1
      <4>2. v = w + k * (m - r) /\ k * (m - r) > 0
        BY <3>1
      <4>3. v \in Nat /\ v > 0 /\ w \in Nat /\ w < v
        BY <3>1, <4>2
      <4> HIDE DEF v, w
      <4>4. (v * q + w) % v = w
        BY <3>1, <4>3, Division
      <4> QED
        BY <4>1, <4>4 DEF v, w
    <3>3. Gcd[<<k * n, k * m>>] = Gcd[<<k * m, k * r>>]
      <4>1. k * m > 0
        BY <2>4
      <4> QED
        BY <2>2, <3>2, <4>1, GcdStep
    <3>4. Gcd[<<n, m>>] = Gcd[<<m, r>>]
      BY <2>4, GcdStep DEF r
    <3>5. Good(r)
      BY <1>1, <3>1
    <3>6. Gcd[<<k * m, k * r>>] = k * Gcd[<<m, r>>]
      BY <3>5
    <3> QED
      BY <3>3, <3>4, <3>6
  <2> QED
    BY <2>3, <2>4
<1> HIDE DEF Good
<1>2. b \in S
  BY <1>1, Induction
<1> QED
  BY <1>2 DEF Good

-----------------------------------------------------------------------------
(* Fractions.                                                              *)

(* f is the fraction x / m, in lowest terms or not.                        *)
Is(f, x, m) ==
  /\ f \in Fraction /\ x \in Int /\ m \in Int /\ m > 0
  /\ f[1] * m = x * f[2]

(* The same fraction over another denominator.                             *)
LEMMA IsAlso ==
  ASSUME NEW f, NEW n, NEW d, Is(f, n, d),
         NEW x \in Int, NEW m \in Int, m > 0, n * m = x * d
  PROVE  Is(f, x, m)
<1>1. /\ f \in Fraction /\ f[1] \in Int /\ f[2] \in Int /\ f[2] > 0
      /\ n \in Int /\ d \in Int /\ d > 0 /\ f[1] * d = n * f[2]
  BY DEF Is, Fraction
<1> DEFINE a == f[1]
           b == f[2]
<1>2. d * (a * m) = d * (x * b)
  <2>1. d * (a * m) = (a * d) * m
    BY <1>1
  <2>2. (a * d) * m = (n * b) * m
    BY <1>1
  <2>3. (n * b) * m = (n * m) * b
    BY <1>1
  <2>4. (n * m) * b = (x * d) * b
    BY <1>1
  <2>5. (x * d) * b = d * (x * b)
    BY <1>1
  <2> QED
    BY <2>1, <2>2, <2>3, <2>4, <2>5
<1>3. a * m \in Int /\ x * b \in Int
  BY <1>1
<1> HIDE DEF a, b
<1>4. a * m = x * b
  BY <1>1, <1>2, <1>3, Cancel
<1> QED
  BY <1>1, <1>4 DEF Is, a, b

(* What a fraction says of itself.                                         *)
LEMMA IsItself ==
  ASSUME NEW f \in Fraction
  PROVE  Is(f, f[1], f[2])
BY DEF Is, Fraction

(* A fraction may be extended.                                             *)
LEMMA IsScaled ==
  ASSUME NEW f, NEW x, NEW m, Is(f, x, m), NEW k \in Int, k > 0
  PROVE  Is(f, x * k, m * k)
<1>1. x \in Int /\ m \in Int /\ m > 0
  BY DEF Is
<1>2. x * k \in Int /\ m * k \in Int /\ m * k > 0
  BY <1>1
<1>3. x * (m * k) = (x * k) * m
  BY <1>1
<1> QED
  BY <1>2, <1>3, IsAlso

(* Zero and one over any denominator.                                      *)
LEMMA IsZeroOrOne ==
  ASSUME NEW m \in Int, m > 0
  PROVE  Is(Zero, 0, m) /\ Is(One, m, m)
BY DEF Is, Fraction, Zero, One

(* Three fractions have a common denominator.                              *)
LEMMA CommonDenominator ==
  ASSUME NEW a \in Fraction, NEW b \in Fraction, NEW c \in Fraction
  PROVE  \E x \in Int, y \in Int, z \in Int, m \in Int :
           Is(a, x, m) /\ Is(b, y, m) /\ Is(c, z, m)
<1>1. a[2] \in Int /\ a[2] > 0 /\ b[2] \in Int /\ b[2] > 0
      /\ c[2] \in Int /\ c[2] > 0
      /\ a[1] \in Int /\ b[1] \in Int /\ c[1] \in Int
  BY DEF Fraction
<1> DEFINE d == a[2]
           e == b[2]
           f == c[2]
           bc == e * f
           ac == d * f
           ab == d * e
<1>2. bc \in Int /\ bc > 0 /\ ac \in Int /\ ac > 0 /\ ab \in Int /\ ab > 0
  BY <1>1
<1>3. d * bc = e * ac /\ e * ac = f * ab
  BY <1>1
<1> HIDE DEF bc, ac, ab
<1>4. Is(a, a[1] * bc, d * bc)
  BY <1>2, IsItself, IsScaled
<1>5. Is(b, b[1] * ac, e * ac)
  BY <1>2, IsItself, IsScaled
<1>6. Is(c, c[1] * ab, f * ab)
  BY <1>2, IsItself, IsScaled
<1> HIDE DEF d, e, f
<1>7. /\ a[1] * bc \in Int /\ b[1] * ac \in Int /\ c[1] * ab \in Int
      /\ d * bc \in Int
  BY <1>1, <1>2 DEF d
<1> QED
  BY <1>3, <1>4, <1>5, <1>6, <1>7

(* Lowest keeps the value.                                                 *)
LEMMA IsLowest ==
  ASSUME NEW n \in Int, NEW d \in Int, d > 0
  PROVE  Is(Lowest(n, d), n, d)
<1> DEFINE a == IF n < 0 THEN -n ELSE n
           g == Gcd[<<a, d>>]
<1>1. a \in Nat /\ d \in Nat
  OBVIOUS
<1>2. g \in CommonDivisors(a, d)
  <2> HIDE DEF a
  <2> QED
    BY <1>1, GcdDivides
<1>3. Lowest(n, d) = <<n \div g, d \div g>>
  BY DEF Lowest
<1> HIDE DEF g
<1>4. g \in Nat /\ g > 0
  BY <1>2 DEF CommonDivisors
<1>5. PICK q \in Nat : a = g * q
  BY <1>2 DEF CommonDivisors, Divides
<1>6. PICK r \in Nat : d = g * r
  BY <1>2 DEF CommonDivisors, Divides
<1>7. PICK s \in Int : n = g * s
  <2>1. CASE n < 0
    <3>1. -q \in Int /\ n = g * (-q)
      BY <1>4, <1>5, <2>1
    <3> QED
      BY <3>1
  <2>2. CASE ~(n < 0)
    BY <1>5, <2>2
  <2> QED
    BY <2>1, <2>2
<1>8. n \div g = s /\ d \div g = r
  BY <1>4, <1>6, <1>7, Quotient
<1>9. r > 0
  <2>1. r = 0 => g * r = 0
    BY <1>4
  <2> QED
    BY <1>6, <2>1
<1>10. s * d = n * r
  <2>1. s * (g * r) = (g * s) * r
    BY <1>4
  <2> QED
    BY <2>1, <1>6, <1>7
<1>11. Lowest(n, d) = <<s, r>> /\ <<s, r>> \in Fraction
  BY <1>3, <1>8, <1>9 DEF Fraction
<1> QED
  BY <1>10, <1>11 DEF Is

(* A common factor makes no difference to it.                              *)
LEMMA LowestScaled ==
  ASSUME NEW k \in Nat, k > 0, NEW n \in Int, NEW d \in Int, d > 0
  PROVE  Lowest(k * n, k * d) = Lowest(n, d)
<1> DEFINE a == IF n < 0 THEN -n ELSE n
           g == Gcd[<<a, d>>]
<1>1. a \in Nat /\ d \in Nat
  OBVIOUS
<1>2. g \in CommonDivisors(a, d)
  <2> HIDE DEF a
  <2> QED
    BY <1>1, GcdDivides
<1>3. (IF k * n < 0 THEN -(k * n) ELSE k * n) = k * a
  <2>1. CASE n < 0
    <3>1. k * (-n) > 0 /\ k * (-n) = -(k * n)
      BY <2>1
    <3> QED
      BY <2>1, <3>1
  <2>2. CASE n >= 0
    <3>1. k * n >= 0
      BY <2>2
    <3> QED
      BY <2>2, <3>1
  <2> QED
    BY <2>1, <2>2
<1>4. Lowest(n, d) = <<n \div g, d \div g>>
  BY DEF Lowest
<1>5. Lowest(k * n, k * d) = <<(k * n) \div (k * g), (k * d) \div (k * g)>>
  <2>1. Gcd[<<k * a, k * d>>] = k * g
    <3> HIDE DEF a
    <3> QED
      BY <1>1, GcdScaled
  <2> HIDE DEF a, g
  <2> QED
    BY <1>3, <2>1 DEF Lowest
<1> HIDE DEF g
<1>6. g \in Nat /\ g > 0
  BY <1>2 DEF CommonDivisors
<1>7. PICK q \in Nat : a = g * q
  BY <1>2 DEF CommonDivisors, Divides
<1>8. PICK r \in Nat : d = g * r
  BY <1>2 DEF CommonDivisors, Divides
<1>9. PICK s \in Int : n = g * s
  <2>1. CASE n < 0
    <3>1. -q \in Int /\ n = g * (-q)
      BY <1>6, <1>7, <2>1
    <3> QED
      BY <3>1
  <2>2. CASE ~(n < 0)
    BY <1>7, <2>2
  <2> QED
    BY <2>1, <2>2
<1>10. n \div g = s /\ d \div g = r
  BY <1>6, <1>8, <1>9, Quotient
<1>11. k * n = (k * g) * s /\ k * d = (k * g) * r /\ k * g \in Nat /\ k * g > 0
  BY <1>6, <1>8, <1>9
<1> DEFINE kg == k * g
<1>12. (kg * s) \div kg = s /\ (kg * r) \div kg = r
  <2> HIDE DEF kg
  <2> QED
    BY <1>11, Quotient DEF kg
<1> QED
  BY <1>4, <1>5, <1>10, <1>11, <1>12

(* A whole number is its own lowest form.                                  *)
LEMMA LowestWhole ==
  ASSUME NEW n \in Nat
  PROVE  Lowest(n, 1) = <<n, 1>>
<1>1. Gcd[<<n, 1>>] = Gcd[<<1, n % 1>>] /\ n % 1 = 0 /\ n % 1 \in Nat
  BY GcdStep
<1>2. Gcd[<<1, 0>>] = 1
  BY GcdStep
<1>3. n \div 1 = n /\ 1 \div 1 = 1
  OBVIOUS
<1> QED
  BY <1>1, <1>2, <1>3 DEF Lowest

(* The operators compute what their names say.                             *)
LEMMA IsMinus ==
  ASSUME NEW a, NEW b, NEW x, NEW y, NEW m, Is(a, x, m), Is(b, y, m)
  PROVE  Is(Minus(a, b), x - y, m)
<1>1. /\ a[1] \in Int /\ a[2] \in Int /\ a[2] > 0 /\ x \in Int
      /\ b[1] \in Int /\ b[2] \in Int /\ b[2] > 0 /\ y \in Int
      /\ m \in Int /\ m > 0
      /\ a[1] * m = x * a[2] /\ b[1] * m = y * b[2]
  BY DEF Is, Fraction
<1> DEFINE n == a[1] * b[2] - b[1] * a[2]
           d == a[2] * b[2]
<1>2. n \in Int /\ d \in Int /\ d > 0
  BY <1>1
<1>3. n * m = (x - y) * d
  <2>1. n * m = (a[1] * m) * b[2] - (b[1] * m) * a[2]
    BY <1>1
  <2>2. (x - y) * d = (x * a[2]) * b[2] - (y * b[2]) * a[2]
    BY <1>1
  <2> QED
    BY <1>1, <2>1, <2>2
<1>4. Minus(a, b) = Lowest(n, d)
  BY DEF Minus
<1> HIDE DEF n, d
<1>5. Is(Minus(a, b), n, d)
  BY <1>2, <1>4, IsLowest
<1> QED
  BY <1>1, <1>3, <1>5, IsAlso

(* Numerators and denominators are multiplied.                             *)
LEMMA IsTimes ==
  ASSUME NEW a, NEW b, NEW x, NEW y, NEW m, NEW k, Is(a, x, m), Is(b, y, k)
  PROVE  Is(Times(a, b), x * y, m * k)
<1>1. /\ a[1] \in Int /\ a[2] \in Int /\ a[2] > 0 /\ x \in Int
      /\ b[1] \in Int /\ b[2] \in Int /\ b[2] > 0 /\ y \in Int
      /\ m \in Int /\ m > 0 /\ k \in Int /\ k > 0
      /\ a[1] * m = x * a[2] /\ b[1] * k = y * b[2]
  BY DEF Is, Fraction
<1> DEFINE n == a[1] * b[1]
           d == a[2] * b[2]
<1>2. /\ n \in Int /\ d \in Int /\ d > 0
      /\ x * y \in Int /\ m * k \in Int /\ m * k > 0
  BY <1>1
<1>3. n * (m * k) = (x * y) * d
  <2>1. n * (m * k) = (a[1] * m) * (b[1] * k)
    BY <1>1
  <2>2. (x * y) * d = (x * a[2]) * (y * b[2])
    BY <1>1
  <2> QED
    BY <1>1, <2>1, <2>2
<1>4. Times(a, b) = Lowest(n, d)
  BY DEF Times
<1> HIDE DEF n, d
<1>5. Is(Times(a, b), n, d)
  BY <1>2, <1>4, IsLowest
<1> QED
  BY <1>2, <1>3, <1>5, IsAlso

(* Over a common denominator a quotient is that of the numerators.         *)
LEMMA IsOver ==
  ASSUME NEW a, NEW b, NEW x, NEW y, NEW m, Is(a, x, m), Is(b, y, m), y > 0
  PROVE  Is(Over(a, b), x, y)
<1>1. /\ a[1] \in Int /\ a[2] \in Int /\ a[2] > 0 /\ x \in Int
      /\ b[1] \in Int /\ b[2] \in Int /\ b[2] > 0 /\ y \in Int
      /\ m \in Int /\ m > 0
      /\ a[1] * m = x * a[2] /\ b[1] * m = y * b[2]
  BY DEF Is, Fraction
<1> DEFINE n == a[1] * b[2]
           d == a[2] * b[1]
<1>2. b[1] > 0
  <2>1. y * b[2] > 0
    BY <1>1
  <2>2. b[1] <= 0 => b[1] * m <= 0
    BY <1>1
  <2> QED
    BY <1>1, <2>1, <2>2
<1>3. n \in Int /\ d \in Int /\ d > 0
  BY <1>1, <1>2
<1>4. n * y = x * d
  <2>1. m * (n * y) = (a[1] * m) * (y * b[2])
    BY <1>1
  <2>2. m * (x * d) = (x * a[2]) * (b[1] * m)
    BY <1>1
  <2>3. n * y \in Int /\ x * d \in Int
    BY <1>1
  <2> HIDE DEF n, d
  <2>4. m * (n * y) = m * (x * d)
    BY <1>1, <2>1, <2>2
  <2> QED
    BY <1>1, <2>3, <2>4, Cancel
<1>5. Over(a, b) = Lowest(n, d)
  BY DEF Over
<1> HIDE DEF n, d
<1>6. Is(Over(a, b), n, d)
  BY <1>3, <1>5, IsLowest
<1> QED
  BY <1>1, <1>4, <1>6, IsAlso

(* The numerator changes its sign.                                         *)
LEMMA IsNeg ==
  ASSUME NEW a, NEW x, NEW m, Is(a, x, m)
  PROVE  Is(Neg(a), -x, m)
<1>1. /\ a[1] \in Int /\ a[2] \in Int /\ a[2] > 0 /\ x \in Int
      /\ m \in Int /\ m > 0 /\ a[1] * m = x * a[2]
  BY DEF Is, Fraction
<1>2. (-a[1]) * m = -(a[1] * m) /\ (-x) * a[2] = -(x * a[2])
  BY <1>1
<1>3. Neg(a) \in Fraction
  BY <1>1 DEF Neg, Fraction
<1> QED
  BY <1>1, <1>2, <1>3 DEF Is, Neg

(* The numerator loses its sign.                                           *)
LEMMA IsAbs ==
  ASSUME NEW a, NEW x, NEW m, Is(a, x, m)
  PROVE  Is(Abs(a), AbsInt(x), m)
<1>1. /\ a[1] \in Int /\ a[2] \in Int /\ a[2] > 0 /\ x \in Int
      /\ m \in Int /\ m > 0 /\ a[1] * m = x * a[2]
  BY DEF Is, Fraction
<1>2. a[1] < 0 <=> x < 0
  <2>1. a[1] < 0 <=> a[1] * m < 0
    BY <1>1
  <2>2. x < 0 <=> x * a[2] < 0
    BY <1>1
  <2> QED
    BY <1>1, <2>1, <2>2
<1>3. Is(Neg(a), -x, m)
  BY IsNeg
<1> QED
  BY <1>2, <1>3 DEF Abs, AbsInt

(* Over a common denominator the numerators tell the order.                *)
LEMMA LeqIs ==
  ASSUME NEW a, NEW b, NEW x, NEW y, NEW m, Is(a, x, m), Is(b, y, m)
  PROVE  Leq(a, b) <=> x <= y
<1>1. /\ a[1] \in Int /\ a[2] \in Int /\ a[2] > 0 /\ x \in Int
      /\ b[1] \in Int /\ b[2] \in Int /\ b[2] > 0 /\ y \in Int
      /\ m \in Int /\ m > 0
      /\ a[1] * m = x * a[2] /\ b[1] * m = y * b[2]
  BY DEF Is, Fraction
<1> DEFINE p == a[1] * b[2]
           q == b[1] * a[2]
           d == a[2] * b[2]
<1>2. p \in Int /\ q \in Int /\ d \in Int /\ d > 0
  BY <1>1
<1>3. m * p = d * x
  <2>1. m * p = (a[1] * m) * b[2]
    BY <1>1
  <2>2. d * x = (x * a[2]) * b[2]
    BY <1>1
  <2> QED
    BY <1>1, <2>1, <2>2
<1>4. m * q = d * y
  <2>1. m * q = (b[1] * m) * a[2]
    BY <1>1
  <2>2. d * y = (y * b[2]) * a[2]
    BY <1>1
  <2> QED
    BY <1>1, <2>1, <2>2
<1>5. Leq(a, b) <=> p <= q
  BY DEF Leq
<1> HIDE DEF p, q, d
<1>6. p <= q <=> m * p <= m * q
  BY <1>1, <1>2, Cancel
<1>7. x <= y <=> d * x <= d * y
  BY <1>1, <1>2, Cancel
<1> QED
  BY <1>3, <1>4, <1>5, <1>6, <1>7

(* Over a common denominator the numerators are clamped.                   *)
LEMMA IsClamp ==
  ASSUME NEW a, NEW lo, NEW hi, NEW x, NEW l, NEW h, NEW m,
         Is(a, x, m), Is(lo, l, m), Is(hi, h, m)
  PROVE  Is(Clamp(a, lo, hi), ClampInt(x, l, h), m)
<1>1. x \in Int /\ l \in Int /\ h \in Int
  BY DEF Is
<1>2. Leq(lo, a) <=> l <= x
  BY LeqIs
<1>3. Leq(a, hi) <=> x <= h
  BY LeqIs
<1> QED
  BY <1>1, <1>2, <1>3 DEF Clamp, ClampInt, Lt

-----------------------------------------------------------------------------
(* Finite sets, and sums over them.                                        *)

(* In a set of two values all but one are the same.                        *)
LEMMA OneOfTwo ==
  ASSUME NEW S, IsFiniteSet(S), Cardinality(S) = 2,
         NEW d \in S, NEW a \in S, NEW b \in S, a # d, b # d
  PROVE  a = b
<1>1. IsFiniteSet(S \ {d}) /\ Cardinality(S \ {d}) = 1
  <2>1. /\ IsFiniteSet(S \ {d})
        /\ Cardinality(S \ {d}) = IF d \in S THEN Cardinality(S) - 1
                                  ELSE Cardinality(S)
    BY FS_RemoveElement
  <2> QED
    BY <2>1
<1>2. PICK x : S \ {d} = {x}
  BY <1>1, FS_Singleton
<1> QED
  BY <1>2

(* What holds of the empty set, and of a set with one element more         *)
(* whenever it holds of the set, holds of every finite set.                *)
LEMMA SubsetInduction ==
  ASSUME NEW S, IsFiniteSet(S), NEW Q, {} \in Q,
         \A s \in SUBSET S, x \in S : x \notin s /\ s \in Q => s \cup {x} \in Q
  PROVE  S \in Q
<1> DEFINE N == {n \in Nat : \A s \in SUBSET S : Cardinality(s) = n => s \in Q}
<1>1. ASSUME NEW n \in Nat, \A m \in Nat : m < n => m \in N
      PROVE  n \in N
  <2>1. SUFFICES ASSUME NEW s \in SUBSET S, Cardinality(s) = n
                 PROVE  s \in Q
    OBVIOUS
  <2>2. IsFiniteSet(s)
    BY FS_Subset
  <2>3. CASE s = {}
    BY <2>3
  <2>4. CASE s # {}
    <3>1. PICK x \in s : TRUE
      BY <2>4
    <3>2. Cardinality(s \ {x}) = n - 1 /\ n - 1 \in Nat
      <4>1. Cardinality(s \ {x}) = Cardinality(s) - 1
        BY <2>2, <3>1, FS_RemoveElement
      <4>2. Cardinality(s \ {x}) \in Nat
        BY <2>2, FS_Subset, FS_CardinalityType
      <4> QED
        BY <2>1, <4>1, <4>2
    <3>3. s \ {x} \in Q
      BY <1>1, <3>2
    <3>4. s = (s \ {x}) \cup {x} /\ x \in S /\ x \notin s \ {x}
      BY <3>1
    <3> QED
      BY <3>3, <3>4
  <2> QED
    BY <2>3, <2>4
<1>2. Cardinality(S) \in Nat
  BY FS_CardinalityType
<1>3. Cardinality(S) \in N
  <2>1. N \in SUBSET Nat
    OBVIOUS
  <2> HIDE DEF N
  <2> QED
    BY <1>1, <1>2, <2>1, Induction
<1> QED
  BY <1>3

(* g adds up the terms of f over each set in D, one after the other.       *)
AddsUp(g, f, D) ==
  g = [s \in D |-> IF s = {} THEN 0
                   ELSE f[CHOOSE x \in s : TRUE]
                          + g[s \ {CHOOSE x \in s : TRUE}]]

(* There is such a function.                                               *)
LEMMA SomethingAddsUp ==
  ASSUME NEW S, IsFiniteSet(S), NEW f
  PROVE  \E g : AddsUp(g, f, SUBSET S)
<1> DEFINE Small(n) == {s \in SUBSET S : Cardinality(s) <= n}
           Done == {n \in Nat : \E g : AddsUp(g, f, Small(n))}
           c(s) == CHOOSE x \in s : TRUE
<1>1. ASSUME NEW s \in SUBSET S
      PROVE  /\ Cardinality(s) \in Nat /\ (Cardinality(s) = 0 <=> s = {})
             /\ s # {} => /\ c(s) \in s /\ s \ {c(s)} \in SUBSET S
                          /\ Cardinality(s \ {c(s)}) = Cardinality(s) - 1
  <2>1. IsFiniteSet(s)
    BY FS_Subset
  <2>2. Cardinality(s) \in Nat /\ (Cardinality(s) = 0 <=> s = {})
    BY <2>1, FS_CardinalityType, FS_EmptySet
  <2>3. ASSUME s # {} PROVE c(s) \in s
    BY <2>3
  <2>4. ASSUME s # {} PROVE Cardinality(s \ {c(s)}) = Cardinality(s) - 1
    BY <2>1, <2>3, <2>4, FS_RemoveElement
  <2> QED
    BY <2>2, <2>3, <2>4
<1>2. ASSUME NEW n \in Nat, \A m \in Nat : m < n => m \in Done
      PROVE  n \in Done
  <2>1. CASE n = 0
    <3>1. ASSUME NEW s \in Small(0) PROVE s = {}
      <4>1. Cardinality(s) <= 0 /\ Cardinality(s) \in Nat
        BY <1>1
      <4>2. Cardinality(s) = 0
        BY <4>1
      <4> QED
        BY <1>1, <4>2
    <3> DEFINE g == [s \in Small(0) |-> 0]
    <3>2. AddsUp(g, f, Small(0))
      BY <3>1 DEF AddsUp
    <3> QED
      BY <2>1, <3>2
  <2>2. CASE n # 0
    <3>1. n - 1 \in Nat /\ n - 1 \in Done
      <4>1. n - 1 \in Nat /\ n - 1 < n
        BY <2>2
      <4> HIDE DEF Done
      <4> QED
        BY <1>2, <4>1
    <3>2. PICK h : AddsUp(h, f, Small(n - 1))
      BY <3>1
    <3> DEFINE g == [s \in Small(n) |->
                       IF s = {} THEN 0 ELSE f[c(s)] + h[s \ {c(s)}]]
    <3>3. ASSUME NEW s \in Small(n - 1)
          PROVE  s \in Small(n) /\ g[s] = h[s]
      <4>1. s \in Small(n)
        <5>1. Cardinality(s) <= n - 1 /\ Cardinality(s) \in Nat
          BY <1>1
        <5> QED
          BY <5>1
      <4>2. g[s] = IF s = {} THEN 0 ELSE f[c(s)] + h[s \ {c(s)}]
        BY <4>1
      <4>3. h[s] = IF s = {} THEN 0 ELSE f[c(s)] + h[s \ {c(s)}]
        BY <3>2, <3>3 DEF AddsUp
      <4> QED
        BY <4>1, <4>2, <4>3
    <3>4. ASSUME NEW s \in Small(n), s # {}
          PROVE  s \ {c(s)} \in Small(n - 1)
      BY <1>1, <3>1, <3>4
    <3>5. AddsUp(g, f, Small(n))
      <4>1. \A s \in Small(n) : s # {} => h[s \ {c(s)}] = g[s \ {c(s)}]
        BY <3>3, <3>4
      <4>2. ASSUME NEW s \in Small(n)
            PROVE  g[s] = IF s = {} THEN 0 ELSE f[c(s)] + g[s \ {c(s)}]
        <5>1. g[s] = IF s = {} THEN 0 ELSE f[c(s)] + h[s \ {c(s)}]
          OBVIOUS
        <5> HIDE DEF g, c
        <5> QED
          BY <4>1, <5>1
      <4>3. g = [s \in Small(n) |-> g[s]]
        OBVIOUS
      <4> HIDE DEF g, Small
      <4>4. g = [s \in Small(n) |-> IF s = {} THEN 0
                                    ELSE f[c(s)] + g[s \ {c(s)}]]
        BY <4>2, <4>3
      <4> QED
        BY <4>4 DEF AddsUp
    <3> QED
      BY <3>5
  <2> QED
    BY <2>1, <2>2
<1>3. Cardinality(S) \in Done
  <2>1. Cardinality(S) \in Nat
    BY FS_CardinalityType
  <2> HIDE DEF Done
  <2>2. Done \in SUBSET Nat
    BY DEF Done
  <2> QED
    BY <1>2, <2>1, <2>2, Induction
<1>4. Small(Cardinality(S)) = SUBSET S
  BY FS_Subset
<1> QED
  BY <1>3, <1>4

(* SumFunction is computed by one.                                         *)
LEMMA SumAddsUp ==
  ASSUME NEW S, IsFiniteSet(S), NEW f, DOMAIN f = S
  PROVE  \E g : AddsUp(g, f, SUBSET S) /\ SumFunction(f) = g[S]
<1> DEFINE g == CHOOSE g : AddsUp(g, f, SUBSET S)
<1>1. AddsUp(g, f, SUBSET S)
  BY SomethingAddsUp
<1>2. SumFunction(f) = g[S]
  BY DEF SumFunction, SumFunctionOnSet, FoldFunctionOnSet, MapThenFoldSet,
         AddsUp
<1> QED
  BY <1>1, <1>2

(* g sums up f over each subset of S, in whatever order.                   *)
Sums(g, f, S) ==
  /\ g[{}] = 0
  /\ \A s \in SUBSET S : /\ g[s] \in Nat
                         /\ \A x \in s : g[s] = f[x] + g[s \ {x}]

(* The order in which the terms are taken does not matter.                 *)
LEMMA SumIs ==
  ASSUME NEW S, IsFiniteSet(S), NEW f \in [S -> Nat]
  PROVE  \E g : Sums(g, f, S) /\ SumFunction(f) = g[S]
<1>1. PICK g : AddsUp(g, f, SUBSET S) /\ SumFunction(f) = g[S]
  BY SumAddsUp
<1> DEFINE c(s) == CHOOSE x \in s : TRUE
           Good(s) == g[s] \in Nat /\ \A x \in s : g[s] = f[x] + g[s \ {x}]
           N == {n \in Nat : \A s \in SUBSET S : Cardinality(s) = n => Good(s)}
<1>2. ASSUME NEW s \in SUBSET S
      PROVE  /\ s = {} => g[s] = 0
             /\ s # {} => c(s) \in s /\ g[s] = f[c(s)] + g[s \ {c(s)}]
  <2>1. g[s] = IF s = {} THEN 0 ELSE f[c(s)] + g[s \ {c(s)}]
    BY <1>1 DEF AddsUp
  <2>2. s # {} => c(s) \in s
    OBVIOUS
  <2> HIDE DEF c
  <2> QED
    BY <2>1, <2>2
<1> HIDE DEF c
<1>3. ASSUME NEW s \in SUBSET S, NEW x \in s
      PROVE  /\ s \ {x} \in SUBSET S /\ Cardinality(s) \in Nat
             /\ Cardinality(s \ {x}) \in Nat
             /\ Cardinality(s \ {x}) = Cardinality(s) - 1
  <2>1. IsFiniteSet(s) /\ IsFiniteSet(s \ {x})
    BY FS_Subset
  <2> QED
    BY <2>1, FS_CardinalityType, FS_RemoveElement
<1>4. ASSUME NEW n \in Nat, \A m \in Nat : m < n => m \in N
      PROVE  n \in N
  <2>1. SUFFICES ASSUME NEW s \in SUBSET S, Cardinality(s) = n
                 PROVE  Good(s)
    OBVIOUS
  <2>2. ASSUME NEW x \in s PROVE Good(s \ {x})
    <3>1. Cardinality(s \ {x}) = n - 1 /\ n - 1 \in Nat
      BY <1>3, <2>1
    <3>2. n - 1 < n
      BY <3>1
    <3>3. n - 1 \in N
      BY <1>4, <3>1, <3>2
    <3>4. s \ {x} \in SUBSET S
      OBVIOUS
    <3> HIDE DEF Good
    <3> QED
      BY <3>1, <3>3, <3>4
  <2>3. CASE s = {}
    BY <1>2, <2>3
  <2>4. CASE s # {}
    <3> DEFINE y == c(s)
    <3>1. y \in s /\ g[s] = f[y] + g[s \ {y}] /\ f[y] \in Nat
      BY <1>2, <2>4
    <3> HIDE DEF y
    <3>2. Good(s \ {y})
      BY <2>2, <3>1
    <3>3. ASSUME NEW x \in s, x # y PROVE g[s] = f[x] + g[s \ {x}]
      <4>1. g[s \ {y}] = f[x] + g[(s \ {y}) \ {x}]
        BY <3>2, <3>3
      <4>2. g[s \ {x}] = f[y] + g[(s \ {x}) \ {y}]
        BY <2>2, <3>1, <3>3
      <4>3. (s \ {y}) \ {x} = (s \ {x}) \ {y}
        OBVIOUS
      <4>4. f[x] \in Nat /\ f[y] \in Nat
        BY <3>1
      <4>5. g[(s \ {x}) \ {y}] \in Nat
        <5>1. (s \ {x}) \ {y} \in SUBSET S /\ y \in s \ {x}
          BY <3>1, <3>3
        <5>2. Cardinality((s \ {x}) \ {y}) = n - 2 /\ n - 2 \in Nat
          <6>1. Cardinality(s \ {x}) = n - 1 /\ s \ {x} \in SUBSET S
            BY <1>3, <2>1
          <6>2. /\ Cardinality((s \ {x}) \ {y}) = (n - 1) - 1
                /\ Cardinality((s \ {x}) \ {y}) \in Nat
            BY <1>3, <5>1, <6>1
          <6> QED
            BY <6>2
        <5>3. n - 2 \in N
          BY <1>4, <5>2
        <5> QED
          BY <5>1, <5>2, <5>3
      <4> DEFINE rest == g[(s \ {x}) \ {y}]
      <4>6. g[s \ {y}] = f[x] + rest
        BY <4>1, <4>3
      <4>7. rest \in Nat /\ g[s \ {x}] = f[y] + rest
        BY <4>2, <4>5
      <4> HIDE DEF rest
      <4>8. g[s] = f[y] + (f[x] + rest)
        BY <3>1, <4>6
      <4> QED
        BY <4>4, <4>7, <4>8
    <3>4. g[s] \in Nat
      BY <3>1, <3>2
    <3> HIDE DEF N
    <3> QED
      BY <3>1, <3>3, <3>4
  <2> QED
    BY <2>3, <2>4
<1>5. ASSUME NEW s \in SUBSET S PROVE Good(s)
  <2>1. Cardinality(s) \in Nat
    BY FS_Subset, FS_CardinalityType
  <2>2. Cardinality(s) \in N
    <3>1. N \in SUBSET Nat
      OBVIOUS
    <3> HIDE DEF N
    <3> QED
      BY <1>4, <2>1, <3>1, Induction
  <2> QED
    BY <2>2
<1>6. g[{}] = 0
  BY <1>2
<1> QED
  BY <1>1, <1>5, <1>6 DEF Sums

(* A sum is no less than any term.                                         *)
LEMMA SumBelow ==
  ASSUME NEW S, IsFiniteSet(S), NEW f \in [S -> Nat]
  PROVE  SumFunction(f) \in Nat /\ \A x \in S : f[x] <= SumFunction(f)
<1>1. PICK g : Sums(g, f, S) /\ SumFunction(f) = g[S]
  BY SumIs
<1>2. g[S] \in Nat
  BY <1>1 DEF Sums
<1>3. ASSUME NEW x \in S PROVE f[x] <= g[S]
  <2>1. g[S] = f[x] + g[S \ {x}] /\ g[S \ {x}] \in Nat
    BY <1>1 DEF Sums
  <2> QED
    BY <2>1
<1> QED
  BY <1>1, <1>2, <1>3

(* Bounds of the terms are bounds of the sum.                              *)
LEMMA SumBetween ==
  ASSUME NEW S, IsFiniteSet(S), NEW f \in [S -> Nat], NEW h \in [S -> Nat],
         NEW l \in Int, NEW k \in Int,
         \A x \in S : l * f[x] <= h[x] /\ h[x] <= k * f[x]
  PROVE  /\ l * SumFunction(f) <= SumFunction(h)
         /\ SumFunction(h) <= k * SumFunction(f)
<1>1. PICK g : Sums(g, f, S) /\ SumFunction(f) = g[S]
  BY SumIs
<1>2. PICK i : Sums(i, h, S) /\ SumFunction(h) = i[S]
  BY SumIs
<1> DEFINE Q == {s \in SUBSET S : l * g[s] <= i[s] /\ i[s] <= k * g[s]}
<1>3. {} \in Q
  BY <1>1, <1>2 DEF Sums
<1>4. ASSUME NEW s \in SUBSET S, NEW x \in S, x \notin s, s \in Q
      PROVE  s \cup {x} \in Q
  <2>1. (s \cup {x}) \ {x} = s /\ s \cup {x} \in SUBSET S
    BY <1>4
  <2>2. /\ g[s] \in Nat /\ g[s \cup {x}] = f[x] + g[s]
        /\ i[s] \in Nat /\ i[s \cup {x}] = h[x] + i[s]
    <3>1. \A t \in SUBSET S : /\ g[t] \in Nat /\ i[t] \in Nat
                              /\ \A y \in t : /\ g[t] = f[y] + g[t \ {y}]
                                              /\ i[t] = h[y] + i[t \ {y}]
      BY <1>1, <1>2 DEF Sums
    <3>2. x \in s \cup {x}
      OBVIOUS
    <3>3. /\ g[s \cup {x}] = f[x] + g[(s \cup {x}) \ {x}]
          /\ i[s \cup {x}] = h[x] + i[(s \cup {x}) \ {x}]
      BY <2>1, <3>1, <3>2
    <3> QED
      BY <2>1, <3>1, <3>3
  <2> DEFINE F == f[x]
             H == h[x]
             G == g[s]
             I == i[s]
  <2>3. F \in Nat /\ H \in Nat /\ l * F <= H /\ H <= k * F
    OBVIOUS
  <2>4. G \in Nat /\ I \in Nat /\ l * G <= I /\ I <= k * G
    BY <1>4, <2>2
  <2> HIDE DEF F, H, G, I
  <2>5. l * (F + G) = l * F + l * G /\ k * (F + G) = k * F + k * G
    BY <2>3, <2>4
  <2>6. l * (F + G) <= H + I /\ H + I <= k * (F + G)
    BY <2>3, <2>4, <2>5
  <2> QED
    BY <2>1, <2>2, <2>6 DEF F, H, G, I
<1>5. S \in Q
  <2> HIDE DEF Q
  <2> QED
    BY <1>3, <1>4, SubsetInduction
<1> QED
  BY <1>1, <1>2, <1>5

(* The sum of sums.                                                        *)
LEMMA SumAdds ==
  ASSUME NEW S, IsFiniteSet(S), NEW f \in [S -> Nat], NEW h \in [S -> Nat],
         NEW b \in [S -> Nat], \A x \in S : b[x] = f[x] + h[x]
  PROVE  SumFunction(b) = SumFunction(f) + SumFunction(h)
<1>1. PICK g : Sums(g, f, S) /\ SumFunction(f) = g[S]
  BY SumIs
<1>2. PICK i : Sums(i, h, S) /\ SumFunction(h) = i[S]
  BY SumIs
<1>3. PICK j : Sums(j, b, S) /\ SumFunction(b) = j[S]
  BY SumIs
<1> DEFINE Q == {s \in SUBSET S : j[s] = g[s] + i[s]}
<1>4. {} \in Q
  BY <1>1, <1>2, <1>3 DEF Sums
<1>5. ASSUME NEW s \in SUBSET S, NEW x \in S, x \notin s, s \in Q
      PROVE  s \cup {x} \in Q
  <2>1. (s \cup {x}) \ {x} = s /\ s \cup {x} \in SUBSET S /\ x \in s \cup {x}
    BY <1>5
  <2>2. \A t \in SUBSET S : /\ g[t] \in Nat /\ i[t] \in Nat /\ j[t] \in Nat
                            /\ \A y \in t : /\ g[t] = f[y] + g[t \ {y}]
                                            /\ i[t] = h[y] + i[t \ {y}]
                                            /\ j[t] = b[y] + j[t \ {y}]
    BY <1>1, <1>2, <1>3 DEF Sums
  <2>3. /\ g[s \cup {x}] = f[x] + g[(s \cup {x}) \ {x}]
        /\ i[s \cup {x}] = h[x] + i[(s \cup {x}) \ {x}]
        /\ j[s \cup {x}] = b[x] + j[(s \cup {x}) \ {x}]
    BY <2>1, <2>2
  <2>4. /\ g[s \cup {x}] = f[x] + g[s]
        /\ i[s \cup {x}] = h[x] + i[s]
        /\ j[s \cup {x}] = b[x] + j[s]
    BY <2>1, <2>3
  <2>5. /\ g[s] \in Nat /\ i[s] \in Nat /\ j[s] = g[s] + i[s]
        /\ f[x] \in Nat /\ h[x] \in Nat /\ b[x] = f[x] + h[x]
    BY <1>5, <2>2
  <2>6. j[s \cup {x}] = g[s \cup {x}] + i[s \cup {x}]
    BY <2>4, <2>5
  <2> QED
    BY <2>1, <2>6
<1>6. S \in Q
  <2> HIDE DEF Q
  <2> QED
    BY <1>4, <1>5, SubsetInduction
<1> QED
  BY <1>1, <1>2, <1>3, <1>6

(* The sum does not depend on what the terms are called.                   *)
LEMMA SumRenamed ==
  ASSUME NEW S, IsFiniteSet(S), NEW f \in [S -> Nat], NEW h \in [S -> Nat],
         NEW r \in [S -> S], \A y \in S : \E x \in S : r[x] = y,
         \A x, y \in S : r[x] = r[y] => x = y,
         \A x \in S : f[x] = h[r[x]]
  PROVE  SumFunction(f) = SumFunction(h)
<1>1. PICK g : Sums(g, f, S) /\ SumFunction(f) = g[S]
  BY SumIs
<1>2. PICK i : Sums(i, h, S) /\ SumFunction(h) = i[S]
  BY SumIs
<1> DEFINE im(s) == {r[x] : x \in s}
           Q == {s \in SUBSET S : g[s] = i[im(s)]}
<1>3. {} \in Q
  <2>1. im({}) = {}
    OBVIOUS
  <2> QED
    BY <1>1, <1>2, <2>1 DEF Sums
<1>4. ASSUME NEW s \in SUBSET S, NEW x \in S, x \notin s, s \in Q
      PROVE  s \cup {x} \in Q
  <2>1. (s \cup {x}) \ {x} = s /\ s \cup {x} \in SUBSET S /\ x \in s \cup {x}
    BY <1>4
  <2>2. /\ im(s \cup {x}) \in SUBSET S
        /\ r[x] \in im(s \cup {x})
        /\ im(s \cup {x}) \ {r[x]} = im(s)
    BY <1>4
  <2>3. g[s \cup {x}] = f[x] + g[(s \cup {x}) \ {x}]
    BY <1>1, <2>1 DEF Sums
  <2> HIDE DEF im
  <2>4. i[im(s \cup {x})] = h[r[x]] + i[im(s \cup {x}) \ {r[x]}]
    BY <1>2, <2>2 DEF Sums
  <2>5. g[s] = i[im(s)] /\ f[x] = h[r[x]]
    BY <1>4
  <2>6. g[s \cup {x}] = i[im(s \cup {x})]
    BY <2>1, <2>2, <2>3, <2>4, <2>5
  <2> QED
    BY <2>1, <2>6
<1>5. S \in Q
  <2> HIDE DEF Q
  <2> QED
    BY <1>3, <1>4, SubsetInduction
<1>6. im(S) = S
  OBVIOUS
<1> QED
  BY <1>1, <1>2, <1>5, <1>6

(* Counting is adding ones.                                                *)
LEMMA SumOfOnes ==
  ASSUME NEW S, IsFiniteSet(S), NEW f \in [S -> Nat], \A x \in S : f[x] = 1
  PROVE  SumFunction(f) = Cardinality(S)
<1>1. PICK g : Sums(g, f, S) /\ SumFunction(f) = g[S]
  BY SumIs
<1> DEFINE Q == {s \in SUBSET S : g[s] = Cardinality(s)}
<1>2. {} \in Q
  BY <1>1, FS_EmptySet DEF Sums
<1>3. ASSUME NEW s \in SUBSET S, NEW x \in S, x \notin s, s \in Q
      PROVE  s \cup {x} \in Q
  <2>1. (s \cup {x}) \ {x} = s /\ s \cup {x} \in SUBSET S /\ x \in s \cup {x}
    BY <1>3
  <2>2. g[s \cup {x}] = f[x] + g[(s \cup {x}) \ {x}]
    BY <1>1, <2>1 DEF Sums
  <2>3. IsFiniteSet(s)
    BY FS_Subset
  <2>4. Cardinality(s \cup {x}) = Cardinality(s) + 1 /\ Cardinality(s) \in Nat
    BY <1>3, <2>3, FS_AddElement, FS_CardinalityType
  <2>5. g[s \cup {x}] = 1 + g[s] /\ g[s] = Cardinality(s)
    BY <1>3, <2>1, <2>2
  <2> QED
    BY <2>1, <2>4, <2>5
<1>4. S \in Q
  <2> HIDE DEF Q
  <2> QED
    BY <1>2, <1>3, SubsetInduction
<1> QED
  BY <1>1, <1>4

(* Terms that come in pairs with the same mean have that mean.             *)
LEMMA SumOfPairs ==
  ASSUME NEW S, IsFiniteSet(S), NEW f \in [S -> Nat],
         NEW r \in [S -> S], \A x \in S : r[r[x]] = x,
         NEW c \in Nat, \A x \in S : f[x] + f[r[x]] = 2 * c
  PROVE  SumFunction(f) = Cardinality(S) * c
<1> DEFINE back == [x \in S |-> f[r[x]]]
           both == [x \in S |-> 2 * c]
           ones == [x \in S |-> 1]
           n == Cardinality(S)
<1>1. /\ back \in [S -> Nat] /\ both \in [S -> Nat] /\ ones \in [S -> Nat]
      /\ \A x \in S : back[x] = f[r[x]]
      /\ \A x \in S : both[x] = f[x] + back[x]
      /\ \A x \in S : ones[x] = 1 /\ both[x] = (2 * c) * ones[x]
  OBVIOUS
<1>2. /\ \A y \in S : \E x \in S : r[x] = y
      /\ \A x, y \in S : r[x] = r[y] => x = y
  OBVIOUS
<1> HIDE DEF back, both, ones
<1>3. SumFunction(back) = SumFunction(f)
  BY <1>1, <1>2, SumRenamed
<1>4. SumFunction(both) = SumFunction(f) + SumFunction(back)
  BY <1>1, SumAdds
<1>5. SumFunction(ones) = n /\ n \in Nat
  BY <1>1, SumOfOnes, FS_CardinalityType
<1>6. /\ (2 * c) * SumFunction(ones) <= SumFunction(both)
      /\ SumFunction(both) <= (2 * c) * SumFunction(ones)
  <2>1. 2 * c \in Int
    OBVIOUS
  <2>2. \A x \in S : (2 * c) * ones[x] <= both[x] /\ both[x] <= (2 * c) * ones[x]
    BY <1>1
  <2> QED
    BY <1>1, <2>1, <2>2, SumBetween
<1>7. SumFunction(f) \in Nat
  BY SumBelow
<1> DEFINE a == n * c
<1>8. (2 * c) * n = 2 * a /\ a \in Int
  BY <1>5
<1> HIDE DEF a
<1>9. SumFunction(f) = a
  BY <1>3, <1>4, <1>5, <1>6, <1>7, <1>8
<1> QED
  BY <1>9 DEF a
=============================================================================
