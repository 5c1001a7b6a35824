----------------------------- MODULE Fractions -----------------------------
(***************************************************************************)
(* Exact arithmetic for what the code computes in float and double.  A     *)
(* fraction is a pair <<n, d>> with d > 0, in lowest terms after each      *)
(* operation, so that numbers stay small and equal ones are equal.         *)
(***************************************************************************)
EXTENDS Integers

Fraction == {f \in Int \X Int : f[2] > 0}

Zero == <<0, 1>>
One == <<1, 1>>

Gcd[p \in Nat \X Nat] ==
  IF p[2] = 0 THEN p[1] ELSE Gcd[<<p[2], p[1] % p[2]>>]

Lowest(n, d) ==
  LET g == Gcd[<<IF n < 0 THEN -n ELSE n, d>>] IN <<n \div g, d \div g>>

Leq(a, b) == a[1] * b[2] <= b[1] * a[2]
Lt(a, b) == ~Leq(b, a)
Neg(a) == <<-a[1], a[2]>>
Minus(a, b) == Lowest(a[1] * b[2] - b[1] * a[2], a[2] * b[2])
Times(a, b) == Lowest(a[1] * b[1], a[2] * b[2])
Over(a, b) == Lowest(a[1] * b[2], a[2] * b[1])     \* for b > 0
Abs(a) == IF a[1] < 0 THEN Neg(a) ELSE a

(* std::clamp(a, lo, hi)                                                   *)
Clamp(a, lo, hi) == IF Lt(a, lo) THEN lo ELSE IF Lt(hi, a) THEN hi ELSE a
=============================================================================
