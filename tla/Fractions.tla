-------------------------------- MODULE Fractions --------------------------------
(***************************************************************************)
(* Exact fractions in lowest terms, for the decimals of the calculators:   *)
(* a fraction is <<numerator, denominator>> with a positive denominator.   *)
(***************************************************************************)
EXTENDS Integers, FiniteSetsExt

(* The greatest number that divides both. *)
Divides(k, n) == n % k = 0
Divisor(n, d) == Max({k \in 1 .. d : Divides(k, n) /\ Divides(k, d)})

(* The fraction of n and d, where d is not zero. *)
Frac(n, d) ==
  LET m == IF d < 0 THEN -n ELSE n
      e == IF d < 0 THEN -d ELSE d
      unit == Divisor(m, e)
  IN IF n = 0 THEN <<0, 1>> ELSE <<m \div unit, e \div unit>>

Whole(n) == <<n, 1>>
Zero == Whole(0)
One == Whole(1)

Plus(a, b) == Frac(a[1] * b[2] + b[1] * a[2], a[2] * b[2])
Minus(a, b) == Plus(a, <<-b[1], b[2]>>)
Times(a, b) == Frac(a[1] * b[1], a[2] * b[2])
Over(a, b) == Frac(a[1] * b[2], a[2] * b[1])

AtMost(a, b) == a[1] * b[2] <= b[1] * a[2]
Same(a, b) == AtMost(a, b) /\ AtMost(b, a)
Positive(a) == a[1] > 0
Least(a, b) == IF AtMost(a, b) THEN a ELSE b
Most(a, b) == IF AtMost(a, b) THEN b ELSE a

(* The share that a part is of a whole, none of nothing. *)
Share(part, whole) == IF Positive(whole) THEN Over(part, whole) ELSE Zero
==================================================================================
