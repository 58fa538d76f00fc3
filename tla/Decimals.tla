------------------------------ MODULE Decimals ------------------------------
(***************************************************************************)
(* Decimal numbers as Python's decimal module computes with them: every    *)
(* result is rounded to Precision significant digits, halves to the even   *)
(* digit.  [c, e] is c * 10^e, and never negative.  The code uses the      *)
(* default precision of 28 digits; whatever depends on "some quotients are *)
(* not exact" happens with 4 as well.                                      *)
(***************************************************************************)
EXTENDS Integers

CONSTANT Precision

ASSUME PrecisionAssumption == Precision \in Nat \ {0}

Int2Dec(n) == [c |-> n, e |-> 0]

Least(m, n) == IF m <= n THEN m ELSE n

\* The powers of ten.
Ten[k \in Nat] == IF k = 0 THEN 1 ELSE 10 * Ten[k - 1]

\* How many digits n has.
Size[n \in Nat] == IF n = 0 THEN 0 ELSE 1 + Size[n \div 10]

\* n * 10^e, and a little more if there is a remainder, as a Decimal.
Rounded(n, e, remainder) ==
    LET d == IF Size[n] > Precision THEN Size[n] - Precision ELSE 0
        q == n \div Ten[d]
        r == n % Ten[d]
        up == \/ 2 * r > Ten[d]
              \/ 2 * r = Ten[d] /\ d > 0 /\ (remainder \/ q % 2 = 1)
    IN  IF n = 0 THEN Int2Dec(0)
        ELSE [c |-> IF up THEN q + 1 ELSE q, e |-> e + d]

Times(x, y) == Rounded(x.c * y.c, x.e + y.e, FALSE)

\* The quotient is computed with one digit too many.
Over(x, y) ==
    LET k == IF Precision + 1 + Size[y.c] > Size[x.c]
             THEN Precision + 1 + Size[y.c] - Size[x.c] ELSE 0
        n == x.c * Ten[k]
    IN  Rounded(n \div y.c, x.e - y.e - k, n % y.c # 0)

\* The coefficient of x at exponent e.
At(x, e) == x.c * Ten[x.e - e]

Plus(x, y) == LET e == Least(x.e, y.e)
              IN  Rounded(At(x, e) + At(y, e), e, FALSE)

AtMost(x, y) == LET e == Least(x.e, y.e) IN At(x, e) <= At(y, e)

Smaller(x, y) == IF AtMost(x, y) THEN x ELSE y
Larger(x, y) == IF AtMost(x, y) THEN y ELSE x

\* to_integral_value(rounding=ROUND_HALF_UP)
HalfUp(x) == IF x.e >= 0 THEN x.c * Ten[x.e]
             ELSE (x.c + 5 * Ten[-x.e - 1]) \div Ten[-x.e]
=============================================================================
