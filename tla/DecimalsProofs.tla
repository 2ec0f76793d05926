--------------------------- MODULE DecimalsProofs ---------------------------
(***************************************************************************)
(* What the fixed-point operations return and how far truncation takes     *)
(* them from the exact values, for every number of digits.                 *)
(***************************************************************************)
EXTENDS Decimals, TLAPS

\* Integer division truncates: the quotient times the divisor is at most the
\* dividend and misses it by less than the divisor.
LEMMA DivBounds ==
    ASSUME NEW n \in Nat, NEW d \in Nat \ {0}
    PROVE  /\ n \div d \in Nat
           /\ (n \div d) * d <= n
           /\ n < (n \div d) * d + d
OBVIOUS

\* 1.0 is a positive number of atomics.
LEMMA OneType == ONE \in Nat \ {0}
BY FracAssumption DEF ONE

\* Products of naturals are naturals, and grow with their factors.
LEMMA ProductNat ==
    ASSUME NEW a \in Nat, NEW b \in Nat
    PROVE  a * b \in Nat
OBVIOUS

\* A product of naturals grows with its first factor.
LEMMA ProductMonotone ==
    ASSUME NEW a \in Nat, NEW b \in Nat, NEW c \in Nat, a <= b
    PROVE  a * c <= b * c
OBVIOUS

\* Decimal::from_ratio with a positive divisor is a Decimal.
LEMMA FromRatioType ==
    ASSUME NEW n \in Nat, NEW d \in Nat \ {0}
    PROVE  from_ratio(n, d) \in Nat
<1>1. n * ONE \in Nat
  BY OneType, ProductNat
<1> QED BY <1>1, DivBounds DEF from_ratio

\* A rate times what it was divided by never exceeds what was shared out.
LEMMA FromRatioBound ==
    ASSUME NEW n \in Nat, NEW d \in Nat \ {0}
    PROVE  from_ratio(n, d) * d <= n * ONE
<1>1. n * ONE \in Nat
  BY OneType, ProductNat
<1> QED BY <1>1, DivBounds DEF from_ratio

\* What from_ratio leaves unshared is less than one atomic per unit of the
\* divisor.
LEMMA FromRatioRest ==
    ASSUME NEW n \in Nat, NEW d \in Nat \ {0}
    PROVE  n * ONE < from_ratio(n, d) * d + d
<1>1. n * ONE \in Nat
  BY OneType, ProductNat
<1> QED BY <1>1, DivBounds DEF from_ratio

\* Uint128 * Decimal is a natural number.
LEMMA MulType ==
    ASSUME NEW a \in Nat, NEW dec \in Nat
    PROVE  mul(a, dec) \in Nat
<1>1. a * dec \in Nat
  BY ProductNat
<1> QED BY <1>1, OneType, DivBounds DEF mul

\* Uint128 * Decimal truncates: it never exceeds the exact product.
LEMMA MulBound ==
    ASSUME NEW a \in Nat, NEW dec \in Nat
    PROVE  mul(a, dec) * ONE <= a * dec
<1>1. a * dec \in Nat
  BY ProductNat
<1> QED BY <1>1, OneType, DivBounds DEF mul

\* SignedInt::from_subtraction yields a natural distance.
LEMMA SubtractionType ==
    ASSUME NEW a \in Nat, NEW b \in Nat
    PROVE  from_subtraction(a, b).abs \in Nat
BY DEF from_subtraction

\* decimal_division is a natural number when its divisor, cut to half
\* the digits, is not zero.
LEMMA DecimalDivisionType ==
    ASSUME NEW a \in Nat, NEW b \in Nat, mul(FRAC, b) # 0
    PROVE  decimal_division(a, b) \in Nat
<1>1. mul(FRAC, b) \in Nat \ {0}
  BY FracAssumption, MulType
<1>2. from_ratio(a, mul(FRAC, b)) \in Nat
  BY <1>1, FromRatioType
<1> QED BY <1>2, FracAssumption, MulType DEF decimal_division

\* decimal_division is the quotient by a divisor cut to FRAC digits, rounded
\* down.
LEMMA DecimalDivisionBound ==
    ASSUME NEW a \in Nat, NEW b \in Nat, mul(FRAC, b) # 0
    PROVE  decimal_division(a, b) * mul(FRAC, b) <= a * FRAC
<1> DEFINE d == mul(FRAC, b)
           q == from_ratio(a, d)
           m == mul(FRAC, q)
<1>1. d \in Nat \ {0} /\ FRAC \in Nat /\ ONE \in Nat \ {0}
  BY FracAssumption, MulType, OneType
<1>2. decimal_division(a, b) = m
  BY DEF decimal_division
<1> HIDE DEF d
<1>3. q \in Nat /\ q * d <= a * ONE
  BY <1>1, FromRatioType, FromRatioBound
<1> HIDE DEF q
<1>4. m \in Nat /\ m * ONE <= FRAC * q
  BY <1>1, <1>3, MulType, MulBound
<1> HIDE DEF m
<1>5. (m * ONE) * d <= (FRAC * q) * d
  BY <1>1, <1>3, <1>4, ProductMonotone, ProductNat
<1>6. (q * d) * FRAC <= (a * ONE) * FRAC
  BY <1>1, <1>3, ProductMonotone, ProductNat
<1>7. \A x, y, z \in Nat : (x * y) * z = (y * z) * x /\ (x * y) * z = (x * z) * y
  OBVIOUS
<1>8. /\ (m * ONE) * d = (m * d) * ONE
      /\ (FRAC * q) * d = (q * d) * FRAC
      /\ (a * ONE) * FRAC = (a * FRAC) * ONE
  BY <1>1, <1>3, <1>4, <1>7
<1>9. /\ (m * d) * ONE \in Nat /\ (q * d) * FRAC \in Nat
      /\ (a * FRAC) * ONE \in Nat /\ m * d \in Nat /\ a * FRAC \in Nat
  BY <1>1, <1>3, <1>4, ProductNat
<1>10. (m * d) * ONE <= (a * FRAC) * ONE
  BY <1>5, <1>6, <1>8, <1>9
<1>11. \A x, y \in Nat, k \in Nat \ {0} : x * k <= y * k => x <= y
  OBVIOUS
<1>12. m * d <= a * FRAC
  BY <1>1, <1>9, <1>10, <1>11
<1> QED BY <1>2, <1>12 DEF d

=============================================================================
