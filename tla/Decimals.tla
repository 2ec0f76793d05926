------------------------------ MODULE Decimals ------------------------------
(***************************************************************************)
(* The fixed-point arithmetic the contracts compute with.  A Decimal is    *)
(* the natural number of its atomics: ONE atomics make 1.0.  In the code   *)
(* FRAC is 10^9 and ONE is 10^18 (cosmwasm_std::Decimal has 18 digits and  *)
(* DECIMAL_FRACTIONAL of math.rs is exactly its square root); FRAC is a    *)
(* parameter here so that TLC can compute with few digits, and the proofs  *)
(* hold for every number of digits.  Every conversion truncates, as the    *)
(* code's integer divisions do.                                            *)
(***************************************************************************)
EXTENDS Integers

CONSTANT FRAC

ASSUME FracAssumption == FRAC \in Nat \ {0}

ONE == FRAC * FRAC

\* Decimal::from_ratio(n, d); the code panics when d = 0, so every use is
\* guarded by d # 0.
from_ratio(n, d) == (n * ONE) \div d

\* Uint128 * Decimal.
mul(a, dec) == (a * dec) \div ONE

\* SignedInt::from_subtraction: the distance of a and b and its sign.
from_subtraction(a, b) ==
    [abs |-> IF a >= b THEN a - b ELSE b - a, neg |-> a < b]

\* decimal_division(a, b): b is first cut to FRAC digits, so the result can
\* exceed a / b; division by zero when b has fewer than FRAC's digits.
decimal_division(a, b) == mul(FRAC, from_ratio(a, mul(FRAC, b)))

\* Uint128::min.
min(a, b) == IF a <= b THEN a ELSE b

=============================================================================
