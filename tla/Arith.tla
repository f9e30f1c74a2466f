------------------------------- MODULE Arith -------------------------------
(***************************************************************************)
(* The u64 arithmetic of the runtime.  The width of a u64 is the constant  *)
(* MaxU64, so that a small instance reaches the saturating additions.      *)
(***************************************************************************)
EXTENDS Integers

CONSTANT MaxU64 \* u64::MAX

ASSUME U64Assumption == MaxU64 \in Nat \ {0}

U64 == 0 .. MaxU64

\* u64::saturating_add, saturating_mul, saturating_sub, std::cmp::min, max and the cast from u128.
saturate(n) == IF n \in U64 THEN n ELSE MaxU64

saturating_add(a, b) == saturate(a + b)

saturating_mul(a, b) == saturate(a * b)

saturating_sub(a, b) == IF a >= b THEN a - b ELSE 0

min(a, b) == IF a <= b THEN a ELSE b

max(a, b) == IF a <= b THEN b ELSE a

as_u64(n) == n % (MaxU64 + 1)

=============================================================================
