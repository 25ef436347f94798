------------------------------- MODULE Euclid -------------------------------
(***************************************************************************)
(* gcd_i128 (contracts/settlement/src/lib.rs), the loop that reduces an    *)
(* order's price ratio to the lot it trades in.  Its arguments are always  *)
(* the two amounts of an order, both positive.                             *)
(***************************************************************************)
EXTENDS Matching

CONSTANT Amount
ASSUME AmountAssumption == Amount \subseteq Nat \ {0}

VARIABLES
  a0, b0,   \* the arguments
  a, b      \* the loop's variables

euclidVars == <<a0, b0, a, b>>

EuclidInit == a0 \in Amount /\ b0 \in Amount /\ a = a0 /\ b = b0

\* Variant: the remainder is taken the other way round.
Iterate_Swapped == b # 0 /\ a' = b /\ b' = b % a /\ UNCHANGED <<a0, b0>>

\* One iteration of while b != 0.
Iterate == b # 0 /\ a' = b /\ b' = a % b /\ UNCHANGED <<a0, b0>>

EuclidSpec == EuclidInit /\ [][Iterate]_euclidVars

\* What gcd_i128 returns is the greatest common divisor of its arguments, the
\* value Gcd that the lots are defined with.
GcdResult == b = 0 => a = Gcd(a0, b0)
=============================================================================
