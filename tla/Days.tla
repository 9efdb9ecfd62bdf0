-------------------------------- MODULE Days ---------------------------------
(* Signed days as the unsigned words that the circuit compares and commits to. *)
EXTENDS Integers

CONSTANT Half  \* SIGN_BIAS, half the number of words: 2^31 in the code

ASSUME HalfAssumption == Half \in Nat \ {0}

Day   == (-Half)..(Half - 1)
Word  == 0..(2 * Half - 1)

\* The bytes of a signed number read as an unsigned one, and back.
AsUnsigned(d) == IF d < 0 THEN d + 2 * Half ELSE d
AsSigned(u) == IF u >= Half THEN u - 2 * Half ELSE u

\* u ^ SIGN_BIAS flips the top bit.
FlipTop(u) == IF u >= Half THEN u - Half ELSE u + Half

bias_for_circuit(d) == FlipTop(AsUnsigned(d))
unbias_from_circuit(u) == AsSigned(FlipTop(u))
=============================================================================
