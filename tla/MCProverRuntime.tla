--------------------------- MODULE MCProverRuntime ---------------------------
\* Instances of ProverRuntime for TLC: two or three calls, every entry point and
\* every kind of input chosen in the initial states.
EXTENDS ProverRuntime, TLC

CONSTANTS c1, c2, c3

TwoCalls   == {c1, c2}
ThreeCalls == {c1, c2, c3}
Symmetry   == Permutations(Calls)
=============================================================================
