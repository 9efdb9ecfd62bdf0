---------------------------- MODULE MCAttestation ----------------------------
\* An instance of Attestation for TLC: identifiers of no, one and too many bytes,
\* the byte being one that is also a length.  Dates are only compared with each other,
\* so they are alike.
EXTENDS Attestation, TLC

MCIds == {<<>>, <<1>>, <<1, 1>>}

Symmetry == Permutations(Dobs)
=============================================================================
