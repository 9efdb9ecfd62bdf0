----------------------------- MODULE HostCircuit -----------------------------
(***************************************************************************)
(* What exists twice: the Pedersen commitment, the nullifier and the       *)
(* RedJubjub signature are computed by host code (crypto-commit,           *)
(* crypto-sig-redjubjub) and again by the constraints of the circuit.  An  *)
(* issuer commits to dates and signs, a prover shows the circuit whatever  *)
(* it likes, and the invariants compare the two.                           *)
(*                                                                         *)
(* Hashes that are not Pedersen's are oracles: any value may come out.     *)
(***************************************************************************)
EXTENDS Jubjub

CONSTANTS
  Base,          \* the spending key generator
  Segments,      \* PEDERSEN_HASH_GENERATORS, a sequence of points
  Chunks,        \* PEDERSEN_HASH_CHUNKS_PER_GENERATOR: 63 in the code
  DobBits,       \* bits of a date of birth: 32
  MIN_PEDERSEN_RANDOMNESS_BITS,  \* 128
  MAX_PEDERSEN_RANDOMNESS_BITS,  \* 1096: what the segments leave
  ByteBits,      \* bits of a byte
  MinUnique,     \* unique bytes the randomness must have: 8
  NULLIFIER_DST, \* its bits
  ScalarBits,    \* bits of an encoded scalar: 256, more than the order needs
  Secrets,       \* the scalars issuers draw
  Lengths,       \* bound: lengths of the randomness
  Foreign,       \* points that are offered as keys and come from no issuer
  Torsion        \* what a made-up R may be off by

VARIABLES
  stage,  \* what was done last
  input,  \* to what
  host    \* and what the host code made of it

vars == <<stage, input, host>>

Bit == {0, 1}
Encoding == 0..(2^ScalarBits - 1)

Ok(x) == [ok |-> x]
Err(e) == [error |-> e]
IsOk(result) == DOMAIN result = {"ok"}

------------------------------------------------------------------------------
(* The group as the host's crates compute it. *)

HostAdd(p, q) == LET d == Times(Times(EDWARDS_D, Times(p.u, q.v)), Times(q.u, p.v)) IN
  [u |-> Times(invert[(1 + d) % P], (p.u * q.v + q.u * p.v) % P),
   v |-> Times(invert[(1 - d) % P], (p.v * q.v + p.u * q.u) % P)]
Negated(p) == [u |-> (0 - p.u) % P, v |-> p.v]
HostMul(k, p) ==
  LET f[n \in 0..k] == IF n = 0 THEN Neutral
                       ELSE LET h == f[n \div 2]  d == HostAdd(h, h)
                            IN IF n % 2 = 1 THEN HostAdd(d, p) ELSE d
  IN f[k]
Subgroup == {p \in Curve : HostMul(Order, p) = Neutral}

\* The generator generates the subgroup, an encoded scalar has room for every
\* reduced one, and what is offered from outside are points of the curve.
ASSUME KeyAssumption ==
  /\ Base \in Subgroup \ {Neutral}
  /\ ScalarBits \in Nat /\ Order <= 2^ScalarBits
  /\ Secrets \subseteq 0..(Order - 1)
  /\ Foreign \subseteq Curve /\ Torsion \subseteq Curve

ToBytes(p) == Append(BitsOf(p.v, FieldBits), p.u % 2)

------------------------------------------------------------------------------
(* The Pedersen hash: windows of three bits, segments of windows. *)

NoteCommitment == <<1, 1, 1, 1, 1, 1>>
MerkleTree0    == <<0, 0, 0, 0, 0, 0>>

\* Bits past the end are false.
Windows(bits) == [w \in 1..((Len(bits) + 2) \div 3) |->
  [i \in 1..3 |-> IF 3 * (w - 1) + i <= Len(bits) THEN bits[3 * (w - 1) + i] ELSE 0]]
SegmentCount(windows) == (Len(windows) + Chunks - 1) \div Chunks
SegmentOf(windows, s) == SubSeq(windows, Chunks * (s - 1) + 1,
  IF Chunks * s < Len(windows) THEN Chunks * s ELSE Len(windows))

\* The host: the sum of (1 + b0 + 2 b1)(-1)^b2 16^(w - 1) times the generator; from
\* one window to the next it doubles four times.
Weight(w) == 2^(4 * (w - 1))
Encoded(w) == (1 + w[1] + 2 * w[2]) * (1 - 2 * w[3])
SegmentSum(seg) ==
  LET sum[i \in 0..Len(seg)] == IF i = 0 THEN 0 ELSE sum[i - 1] + Encoded(seg[i]) * Weight(i)
  IN sum[Len(seg)]
HostPedersen(person, bits) ==
  LET windows == Windows(person \o bits)
      sum[s \in 0..SegmentCount(windows)] ==
        IF s = 0 THEN Neutral
        ELSE HostAdd(sum[s - 1], HostMul(SegmentSum(SegmentOf(windows, s)) % Order, Segments[s]))
  IN sum[SegmentCount(windows)]

\* The generators generate the subgroup, there are enough for what is hashed, and
\* no segment adds up to a multiple of Order: with 63 windows it stays below.
ASSUME PedersenAssumption ==
  /\ Segments \in Seq(Subgroup \ {Neutral}) /\ Chunks \in Nat \ {0}
  /\ DobBits \in Nat /\ MAX_PEDERSEN_RANDOMNESS_BITS \in Nat /\ Lengths \subseteq Nat
  /\ 6 + DobBits + MAX_PEDERSEN_RANDOMNESS_BITS <= 3 * (Chunks * Len(Segments))
  /\ NULLIFIER_DST \in Seq(Bit)
  /\ 6 + Len(NULLIFIER_DST) + FieldBits + 1 <= 3 * (Chunks * Len(Segments))
  /\ \A n \in 1..Chunks : \A seg \in [1..n -> [1..3 -> Bit]] : SegmentSum(seg) % Order # 0

\* to_montgomery_coords of a point that is neither neutral nor of order two.
to_montgomery_coords(g) ==
  LET x == Times((1 + g.v) % P, invert[(1 - g.v) % P])
  IN [x |-> x, y |-> Times(Times(x, invert[g.u]), MONTGOMERY_SCALE)]

\* g, 2g, 3g, 4g for every window, four doublings apart.
generate_pedersen_circuit_generators ==
  [s \in 1..Len(Segments) |-> [w \in 1..Chunks |-> [m \in 1..4 |->
    to_montgomery_coords(HostMul(m * Weight(w), Segments[s]))]]]

\* lookup3_xy_with_conditional_negation of bellman.
Lookup(bits, table) == LET g == table[1 + bits[1] + 2 * bits[2]] IN
  [x |-> g.x, y |-> IF bits[3] = 1 THEN (0 - g.y) % P ELSE g.y]

MontgomeryAdd(p, q) == {LET x == (l * l - MONTGOMERY_A - p.x - q.x) % P IN
  [x |-> x, y |-> (Times(l, p.x - x) - p.y) % P] : l \in Solve(q.x - p.x, q.y - p.y)}

into_edwards(p) == {[u |-> u, v |-> v] :
  u \in Solve(p.y, Times(MONTGOMERY_SCALE, p.x)), v \in Solve(p.x + 1, p.x - 1)}

\* The results of one segment, then of the whole hash; none without a generator.
SegmentResults(windows, s) ==
  LET seg == SegmentOf(windows, s)
      At(i) == Lookup(seg[i], generate_pedersen_circuit_generators[s][i])
      acc[i \in 1..Len(seg)] ==
        IF i = 1 THEN {At(1)} ELSE UNION {MontgomeryAdd(At(i), p) : p \in acc[i - 1]}
  IN UNION {into_edwards(p) : p \in acc[Len(seg)]}

pedersen_hash(person, bits) ==
  LET windows == Windows(person \o bits)
      acc[s \in 1..SegmentCount(windows)] ==
        IF s > Len(Segments) THEN {}
        ELSE IF s = 1 THEN SegmentResults(windows, 1)
        ELSE UNION {Add(p, q) : p \in SegmentResults(windows, s), q \in acc[s - 1]}
  IN acc[SegmentCount(windows)]

------------------------------------------------------------------------------
(* Commitment and nullifier, on the host and in the circuit. *)

BytesOf(bits) == [i \in 1..((Len(bits) + ByteBits - 1) \div ByteBits) |->
  ValueOf(SubSeq(bits, ByteBits * (i - 1) + 1,
    IF ByteBits * i < Len(bits) THEN ByteBits * i ELSE Len(bits)))]

validate_commitment_randomness(r) ==
  Cardinality({BytesOf(r)[i] : i \in DOMAIN BytesOf(r)}) >= MinUnique

pedersen_commit_dob_validated(dob, r) ==
  IF /\ validate_commitment_randomness(r)
     /\ Len(r) >= MIN_PEDERSEN_RANDOMNESS_BITS
     /\ Len(r) <= MAX_PEDERSEN_RANDOMNESS_BITS
  THEN Ok(ToBytes(HostPedersen(NoteCommitment, BitsOf(dob, DobBits) \o r)))
  ELSE Err("InvalidInput")

HostNullifier(c) == ToBytes(HostPedersen(MerkleTree0, NULLIFIER_DST \o c))

CircuitCommit(dobBits, r) ==
  UNION {repr(p) : p \in pedersen_hash(NoteCommitment, dobBits \o r)}

\* Broken: the personalization of the commitment.
NullifierAsCommitment(c) ==
  UNION {repr(p) : p \in pedersen_hash(NoteCommitment, NULLIFIER_DST \o c)}

CircuitNullifier(c) ==
  UNION {repr(p) : p \in pedersen_hash(MerkleTree0, NULLIFIER_DST \o c)}

------------------------------------------------------------------------------
(* Signatures, on the host and in the circuit. *)

\* Broken: the zero scalar is a key.
KeyFromAnyBytes(b) == b < Order

SigningKeyFromBytes(b) == b < Order /\ b # 0
VerificationKeyParses(vk) == vk \in Subgroup /\ vk # Neutral
SignatureParses(r, s) == r \in Subgroup /\ r # Neutral /\ s < Order /\ s # 0

\* from_bytes_wide.
Reduced(hash) == hash % Order

\* Broken: s is not reduced.
SignUnreduced(sk, nonce, hash) ==
  IF ~ SigningKeyFromBytes(sk) THEN Err("InvalidSigningKeyBytes")
  ELSE IF nonce = 0 THEN Err("InvalidNonce")
  ELSE Ok([r |-> HostMul(nonce, Base), s |-> nonce + Reduced(hash) * sk])

sign_cred_v2(sk, nonce, hash) ==
  IF ~ SigningKeyFromBytes(sk) THEN Err("InvalidSigningKeyBytes")
  ELSE IF nonce = 0 THEN Err("InvalidNonce")
  ELSE Ok([r |-> HostMul(nonce, Base), s |-> (nonce + Reduced(hash) * sk) % Order])

verify_cred_v2(vk, r, s, hash) ==
  /\ VerificationKeyParses(vk) /\ SignatureParses(r, s)
  /\ HostMul(s, Base) = HostAdd(r, HostMul(Reduced(hash), vk))

\* A point a prover brings: on the curve, and not of small order.
alloc_vk(vk) == OnCurve(vk.u, vk.v) /\ assert_not_small_order(vk)
alloc_sig(r) == OnCurve(r.u, r.v) /\ assert_not_small_order(r)

\* S * G = R + c * vk, for scalars that are bits: nobody reduces them.
EquationHolds(vk, r, s, hash) ==
  \E x \in mul(Base, BitsOf(s, ScalarBits)), y \in mul(vk, BitsOf(hash, ScalarBits)) :
    x \in Add(r, y)

\* Broken: R may have a small order.
CircuitVerifiesAnyR(vk, r, s, hash) ==
  alloc_vk(vk) /\ OnCurve(r.u, r.v) /\ EquationHolds(vk, r, s, hash)

CircuitVerifies(vk, r, s, hash) ==
  alloc_vk(vk) /\ alloc_sig(r) /\ EquationHolds(vk, r, s, hash)

------------------------------------------------------------------------------

Init == stage = "start" /\ input = <<>> /\ host = Ok(<<>>)

Done(what, arguments, result) ==
  stage' = what /\ input' = arguments /\ host' = result

Commit == stage = "start" /\ \E dob \in 0..(2^DobBits - 1), n \in Lengths : \E r \in [1..n -> Bit] :
  Done("committed", [dob |-> dob, r |-> r], pedersen_commit_dob_validated(dob, r))

Nullify == stage = "committed" /\ IsOk(host) /\
  Done("nullified", host.ok, Ok(HostNullifier(host.ok)))

\* generate_keypair: the random scalar may be zero.
GenerateKeypair == stage = "start" /\ \E sk \in Secrets :
  Done("keyed", sk, Ok(HostMul(sk, Base)))

\* The nonce and the challenge are hashes.
Sign == stage = "keyed" /\ \E nonce \in 0..(Order - 1), hash \in Encoding :
  Done("signed", [vk |-> host.ok, hash |-> hash], sign_cred_v2(input, nonce, hash))

\* A prover makes up R and s, for an issuer's key or for a point it brings.
Claim == stage \in {"start", "keyed"} /\
  \E vk \in (IF stage = "keyed" THEN {host.ok} ELSE Foreign),
     s, hash \in Encoding, t \in Torsion :
  LET r == HostAdd(HostMul(s, Base), Negated(HostMul(hash, vk)))
  IN Done("claimed", [vk |-> vk, s |-> s, hash |-> hash, r |-> HostAdd(r, t)], Ok(<<>>))

\* There is nothing more to compute.
Finished == UNCHANGED vars /\
  (stage \in {"nullified", "signed", "claimed"} \/ (stage = "committed" /\ ~ IsOk(host)))

Next == Commit \/ Nullify \/ GenerateKeypair \/ Sign \/ Claim \/ Finished

Spec == Init /\ [][Next]_vars

------------------------------------------------------------------------------

Bytes == [1..(FieldBits + 1) -> Bit]

\* Types: encodings are bits of one length, points lie on the curve, scalars
\* are reduced.
TypeOK ==
  \/ stage = "start"
  \/ stage = "committed" /\ (IsOk(host) => host.ok \in Bytes)
  \/ stage = "nullified" /\ input \in Bytes /\ host.ok \in Bytes
  \/ stage = "keyed" /\ input \in 0..(Order - 1) /\ OnCurve(host.ok.u, host.ok.v)
  \/ stage = "signed" /\ (IsOk(host) => host.ok.s \in 0..(Order - 1))
  \/ stage = "claimed" /\ OnCurve(input.r.u, input.r.v)

\* Every commitment the host makes opens in the circuit, up to the last bit of
\* randomness the generators can take, and to that one value: no window, no
\* segment and no encoding leaves the prover a second commitment.
CommitmentAgrees == stage = "committed" /\ IsOk(host) =>
  CircuitCommit(BitsOf(input.dob, DobBits), input.r) = {host.ok}

\* The circuit derives from a commitment the one nullifier the host derives.
NullifierAgrees == stage = "nullified" => CircuitNullifier(input) = {host.ok}

\* Whatever a key that can sign has signed is accepted by the circuit and, but
\* for s = 0, by the host: the challenge is reduced on the host and not in the circuit.
SignedIsAccepted == stage = "signed" /\ IsOk(host) =>
  /\ CircuitVerifies(input.vk, host.ok.r, host.ok.s, input.hash)
  /\ host.ok.s # 0 => verify_cred_v2(input.vk, host.ok.r, host.ok.s, input.hash)

\* Under a key the host would load and for s other than 0 modulo the order, which the
\* host refuses and the circuit does not, the circuit accepts exactly what the host
\* accepts with s reduced: R is driven into the subgroup without being checked.
CircuitAgreesOnSignatures ==
  stage = "claimed" /\ VerificationKeyParses(input.vk) /\ Reduced(input.s) # 0 =>
    ( CircuitVerifies(input.vk, input.r, input.s, input.hash) <=>
      verify_cred_v2(input.vk, input.r, Reduced(input.s), input.hash) )

\* The bits of a scalar leave no freedom in the product, for any point of the
\* curve: on points of even order as well, and beyond the order.
MulIsForced == stage = "claimed" =>
  mul(input.vk, BitsOf(input.hash, ScalarBits)) = {HostMul(input.hash, input.vk)}

\* Where commitments, nullifiers, keys, signatures and claims come from: what the
\* other invariants rest on.
Origins ==
  /\ stage \in {"start", "committed", "nullified", "keyed", "signed", "claimed"}
  /\ stage = "committed" => /\ input.dob \in 0..(2^DobBits - 1) /\ input.r \in Seq(Bit)
                            /\ host = pedersen_commit_dob_validated(input.dob, input.r)
  /\ stage = "nullified" => input \in Bytes /\ host = Ok(HostNullifier(input))
  /\ stage = "keyed" => input \in 0..(Order - 1) /\ host = Ok(HostMul(input, Base))
  /\ stage = "signed" => input.hash \in Encoding /\ (IsOk(host) =>
       \E sk \in 1..(Order - 1) : /\ input.vk = HostMul(sk, Base)
         /\ \E nonce \in 1..(Order - 1) : /\ host.ok.r = HostMul(nonce, Base)
              /\ host.ok.s = (nonce + Reduced(input.hash) * sk) % Order)
  /\ stage = "claimed" => /\ input.vk \in Curve /\ input.r \in Curve
                          /\ input.s \in Encoding /\ input.hash \in Encoding

\* The inductive invariant.
IInv == TypeOK /\ Origins
=============================================================================
