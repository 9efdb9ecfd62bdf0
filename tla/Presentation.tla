---------------------------- MODULE Presentation -----------------------------
(***************************************************************************)
(* A credential from issuance to acceptance: issuers commit to dates of    *)
(* birth and sign, relying parties open sessions, holders prove with       *)
(* prove_age_snark_auto and anybody else with any witness, and relying     *)
(* parties verify any proof in any session, in any order and repeatedly.   *)
(* Commitment and nullifier are collision free up to the padding of the    *)
(* Pedersen windows, signatures cannot be forged, and a proof exists only  *)
(* for public inputs that some witness satisfies; HostCircuit looks at the *)
(* first two, AgeCheck at the comparison and VkRegistry at the keys.       *)
(***************************************************************************)
EXTENDS Encodings, Days, FiniteSets

CONSTANTS
  Issuers,      \* their verifying keys
  Requests,     \* credentials that issuers may be asked for
  Sessions,     \* sessions that relying parties may open
  Origins,      \* where holders may be
  Randomness,   \* blinding factors, as sequences of bits
  RBits,        \* 128: the randomness the circuit takes
  WindowOffset, \* bits in front of it in the Pedersen hash, modulo 3: 6 + 32
  MAX_PEDERSEN_RANDOMNESS_BITS,  \* 1096
  MaxDay,       \* 36500
  PedersenHash(_, _),            \* of a personalization and padded input
  MaxIssued, MaxOpened, MaxProofs \* bounds

VARIABLES
  issued,    \* credentials with their issuers
  signed,    \* pairs of an issuer and a message it has signed
  opened,    \* sessions of relying parties
  proofs,    \* proofs on the wire: public inputs, and how they came about
  accepted,  \* proofs that a relying party accepted, with the session
  tags,      \* replay tags of the sessions that accepted a proof
  refused    \* sessions in which a valid proof was refused for its tag

vars == <<issued, signed, opened, proofs, accepted, tags, refused>>

Credential == [issuer : Issuers, v : Nat, kid : Seq(Byte), dob : Day, r : Randomness,
               iat : Nat, exp : Nat, schema : Seq(Byte)]
Session == [origin : Seq(Byte), nonce : Nonce, direction : {"Over", "Under"},
            cutoff : Day, issuer : Issuers]

ASSUME RequestAssumption == Requests \subseteq Credential
ASSUME SessionAssumption == Sessions \subseteq Session
ASSUME OriginAssumption == Origins \subseteq Seq(Byte)
ASSUME RandomnessAssumption == Randomness \subseteq Seq({0, 1}) /\ WindowOffset \in Nat

------------------------------------------------------------------------------
(* Commitment and nullifier. *)

\* The last window of three bits is filled up with zeros.
Padded(r) == r \o CASE (Len(r) + WindowOffset) % 3 = 0 -> <<>>
                    [] (Len(r) + WindowOffset) % 3 = 1 -> <<0, 0>>
                    [] (Len(r) + WindowOffset) % 3 = 2 -> <<0>>

CommitInput(dob, r) == <<bias_for_circuit(dob)>> \o Padded(r)
Commit(dob, r) == PedersenHash("NoteCommitment", CommitInput(dob, r))
pedersen_nullifier(c) == PedersenHash("MerkleTree(0)", <<c>>)

\* Pedersen hashes are numbers, and collision free.
ASSUME HashAssumption ==
  /\ \A d \in Day, r \in Randomness : Commit(d, r) \in Nat
  /\ \A d, e \in Day, r, s \in Randomness :
       Commit(d, r) = Commit(e, s) => CommitInput(d, r) = CommitInput(e, s)

\* pedersen_commit_dob_validated returns Ok; diversity of r is up to the issuer.
Committable(r) == Len(r) >= RBits /\ Len(r) <= MAX_PEDERSEN_RANDOMNESS_BITS

CommitmentOf(q) == Commit(q.dob, q.r)
Message(q) == cred_v2_prehash_bytes(q, CommitmentOf(q))
NullifierOf(q) == pedersen_nullifier(CommitmentOf(q))

\* What a session asks of a credential.
OldEnough(direction, cutoff, dob) == IF direction = "Over" THEN dob <= cutoff ELSE dob >= cutoff
SatisfiesPolicy(q, s) == q.issuer = s.issuer /\ OldEnough(s.direction, s.cutoff, q.dob)

------------------------------------------------------------------------------
(* The circuit and the code around it. *)

\* assemble_public_inputs: eight field elements, here their five values.
PublicInputs(direction, cutoff, rp, issuer, nullifier) ==
  [direction |-> direction, cutoff |-> cutoff, rp |-> rp, issuer |-> issuer,
   nullifier |-> nullifier]

\* prove_age_snark_auto hashes the challenge once more, and whoever verifies
\* its proofs has to as well: an ideal hash of one argument stands for the argument.
rp_hash(origin, nonce) == rp_challenge(origin, nonce)

\* A witness is a credential as its prover states it, with a commitment.
SizesFit(w) ==
  Len(w.kid) = KID_SIZE_BYTES /\ Len(w.schema) = SCHEMA_SIZE_BYTES /\ Len(w.r) = RBits

\* Broken: the days are compared as they are, negative ones after the others.
CompareUnbiased(direction, cutoff, dob) ==
  OldEnough(direction, AsUnsigned(cutoff), AsUnsigned(dob))

Compare(direction, cutoff, dob) ==
  OldEnough(direction, bias_for_circuit(cutoff), bias_for_circuit(dob))

\* Broken: nothing ties the commitment to the date that is compared.
SynthesizeWithoutOpening(pub, w, c) ==
  /\ SizesFit(w)
  /\ w.issuer = pub.issuer
  /\ pedersen_nullifier(c) = pub.nullifier
  /\ Compare(pub.direction, pub.cutoff, w.dob)
  /\ <<w.issuer, build_prehash_bits(w, c)>> \in signed

\* Broken: the key of the signature is not the public one.
SynthesizeUnderAnyKey(pub, w, c) ==
  /\ SizesFit(w)
  /\ pedersen_nullifier(c) = pub.nullifier
  /\ Commit(w.dob, w.r) = c
  /\ Compare(pub.direction, pub.cutoff, w.dob)
  /\ \E i \in Issuers : <<i, build_prehash_bits(w, c)>> \in signed

\* The equalities of AgeCircuit::synthesize for public inputs, a witness and its
\* commitment.
Synthesize(pub, w, c) ==
  /\ SizesFit(w)
  /\ w.issuer = pub.issuer
  /\ pedersen_nullifier(c) = pub.nullifier
  /\ Commit(w.dob, w.r) = c
  /\ Compare(pub.direction, pub.cutoff, w.dob)
  /\ <<w.issuer, build_prehash_bits(w, c)>> \in signed

\* validate_inputs_detailed: what the prover refuses before it proves.
validate_inputs_detailed(pub, w) ==
  /\ pub.cutoff # 0 /\ pub.cutoff <= MaxDay
  /\ w.dob # 0 /\ w.dob <= MaxDay
  /\ w.iat < w.exp

\* AgeWitness::new and prove_age_snark_auto end well for a holder of credential q.
Provable(pub, q) ==
  /\ SizesFit(q)
  /\ validate_inputs_detailed(pub, q)
  /\ Synthesize(pub, q, CommitmentOf(q))

------------------------------------------------------------------------------

Init ==
  /\ issued = {} /\ signed = {} /\ opened = {} /\ proofs = {}
  /\ accepted = {} /\ tags = {} /\ refused = {}

\* An issuer commits to a date of birth and signs.
Issue ==
  /\ Cardinality(issued) < MaxIssued
  /\ \E q \in Requests \ issued :
       /\ Committable(q.r) /\ Encodable(q)
       /\ issued' = issued \cup {q}
       /\ signed' = signed \cup {<<q.issuer, Message(q)>>}
  /\ UNCHANGED <<opened, proofs, accepted, tags, refused>>

\* A relying party draws a nonce it has not used before.
Open ==
  /\ Cardinality(opened) < MaxOpened
  /\ \E s \in Sessions :
       /\ \A t \in opened : t.origin = s.origin => t.nonce # s.nonce
       /\ opened' = opened \cup {s}
  /\ UNCHANGED <<issued, signed, proofs, accepted, tags, refused>>

\* The public inputs of prove_age_snark_auto: the policy of a session, whose nonce
\* reached the holder, the origin where the holder is, and a credential.
PublicOf(s, origin, q) ==
  PublicInputs(s.direction, s.cutoff, rp_hash(origin, s.nonce), q.issuer, NullifierOf(q))

ProveAuto ==
  /\ Cardinality(proofs) < MaxProofs
  /\ \E q \in issued, s \in opened, origin \in Origins :
       LET pub == PublicOf(s, origin, q) IN
       /\ Provable(pub, q)
       /\ proofs' = proofs \cup {[pub |-> pub, auto |-> TRUE, origin |-> origin, nonce |-> s.nonce]}
  /\ UNCHANGED <<issued, signed, opened, accepted, tags, refused>>

\* Any witness put together from messages, dates, randomness and commitments.
ProveAnyhow ==
  /\ Cardinality(proofs) < MaxProofs
  /\ \E s \in opened, origin \in Origins, q, k \in Requests, d \in Day, r \in Randomness :
     \E c \in {Commit(d, r), CommitmentOf(q)} :
       LET w == [q EXCEPT !.dob = d, !.r = r, !.issuer = k.issuer]
           pub == PublicInputs(s.direction, s.cutoff, rp_hash(origin, s.nonce), w.issuer,
                               pedersen_nullifier(c))
       IN /\ Synthesize(pub, w, c)
          /\ proofs' = proofs \cup {[pub |-> pub, auto |-> FALSE, origin |-> origin, nonce |-> s.nonce]}
  /\ UNCHANGED <<issued, signed, opened, accepted, tags, refused>>

Tag(s) == compute_replay_tag(compute_origin_hash(s.origin), s.nonce)

\* verify_age_snark for what the session demands and the nullifier that came along.
Verifies(s, p) ==
  PublicInputs(s.direction, s.cutoff, rp_hash(s.origin, s.nonce), s.issuer, p.pub.nullifier) = p.pub

\* Broken: the tag is not looked up.
AcceptWithoutTag(s, p) ==
  /\ Verifies(s, p)
  /\ accepted' = accepted \cup {[session |-> s, proof |-> p]}
  /\ tags' = tags \cup {Tag(s)}
  /\ UNCHANGED refused

\* A relying party remembers the tags of the sessions it accepted a proof in.
Accept(s, p) ==
  /\ Verifies(s, p)
  /\ IF Tag(s) \in tags
     THEN refused' = refused \cup {s} /\ UNCHANGED <<accepted, tags>>
     ELSE /\ accepted' = accepted \cup {[session |-> s, proof |-> p]}
          /\ tags' = tags \cup {Tag(s)}
          /\ UNCHANGED refused

Verify ==
  /\ \E s \in opened, p \in proofs : Accept(s, p)
  /\ UNCHANGED <<issued, signed, opened, proofs>>

Next == Issue \/ Open \/ ProveAuto \/ ProveAnyhow \/ Verify

Spec == Init /\ [][Next]_vars

------------------------------------------------------------------------------

Proof == [pub : [direction : {"Over", "Under"}, cutoff : Day, rp : Seq(Nat),
                 issuer : Issuers, nullifier : {NullifierOf(q) : q \in issued}],
          auto : BOOLEAN, origin : Origins, nonce : Nonce]

\* Types: no public input of a proof names a nullifier or a key that was not issued.
TypeOK ==
  /\ issued \subseteq Requests
  /\ opened \subseteq Sessions
  /\ proofs \subseteq Proof
  /\ \A a \in accepted : a.session \in opened /\ a.proof \in proofs
  /\ tags = {Tag(a.session) : a \in accepted}
  /\ refused \subseteq opened

\* A proof that is accepted was made from a credential that the trusted issuer did
\* issue, with a date of birth that satisfies the policy, and shows that
\* credential's nullifier, whatever witness it was made from.
AcceptedMeansIssued == \A a \in accepted : \E q \in issued :
  SatisfiesPolicy(q, a.session) /\ a.proof.pub.nullifier = NullifierOf(q)

\* A proof is accepted only where its prover was and under the nonce it was made
\* for: not at another origin, not in another session, although origin and nonce
\* are hashed without a length between them.
BoundToSession == \A a \in accepted :
  a.proof.origin = a.session.origin /\ a.proof.nonce = a.session.nonce

\* A session accepts one proof, and refuses a valid one only if it has accepted
\* one: the tags of two sessions are never taken for each other.
OncePerSession ==
  /\ \A a, b \in accepted : a.session = b.session => a = b
  /\ \A s \in refused : \E a \in accepted : a.session = s

\* What the library's limits leave to a holder.
WithinLimits(q, s) ==
  /\ Len(q.kid) = KID_SIZE_BYTES /\ Len(q.schema) = SCHEMA_SIZE_BYTES /\ Len(q.r) = RBits
  /\ q.iat < q.exp
  /\ \A day \in {q.dob, s.cutoff} : day # 0 /\ day <= MaxDay

\* A holder can prove in a session exactly what is true and within the limits, and
\* the session verifies it: issuer, prover, circuit and verifier agree on the layout
\* of the message, the bias of days on both sides of day 0 and the public inputs.
ProvableIffTrue == \A q \in issued, s \in opened :
  SatisfiesPolicy(q, s) /\ WithinLimits(q, s) <=>
    Provable(PublicOf(s, s.origin, q), q) /\ Verifies(s, [pub |-> PublicOf(s, s.origin, q)])

\* The system keeps its promise.
AV == INSTANCE AgeVerification WITH
  Credentials <- Requests, Satisfies <- SatisfiesPolicy,
  credentials <- issued, sessions <- opened,
  grants <- {[session |-> a.session, nullifier |-> a.proof.pub.nullifier] : a \in accepted}

\* Every step of issuers, holders, provers and relying parties is a step of the
\* abstract specification, or invisible to it.
ImplementsAgeVerification == AV!Spec

\* The inductive invariant: nonces are fresh, signatures belong to credentials, proofs
\* to signatures.
OpenedInv == \A s, t \in opened : s.origin = t.origin /\ s.nonce = t.nonce => s = t
SignedInv == signed = {<<q.issuer, Message(q)>> : q \in issued}
ProofInv == \A p \in proofs :
  /\ p.pub.rp = rp_hash(p.origin, p.nonce)
  /\ \E q \in issued :
       /\ p.pub.issuer = q.issuer /\ p.pub.nullifier = NullifierOf(q)
       /\ OldEnough(p.pub.direction, p.pub.cutoff, q.dob)
AcceptedInv == \A a \in accepted : Verifies(a.session, a.proof)

\* The whole invariant.
IInv == TypeOK /\ OpenedInv /\ SignedInv /\ ProofInv /\ AcceptedInv /\ OncePerSession
=============================================================================
