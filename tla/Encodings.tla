----------------------------- MODULE Encodings ------------------------------
(***************************************************************************)
(* The byte strings of the protocol that are signed, hashed or compared:   *)
(* the credential's prehash, once as the issuer lays it out and once as    *)
(* the circuit does, the challenge of a relying party, its replay tag and  *)
(* the consent of a wallet.  A byte, a fixed-width number and a digest are *)
(* one letter each; what has no fixed width is a sequence of letters.      *)
(* SHA-256, Blake2s and base64url keep different strings apart, so a       *)
(* digest stands for its preimage.                                         *)
(***************************************************************************)
EXTENDS Naturals, Sequences

CONSTANTS
  Byte,              \* the bytes that occur
  CRED_DST,          \* tag in front of the prehash
  CHALLENGE_DST,     \* tag behind the challenge
  Separator,         \* ':' in the replay tag
  MaxField,          \* 255: what a one-byte length can say
  KID_SIZE_BYTES,    \* 14: the key ids the circuit is built for
  SCHEMA_SIZE_BYTES, \* 12
  NonceLength        \* 32

ASSUME LetterAssumption ==
  Byte \cup {CRED_DST, CHALLENGE_DST, Separator, KID_SIZE_BYTES, SCHEMA_SIZE_BYTES, MaxField} \subseteq Nat
ASSUME NonceAssumption == NonceLength \in Nat

Prefixed(field) == <<Len(field)>> \o field

\* A nonce is a [u8; 32].
Nonce == [1..NonceLength -> Byte]

------------------------------------------------------------------------------
(* The message of a credential m with commitment c. *)

Encodable(m) == Len(m.kid) <= MaxField /\ Len(m.schema) <= MaxField

cred_v2_prehash_bytes(m, c) ==
  <<CRED_DST, m.v>> \o (Prefixed(m.kid) \o (<<c, m.iat, m.exp>> \o Prefixed(m.schema)))

\* Broken: the two times are laid out the other way round.
PrehashSwappingTimes(m, c) ==
  <<CRED_DST, m.v>> \o ((<<KID_SIZE_BYTES>> \o m.kid) \o
    (<<c, m.exp, m.iat>> \o (<<SCHEMA_SIZE_BYTES>> \o m.schema)))

\* In the circuit the lengths are constants, and the fields have those lengths.
build_prehash_bits(m, c) ==
  <<CRED_DST, m.v>> \o ((<<KID_SIZE_BYTES>> \o m.kid) \o
    (<<c, m.iat, m.exp>> \o (<<SCHEMA_SIZE_BYTES>> \o m.schema)))

------------------------------------------------------------------------------
(* What a relying party computes from its origin and a nonce. *)

\* Broken: the challenge forgets the origin.
ChallengeOfNonce(origin, nonce) == nonce \o <<CHALLENGE_DST>>

rp_challenge(origin, nonce) == origin \o (nonce \o <<CHALLENGE_DST>>)
compute_origin_hash(origin) == <<"SHA-256", origin>>

\* Broken: the tag forgets the origin.
TagOfNonce(origin_hash, nonce) == <<Separator>> \o nonce

compute_replay_tag(origin_hash, nonce) == <<origin_hash, Separator>> \o nonce

------------------------------------------------------------------------------
(* The consent of a wallet: three names of any length, the key, the time and *)
(* the terms in one letter each, and a nonce that may be missing.             *)

NoNonce == <<>>
ConsentNonce(n) == IF n = NoNonce THEN <<0>> ELSE <<1>> \o n
build_issuance_consent_message(f) ==
  Prefixed(f.session_id) \o (Prefixed(f.issuer_id) \o (Prefixed(f.issuer_kid) \o
    (<<f.wallet_pubkey, f.consent_time, f.terms_version>> \o ConsentNonce(f.nonce))))
=============================================================================
