------------------------- MODULE PresentationProofs --------------------------
(* A credential's way from issuance to acceptance, for every set of           *)
(* credentials and sessions and every size of the fields; first, what the     *)
(* byte strings of the protocol determine.                                    *)
EXTENDS Presentation, SharedLemmas

------------------------------------------------------------------------------
(* The byte strings. *)

\* What a credential's message holds.
IsMessage(m) ==
  /\ m.v \in Nat /\ m.iat \in Nat /\ m.exp \in Nat
  /\ m.kid \in Seq(Byte) /\ m.schema \in Seq(Byte)

\* Bytes are numbers, so names are sequences of numbers.
LEMMA BytesAreNumbers == \A s \in Seq(Byte) : s \in Seq(Nat)
  BY SeqGrows, LetterAssumption

\* A field with its prefix is what a prefix lemma calls a front.
LEMMA FrontIsPrefixed == \A f, rest : Front(f, rest) = Prefixed(f) \o rest
  BY DEF Front, Prefixed

\* A prefixed field determines the field, whatever follows it.
LEMMA SplitPrefixed ==
  ASSUME NEW s \in Seq(Nat), NEW t \in Seq(Nat), NEW u \in Seq(Nat), NEW v \in Seq(Nat),
         Prefixed(s) \o u = Prefixed(t) \o v
  PROVE  s = t /\ u = v
  <1>1. Front(s, u) = Front(t, v)
    BY FrontIsPrefixed
  <1>2. QED
    BY <1>1, SplitFront

\* A prefixed field is a sequence of numbers, and so is what it is put in front of.
LEMMA PrefixedSeq ==
  ASSUME NEW s \in Seq(Nat)
  PROVE  Prefixed(s) \in Seq(Nat) /\ Prefixed(s) \o <<>> = Prefixed(s)
  <1>1. <<Len(s)>> \in Seq(Nat)
    BY LenProperties
  <1>2. Prefixed(s) \in Seq(Nat)
    BY <1>1, ConcatProperties DEF Prefixed
  <1>3. QED
    BY <1>2, ConcatEmptySeq

\* Equal prehashes come from equal messages and commitments: nothing can move
\* from one field into another, although key id and schema have any length.
THEOREM PrehashDetermines ==
  ASSUME NEW m, NEW n, IsMessage(m), IsMessage(n), NEW c \in Nat, NEW d \in Nat,
         cred_v2_prehash_bytes(m, c) = cred_v2_prehash_bytes(n, d)
  PROVE  /\ m.v = n.v /\ m.kid = n.kid /\ c = d
         /\ m.iat = n.iat /\ m.exp = n.exp /\ m.schema = n.schema
  <1> DEFINE End(x, e) == <<e, x.iat, x.exp>> \o Prefixed(x.schema)
             Rest(x, e) == Prefixed(x.kid) \o End(x, e)
  <1>1. ASSUME NEW x, IsMessage(x), NEW e \in Nat
        PROVE  /\ x.kid \in Seq(Nat) /\ x.schema \in Seq(Nat)
               /\ Prefixed(x.kid) \in Seq(Nat) /\ Prefixed(x.schema) \in Seq(Nat)
               /\ <<e, x.iat, x.exp>> \in Seq(Nat) /\ <<CRED_DST, x.v>> \in Seq(Nat)
               /\ End(x, e) \in Seq(Nat) /\ Rest(x, e) \in Seq(Nat)
    <2>1. x.kid \in Seq(Nat) /\ x.schema \in Seq(Nat)
      BY <1>1, BytesAreNumbers DEF IsMessage
    <2>2. Prefixed(x.kid) \in Seq(Nat) /\ Prefixed(x.schema) \in Seq(Nat)
      BY <2>1, PrefixedSeq
    <2>3. e \in Nat /\ x.iat \in Nat /\ x.exp \in Nat /\ x.v \in Nat /\ CRED_DST \in Nat
      BY <1>1, LetterAssumption DEF IsMessage
    <2>4. <<e, x.iat, x.exp>> \in Seq(Nat) /\ <<CRED_DST, x.v>> \in Seq(Nat)
      BY <2>3
    <2>5. End(x, e) \in Seq(Nat)
      BY <2>2, <2>4, ConcatProperties
    <2>6. QED
      BY <2>1, <2>2, <2>4, <2>5, ConcatProperties
  <1>2. <<CRED_DST, m.v>> = <<CRED_DST, n.v>> /\ Rest(m, c) = Rest(n, d)
    <2> DEFINE p == <<CRED_DST, m.v>>  q == <<CRED_DST, n.v>>
               x == Rest(m, c)  y == Rest(n, d)
    <2>1. p \o x = q \o y
      BY DEF cred_v2_prehash_bytes
    <2>2. p \in Seq(Nat) /\ q \in Seq(Nat) /\ x \in Seq(Nat) /\ y \in Seq(Nat)
      BY <1>1
    <2>3. Len(p) = Len(q)
      OBVIOUS
    <2> HIDE DEF p, q, x, y
    <2>4. p = q /\ x = y
      BY <2>1, <2>2, <2>3, SplitConcat
    <2>5. QED
      BY <2>4 DEF p, q, x, y
  <1>3. m.kid = n.kid /\ End(m, c) = End(n, d)
    <2>1. /\ m.kid \in Seq(Nat) /\ n.kid \in Seq(Nat)
          /\ End(m, c) \in Seq(Nat) /\ End(n, d) \in Seq(Nat)
      BY <1>1
    <2>2. Prefixed(m.kid) \o End(m, c) = Prefixed(n.kid) \o End(n, d)
      BY <1>2
    <2> HIDE DEF End
    <2>3. QED
      BY ONLY <2>1, <2>2, SplitPrefixed, Zenon
  <1>4. <<c, m.iat, m.exp>> = <<d, n.iat, n.exp>> /\ Prefixed(m.schema) = Prefixed(n.schema)
    <2> DEFINE p == <<c, m.iat, m.exp>>  q == <<d, n.iat, n.exp>>
               x == Prefixed(m.schema)  y == Prefixed(n.schema)
    <2>1. p \o x = q \o y
      BY <1>3
    <2>2. p \in Seq(Nat) /\ q \in Seq(Nat) /\ x \in Seq(Nat) /\ y \in Seq(Nat)
      BY <1>1
    <2>3. Len(p) = Len(q)
      OBVIOUS
    <2> HIDE DEF p, q, x, y
    <2>4. p = q /\ x = y
      BY <2>1, <2>2, <2>3, SplitConcat
    <2>5. QED
      BY <2>4 DEF p, q, x, y
  <1>5. m.schema = n.schema
    <2>1. m.schema \in Seq(Nat) /\ n.schema \in Seq(Nat) /\ <<>> \in Seq(Nat)
      BY <1>1
    <2>2. /\ Prefixed(m.schema) \o <<>> = Prefixed(m.schema)
          /\ Prefixed(n.schema) \o <<>> = Prefixed(n.schema)
      BY <2>1, PrefixedSeq
    <2>3. Prefixed(m.schema) \o <<>> = Prefixed(n.schema) \o <<>>
      BY <2>2, <1>4
    <2>4. QED
      BY ONLY <2>1, <2>3, SplitPrefixed, Zenon
  <1>6. QED
    BY <1>2, <1>3, <1>4, <1>5

\* The circuit lays out the message of the issuer, for names of its lengths.
THEOREM CircuitLaysOutTheMessage ==
  ASSUME NEW m, NEW c, Len(m.kid) = KID_SIZE_BYTES, Len(m.schema) = SCHEMA_SIZE_BYTES
  PROVE  build_prehash_bits(m, c) = cred_v2_prehash_bytes(m, c)
  BY Zenon DEF build_prehash_bits, cred_v2_prehash_bytes, Prefixed

\* A nonce is a sequence of numbers of the one length.
LEMMA NonceSeq == \A n \in Nonce : n \in Seq(Nat) /\ Len(n) = NonceLength
  <1>1. ASSUME NEW n \in Nonce  PROVE n \in Seq(Nat) /\ Len(n) = NonceLength
    <2>1. n \in [1..NonceLength -> Nat]
      BY LetterAssumption DEF Nonce
    <2>2. n \in Seq(Nat)
      BY <2>1, NonceAssumption, IsASeq
    <2>3. DOMAIN n = 1..NonceLength /\ DOMAIN n = 1..Len(n) /\ Len(n) \in Nat
      BY <2>1, <2>2, LenProperties
    <2>4. QED
      BY <2>2, <2>3, NonceAssumption
  <1>2. QED
    BY <1>1

\* A challenge determines origin and nonce although no length stands between
\* them: the nonce and the tag behind the origin have one length.
THEOREM ChallengeDetermines ==
  ASSUME NEW o \in Seq(Byte), NEW p \in Seq(Byte), NEW m \in Nonce, NEW n \in Nonce,
         rp_challenge(o, m) = rp_challenge(p, n)
  PROVE  o = p /\ m = n
  <1> DEFINE tag == <<CHALLENGE_DST>>  x == m \o tag  y == n \o tag
  <1>1. o \in Seq(Nat) /\ p \in Seq(Nat)
    BY BytesAreNumbers
  <1>2. m \in Seq(Nat) /\ n \in Seq(Nat) /\ Len(m) = Len(n)
    BY NonceSeq
  <1>3. tag \in Seq(Nat)
    BY LetterAssumption
  <1> HIDE DEF tag
  <1>4. x \in Seq(Nat) /\ y \in Seq(Nat)
    BY <1>2, <1>3, ConcatProperties
  <1>5. Len(x) = Len(y)
    <2>1. Len(x) = Len(m) + Len(tag) /\ Len(y) = Len(n) + Len(tag)
      BY <1>2, <1>3, ConcatProperties
    <2>2. QED
      BY <2>1, <1>2
  <1>6. o \o x = p \o y
    BY DEF rp_challenge, tag
  <1> HIDE DEF x, y
  <1>7. Len(o) = Len(p)
    <2>1. Len(o \o x) = Len(o) + Len(x) /\ Len(p \o y) = Len(p) + Len(y)
      BY <1>1, <1>4, ConcatProperties
    <2>2. Len(o) \in Nat /\ Len(p) \in Nat /\ Len(x) \in Nat
      BY <1>1, <1>4, LenProperties
    <2>3. QED
      BY ONLY <2>1, <2>2, <1>5, <1>6
  <1>8. o = p /\ x = y
    BY <1>1, <1>4, <1>6, <1>7, SplitConcat
  <1>9. m = n
    <2>1. m \o tag = n \o tag
      BY <1>8 DEF x, y
    <2>2. QED
      BY <2>1, <1>2, <1>3, SplitConcat
  <1>10. QED
    BY <1>8, <1>9

\* A replay tag determines origin and nonce.
THEOREM TagDetermines ==
  ASSUME NEW o, NEW p, NEW m \in Nonce, NEW n \in Nonce,
         compute_replay_tag(compute_origin_hash(o), m) =
         compute_replay_tag(compute_origin_hash(p), n)
  PROVE  o = p /\ m = n
  <1> DEFINE h == compute_origin_hash(o)  k == compute_origin_hash(p)
             a == <<h, Separator>>  b == <<k, Separator>>
             S == Nat \cup {h, k}
  <1>1. /\ m \in Seq(S) /\ n \in Seq(S)
    BY NonceSeq, SeqGrows
  <1>2. a \in Seq(S) /\ b \in Seq(S) /\ Len(a) = Len(b)
    <2>1. h \in S /\ k \in S /\ Separator \in S
      BY LetterAssumption
    <2> HIDE DEF h, k, S
    <2>2. QED
      BY <2>1
  <1>3. a \o m = b \o n
    BY DEF compute_replay_tag
  <1>4. a = b /\ m = n
    <2> HIDE DEF a, b, S
    <2>1. QED
      BY <1>1, <1>2, <1>3, SplitConcat
  <1>5. h = k
    <2> HIDE DEF h, k
    <2>1. QED
      BY <1>4
  <1>6. QED
    BY <1>4, <1>5 DEF compute_origin_hash

\* What a wallet consents to.
IsConsent(f) ==
  /\ f.session_id \in Seq(Byte) /\ f.issuer_id \in Seq(Byte) /\ f.issuer_kid \in Seq(Byte)
  /\ f.wallet_pubkey \in Nat /\ f.consent_time \in Nat /\ f.terms_version \in Nat
  /\ NonceLength > 0
  /\ f.nonce = NoNonce \/ f.nonce \in Nonce

\* The flag in front of the nonce tells a missing one from every other.
LEMMA ConsentNonceDetermines ==
  ASSUME NEW f, NEW g, IsConsent(f), IsConsent(g), ConsentNonce(f.nonce) = ConsentNonce(g.nonce)
  PROVE  f.nonce = g.nonce
  <1> DEFINE m == f.nonce  n == g.nonce
  <1>1. m \in Seq(Nat) /\ n \in Seq(Nat)
    <2>1. NoNonce \in Seq(Nat)
      BY DEF NoNonce
    <2>2. f.nonce = NoNonce \/ f.nonce \in Nonce
      BY DEF IsConsent
    <2>3. g.nonce = NoNonce \/ g.nonce \in Nonce
      BY DEF IsConsent
    <2>4. QED
      BY ONLY <2>1, <2>2, <2>3, NonceSeq
  <1>2. ConsentNonce(m) = ConsentNonce(n)
    OBVIOUS
  <1> HIDE DEF m, n
  <1>3. ASSUME NEW s \in Seq(Nat)
        PROVE  <<1>> \o s # <<0>>
    <2>1. <<1>> \in Seq(Nat) /\ Len(<<1>>) = 1 /\ <<1>>[1] = 1 /\ Len(s) \in Nat
      BY LenProperties
    <2> DEFINE one == <<1>>
    <2> HIDE DEF one
    <2>2. one \in Seq(Nat) /\ Len(one) = 1 /\ one[1] = 1
      BY <2>1 DEF one
    <2>3. (one \o s)[1] = one[1]
      BY <2>1, <2>2, ConcatProperties
    <2>4. (one \o s)[1] # <<0>>[1]
      BY <2>2, <2>3
    <2>5. QED
      BY <2>4, Zenon DEF one
  <1>4. m = NoNonce <=> n = NoNonce
    BY <1>1, <1>2, <1>3 DEF ConsentNonce
  <1>5. CASE m = NoNonce
    <2>1. m = n
      BY <1>4, <1>5
    <2>2. QED
      BY <2>1 DEF m, n
  <1>6. CASE m # NoNonce
    <2>1. <<1>> \o m = <<1>> \o n
      BY <1>2, <1>4, <1>6 DEF ConsentNonce
    <2>2. <<1>> \in Seq(Nat)
      OBVIOUS
    <2>3. m = n
      BY <1>1, <2>1, <2>2, SplitConcat
    <2>4. QED
      BY <2>3 DEF m, n
  <1>7. QED
    BY <1>5, <1>6

\* A wallet's consent determines whom, what and when it is for, and whether it has a
\* nonce: nothing can move from one name into another.
THEOREM ConsentDetermines ==
  ASSUME NEW f, NEW g, IsConsent(f), IsConsent(g),
         build_issuance_consent_message(f) = build_issuance_consent_message(g)
  PROVE  /\ f.session_id = g.session_id /\ f.issuer_id = g.issuer_id
         /\ f.issuer_kid = g.issuer_kid /\ f.wallet_pubkey = g.wallet_pubkey
         /\ f.consent_time = g.consent_time /\ f.terms_version = g.terms_version
         /\ f.nonce = g.nonce
  <1> DEFINE Fixed(x) == <<x.wallet_pubkey, x.consent_time, x.terms_version>>
             Tail1(x) == Fixed(x) \o ConsentNonce(x.nonce)
             Tail2(x) == Prefixed(x.issuer_kid) \o Tail1(x)
             Tail3(x) == Prefixed(x.issuer_id) \o Tail2(x)
  <1>1. ASSUME NEW x, IsConsent(x)
        PROVE  /\ x.session_id \in Seq(Nat) /\ x.issuer_id \in Seq(Nat) /\ x.issuer_kid \in Seq(Nat)
               /\ Fixed(x) \in Seq(Nat) /\ ConsentNonce(x.nonce) \in Seq(Nat)
    <2>1. x.session_id \in Seq(Nat) /\ x.issuer_id \in Seq(Nat) /\ x.issuer_kid \in Seq(Nat)
      BY <1>1, BytesAreNumbers DEF IsConsent
    <2>2. Fixed(x) \in Seq(Nat)
      BY <1>1 DEF IsConsent
    <2>3. ConsentNonce(x.nonce) \in Seq(Nat)
      <3>1. CASE x.nonce = NoNonce
        BY <3>1 DEF ConsentNonce
      <3>2. CASE x.nonce # NoNonce
        <4>1. x.nonce \in Seq(Nat) /\ <<1>> \in Seq(Nat)
          BY <1>1, <3>2, NonceSeq DEF IsConsent
        <4>2. QED
          BY <4>1, <3>2, ConcatProperties DEF ConsentNonce
      <3>3. QED
        BY <3>1, <3>2
    <2>4. QED
      BY <2>1, <2>2, <2>3
  <1>2. Len(Fixed(f)) = Len(Fixed(g))
    OBVIOUS
  <1> HIDE DEF Fixed
  <1>3. ASSUME NEW x, IsConsent(x)
        PROVE  Tail1(x) \in Seq(Nat) /\ Tail2(x) \in Seq(Nat) /\ Tail3(x) \in Seq(Nat)
    <2>1. Tail1(x) \in Seq(Nat)
      BY <1>1, <1>3, ConcatProperties
    <2>2. Prefixed(x.issuer_kid) \in Seq(Nat) /\ Prefixed(x.issuer_id) \in Seq(Nat)
      BY <1>1, <1>3, PrefixedSeq
    <2> HIDE DEF Tail1
    <2>3. Tail2(x) \in Seq(Nat)
      BY <2>1, <2>2, ConcatProperties
    <2> HIDE DEF Tail2
    <2>4. Tail3(x) \in Seq(Nat)
      BY <2>2, <2>3, ConcatProperties
    <2>5. QED
      BY <2>1, <2>3, <2>4 DEF Tail2
  <1>4. Prefixed(f.session_id) \o Tail3(f) = Prefixed(g.session_id) \o Tail3(g)
    BY DEF build_issuance_consent_message, Fixed
  <1> HIDE DEF Tail3
  <1>5. f.session_id = g.session_id /\ Tail3(f) = Tail3(g)
    <2>1. /\ f.session_id \in Seq(Nat) /\ g.session_id \in Seq(Nat)
          /\ Tail3(f) \in Seq(Nat) /\ Tail3(g) \in Seq(Nat)
      BY <1>1, <1>3
    <2>2. QED
      BY ONLY <2>1, <1>4, SplitPrefixed, Zenon
  <1>6. Prefixed(f.issuer_id) \o Tail2(f) = Prefixed(g.issuer_id) \o Tail2(g)
    BY <1>5 DEF Tail3
  <1> HIDE DEF Tail2
  <1>7. f.issuer_id = g.issuer_id /\ Tail2(f) = Tail2(g)
    <2>1. /\ f.issuer_id \in Seq(Nat) /\ g.issuer_id \in Seq(Nat)
          /\ Tail2(f) \in Seq(Nat) /\ Tail2(g) \in Seq(Nat)
      BY <1>1, <1>3
    <2>2. QED
      BY ONLY <2>1, <1>6, SplitPrefixed, Zenon
  <1>8. Prefixed(f.issuer_kid) \o Tail1(f) = Prefixed(g.issuer_kid) \o Tail1(g)
    BY <1>7 DEF Tail2
  <1> HIDE DEF Tail1
  <1>9. f.issuer_kid = g.issuer_kid /\ Tail1(f) = Tail1(g)
    <2>1. /\ f.issuer_kid \in Seq(Nat) /\ g.issuer_kid \in Seq(Nat)
          /\ Tail1(f) \in Seq(Nat) /\ Tail1(g) \in Seq(Nat)
      BY <1>1, <1>3
    <2>2. QED
      BY ONLY <2>1, <1>8, SplitPrefixed, Zenon
  <1>10. Fixed(f) \o ConsentNonce(f.nonce) = Fixed(g) \o ConsentNonce(g.nonce)
    BY <1>9 DEF Tail1
  <1>11. Fixed(f) = Fixed(g) /\ ConsentNonce(f.nonce) = ConsentNonce(g.nonce)
    BY <1>1, <1>2, <1>10, SplitConcat
  <1>12. /\ f.wallet_pubkey = g.wallet_pubkey /\ f.consent_time = g.consent_time
         /\ f.terms_version = g.terms_version
    BY <1>11 DEF Fixed
  <1>13. f.nonce = g.nonce
    BY <1>11, ConsentNonceDetermines
  <1>14. QED
    BY <1>5, <1>7, <1>9, <1>12, <1>13

------------------------------------------------------------------------------
(* Days and commitments. *)

\* The circuit compares biased days as it would compare the days.
LEMMA BiasKeepsOrder ==
  ASSUME NEW d \in Day, NEW e \in Day
  PROVE  /\ bias_for_circuit(d) \in Nat
         /\ d <= e <=> bias_for_circuit(d) <= bias_for_circuit(e)
         /\ d >= e <=> bias_for_circuit(d) >= bias_for_circuit(e)
         /\ bias_for_circuit(d) = bias_for_circuit(e) => d = e
  BY HalfAssumption DEF Day, bias_for_circuit, FlipTop, AsUnsigned

\* So its comparison is the policy's.
LEMMA CompareIsPolicy ==
  ASSUME NEW direction, NEW cutoff \in Day, NEW dob \in Day
  PROVE  Compare(direction, cutoff, dob) <=> OldEnough(direction, cutoff, dob)
  <1>1. /\ dob <= cutoff <=> bias_for_circuit(dob) <= bias_for_circuit(cutoff)
        /\ dob >= cutoff <=> bias_for_circuit(dob) >= bias_for_circuit(cutoff)
    BY BiasKeepsOrder
  <1>2. QED
    BY <1>1 DEF Compare, OldEnough

\* Padding leaves a sequence of bits.
LEMMA PaddedSeq == \A r \in Randomness : Padded(r) \in Seq(Nat)
  <1>1. ASSUME NEW r \in Randomness  PROVE Padded(r) \in Seq(Nat)
    <2>1. r \in Seq(Nat)
      <3>1. r \in Seq({0, 1}) /\ {0, 1} \subseteq Nat
        BY RandomnessAssumption
      <3>2. QED
        BY <3>1, SeqGrows
    <2>2. Len(r) \in Nat
      BY <2>1, LenProperties
    <2>3. (Len(r) + WindowOffset) % 3 \in {0, 1, 2}
      BY <2>2, RandomnessAssumption
    <2>4. \/ Padded(r) = r \o <<>>
          \/ Padded(r) = r \o <<0>>
          \/ Padded(r) = r \o <<0, 0>>
      <3> DEFINE k == (Len(r) + WindowOffset) % 3
      <3>1. Padded(r) = r \o CASE k = 0 -> <<>> [] k = 1 -> <<0, 0>> [] k = 2 -> <<0>>
        BY Zenon DEF Padded
      <3>2. k \in {0, 1, 2}
        BY <2>3
      <3> HIDE DEF k
      <3>3. CASE k = 0
        <4>1. (CASE k = 0 -> <<>> [] k = 1 -> <<0, 0>> [] k = 2 -> <<0>>) = <<>>
          BY <3>3
        <4>2. QED
          BY <3>1, <4>1
      <3>4. CASE k = 1
        <4>1. (CASE k = 0 -> <<>> [] k = 1 -> <<0, 0>> [] k = 2 -> <<0>>) = <<0, 0>>
          BY <3>4
        <4>2. QED
          BY <3>1, <4>1
      <3>5. CASE k = 2
        <4>1. (CASE k = 0 -> <<>> [] k = 1 -> <<0, 0>> [] k = 2 -> <<0>>) = <<0>>
          BY <3>5
        <4>2. QED
          BY <3>1, <4>1
      <3>6. QED
        BY <3>2, <3>3, <3>4, <3>5
    <2>5. <<>> \in Seq(Nat) /\ <<0>> \in Seq(Nat) /\ <<0, 0>> \in Seq(Nat)
      OBVIOUS
    <2>6. QED
      BY <2>1, <2>4, <2>5, ConcatProperties
  <1>2. QED
    BY <1>1

\* A commitment binds the date of birth, whatever the randomness and its padding.
THEOREM CommitBindsDob ==
  ASSUME NEW d \in Day, NEW e \in Day, NEW r \in Randomness, NEW s \in Randomness,
         Commit(d, r) = Commit(e, s)
  PROVE  d = e
  <1> DEFINE p == <<bias_for_circuit(d)>>  q == <<bias_for_circuit(e)>>
             x == Padded(r)  y == Padded(s)
  <1>1. p \o x = q \o y
    BY HashAssumption DEF CommitInput
  <1>2. p \in Seq(Nat) /\ q \in Seq(Nat) /\ Len(p) = Len(q)
    BY BiasKeepsOrder
  <1>3. x \in Seq(Nat) /\ y \in Seq(Nat)
    BY PaddedSeq
  <1>4. p = q
    <2> HIDE DEF p, q, x, y
    <2>1. QED
      BY <1>1, <1>2, <1>3, SplitConcat
  <1>5. bias_for_circuit(d) = bias_for_circuit(e)
    BY <1>4
  <1>6. QED
    BY <1>5, BiasKeepsOrder

------------------------------------------------------------------------------
(* What the circuit admits. *)

\* A credential that may be asked for is a message with a day and randomness.
LEMMA RequestIsMessage ==
  ASSUME NEW q \in Requests
  PROVE  /\ IsMessage(q) /\ q.dob \in Day /\ q.r \in Randomness /\ q.issuer \in Issuers
         /\ CommitmentOf(q) \in Nat
  <1>1. q \in Credential
    BY RequestAssumption
  <1>2. IsMessage(q) /\ q.dob \in Day /\ q.r \in Randomness /\ q.issuer \in Issuers
    BY <1>1 DEF Credential, IsMessage
  <1>3. QED
    BY <1>2, HashAssumption DEF CommitmentOf

\* The public inputs of a proof for a nonce at an origin.
LEMMA RpIsSeq ==
  ASSUME NEW origin \in Seq(Byte), NEW nonce \in Nonce  PROVE rp_hash(origin, nonce) \in Seq(Nat)
  <1>1. origin \in Seq(Nat) /\ nonce \in Seq(Nat) /\ <<CHALLENGE_DST>> \in Seq(Nat)
    BY BytesAreNumbers, NonceSeq, LetterAssumption
  <1>2. nonce \o <<CHALLENGE_DST>> \in Seq(Nat)
    BY <1>1, ConcatProperties
  <1>3. origin \o (nonce \o <<CHALLENGE_DST>>) \in Seq(Nat)
    BY <1>1, <1>2, ConcatProperties
  <1>4. QED
    BY <1>3 DEF rp_hash, rp_challenge

\* Any witness the circuit admits carries the date of birth, the key and the
\* commitment of one credential that its issuer signed.
THEOREM WitnessIsIssued ==
  ASSUME IInv, NEW pub, NEW w, NEW c \in Nat, Synthesize(pub, w, c), IsMessage(w),
         w.dob \in Day, w.r \in Randomness, pub.cutoff \in Day
  PROVE  \E q \in issued :
           /\ pub.issuer = q.issuer /\ pub.nullifier = NullifierOf(q)
           /\ OldEnough(pub.direction, pub.cutoff, q.dob)
  <1>1. PICK q \in issued : <<w.issuer, build_prehash_bits(w, c)>> = <<q.issuer, Message(q)>>
    BY DEF Synthesize, IInv, SignedInv
  <1>2. q \in Requests
    BY DEF IInv, TypeOK
  <1>3. /\ IsMessage(q) /\ q.dob \in Day /\ q.r \in Randomness /\ CommitmentOf(q) \in Nat
    BY <1>2, RequestIsMessage
  <1>4. build_prehash_bits(w, c) = cred_v2_prehash_bytes(w, c)
    BY CircuitLaysOutTheMessage DEF Synthesize, SizesFit
  <1>5. cred_v2_prehash_bytes(w, c) = cred_v2_prehash_bytes(q, CommitmentOf(q))
    BY <1>1, <1>4 DEF Message
  <1>6. c = CommitmentOf(q)
    BY <1>3, <1>5, PrehashDetermines
  <1>7. Commit(w.dob, w.r) = Commit(q.dob, q.r)
    BY <1>6 DEF Synthesize, CommitmentOf
  <1>8. w.dob = q.dob
    BY <1>3, <1>7, CommitBindsDob
  <1>9. OldEnough(pub.direction, pub.cutoff, w.dob)
    BY CompareIsPolicy DEF Synthesize
  <1>10. pub.issuer = q.issuer /\ pub.nullifier = NullifierOf(q)
    BY <1>1, <1>6 DEF Synthesize, NullifierOf
  <1>11. QED
    BY <1>8, <1>9, <1>10

------------------------------------------------------------------------------
(* The invariant. *)

\* A session that may be opened.
LEMMA SessionFields ==
  ASSUME NEW s \in Sessions
  PROVE  /\ s.origin \in Seq(Byte) /\ s.nonce \in Nonce /\ s.direction \in {"Over", "Under"}
         /\ s.cutoff \in Day /\ s.issuer \in Issuers
  BY SessionAssumption DEF Session

\* Sessions with one replay tag are one session.
LEMMA TagsDiffer ==
  ASSUME IInv, NEW s \in opened, NEW t \in opened, Tag(s) = Tag(t)
  PROVE  s = t
  <1>1. s.nonce \in Nonce /\ t.nonce \in Nonce
    BY SessionFields DEF IInv, TypeOK
  <1>2. s.origin = t.origin /\ s.nonce = t.nonce
    BY <1>1, TagDetermines DEF Tag
  <1>3. QED
    BY <1>2 DEF IInv, OpenedInv

\* What a new proof must bring along.
LEMMA AddProof ==
  ASSUME IInv, NEW s \in opened, NEW origin \in Origins, NEW auto \in BOOLEAN,
         NEW issuer, NEW nullifier,
         \E q \in issued : /\ issuer = q.issuer /\ nullifier = NullifierOf(q)
                           /\ OldEnough(s.direction, s.cutoff, q.dob),
         proofs' = proofs \cup {[pub |-> PublicInputs(s.direction, s.cutoff,
                                                      rp_hash(origin, s.nonce), issuer, nullifier),
                                 auto |-> auto, origin |-> origin, nonce |-> s.nonce]},
         UNCHANGED <<issued, signed, opened, accepted, tags, refused>>
  PROVE  IInv'
  <1> DEFINE pub == PublicInputs(s.direction, s.cutoff, rp_hash(origin, s.nonce), issuer, nullifier)
             new == [pub |-> pub, auto |-> auto, origin |-> origin, nonce |-> s.nonce]
  <1>1. s.nonce \in Nonce /\ s.direction \in {"Over", "Under"} /\ s.cutoff \in Day
    BY SessionFields DEF IInv, TypeOK
  <1>2. rp_hash(origin, s.nonce) \in Seq(Nat)
    BY <1>1, OriginAssumption, RpIsSeq
  <1>3. PICK q \in issued : /\ issuer = q.issuer /\ nullifier = NullifierOf(q)
                            /\ OldEnough(s.direction, s.cutoff, q.dob)
    OBVIOUS
  <1>4. issuer \in Issuers
    BY <1>3, RequestIsMessage DEF IInv, TypeOK
  <1>5. new \in Proof
    BY <1>1, <1>2, <1>3, <1>4 DEF Proof, PublicInputs
  <1>6. /\ new.pub.rp = rp_hash(new.origin, new.nonce)
        /\ new.pub.issuer = q.issuer /\ new.pub.nullifier = NullifierOf(q)
        /\ OldEnough(new.pub.direction, new.pub.cutoff, q.dob)
    BY <1>3 DEF PublicInputs
  <1>7. proofs' = proofs \cup {new}
    OBVIOUS
  <1> HIDE DEF new
  <1>8. (Proof)' = Proof
    BY DEF Proof
  <1>9. TypeOK'
    BY <1>5, <1>7, <1>8 DEF IInv, TypeOK, Tag
  <1>10. ProofInv'
    BY <1>6, <1>7 DEF IInv, ProofInv
  <1>11. QED
    BY <1>9, <1>10 DEF IInv, OpenedInv, SignedInv, AcceptedInv, OncePerSession

\* Every step keeps the invariant.
LEMMA StepKeepsIInv == IInv /\ [Next]_vars => IInv'
  <1> SUFFICES ASSUME IInv, [Next]_vars  PROVE IInv'
    OBVIOUS
  <1>1. CASE Issue
    <2>1. PICK q \in Requests \ issued :
            /\ issued' = issued \cup {q} /\ signed' = signed \cup {<<q.issuer, Message(q)>>}
      BY <1>1 DEF Issue
    <2>2. UNCHANGED <<opened, proofs, accepted, tags, refused>>
      BY <1>1 DEF Issue
    <2>3. Proof \subseteq (Proof)'
      BY <2>1 DEF Proof
    <2>4. TypeOK'
      BY <2>1, <2>2, <2>3 DEF IInv, TypeOK, Tag
    <2>5. SignedInv'
      BY <2>1 DEF IInv, SignedInv
    <2>6. ProofInv'
      BY <2>1, <2>2 DEF IInv, ProofInv
    <2>7. QED
      BY <2>2, <2>4, <2>5, <2>6 DEF IInv, OpenedInv, AcceptedInv, OncePerSession
  <1>2. CASE Open
    <2>1. PICK s \in Sessions : /\ \A t \in opened : t.origin = s.origin => t.nonce # s.nonce
                                /\ opened' = opened \cup {s}
      BY <1>2 DEF Open
    <2>2. UNCHANGED <<issued, signed, proofs, accepted, tags, refused>>
      BY <1>2 DEF Open
    <2>3. (Proof)' = Proof
      BY <2>2 DEF Proof
    <2>4. TypeOK'
      BY <2>1, <2>2, <2>3 DEF IInv, TypeOK, Tag
    <2>5. OpenedInv'
      BY <2>1 DEF IInv, OpenedInv
    <2>6. QED
      BY <2>2, <2>4, <2>5 DEF IInv, SignedInv, ProofInv, AcceptedInv, OncePerSession
  <1>3. CASE ProveAuto
    <2>1. PICK q \in issued, s \in opened, origin \in Origins :
            /\ Provable(PublicOf(s, origin, q), q)
            /\ proofs' = proofs \cup {[pub |-> PublicOf(s, origin, q), auto |-> TRUE,
                                       origin |-> origin, nonce |-> s.nonce]}
      BY <1>3 DEF ProveAuto
    <2>2. q.dob \in Day /\ s.cutoff \in Day
      BY RequestIsMessage, SessionFields DEF IInv, TypeOK
    <2>3. OldEnough(s.direction, s.cutoff, q.dob)
      BY <2>1, <2>2, CompareIsPolicy DEF Provable, Synthesize, PublicOf, PublicInputs
    <2>4. UNCHANGED <<issued, signed, opened, accepted, tags, refused>>
      BY <1>3 DEF ProveAuto
    <2>5. QED
      BY <2>1, <2>3, <2>4, AddProof DEF PublicOf
  <1>4. CASE ProveAnyhow
    <2>1. PICK s \in opened, origin \in Origins, q \in Requests, k \in Requests,
               d \in Day, r \in Randomness :
            \E c \in {Commit(d, r), CommitmentOf(q)} :
              LET w == [q EXCEPT !.dob = d, !.r = r, !.issuer = k.issuer]
                  pub == PublicInputs(s.direction, s.cutoff, rp_hash(origin, s.nonce),
                                      w.issuer, pedersen_nullifier(c))
              IN /\ Synthesize(pub, w, c)
                 /\ proofs' = proofs \cup {[pub |-> pub, auto |-> FALSE, origin |-> origin,
                                            nonce |-> s.nonce]}
      BY <1>4 DEF ProveAnyhow
    <2> DEFINE w == [q EXCEPT !.dob = d, !.r = r, !.issuer = k.issuer]
               pub(c) == PublicInputs(s.direction, s.cutoff, rp_hash(origin, s.nonce),
                                      w.issuer, pedersen_nullifier(c))
    <2>2. PICK c \in {Commit(d, r), CommitmentOf(q)} :
            /\ Synthesize(pub(c), w, c)
            /\ proofs' = proofs \cup {[pub |-> pub(c), auto |-> FALSE, origin |-> origin,
                                       nonce |-> s.nonce]}
      BY <2>1
    <2>3. c \in Nat
      BY RequestIsMessage, HashAssumption
    <2>4. q \in Credential /\ k \in Credential
      BY RequestAssumption
    <2>5. w \in Credential
      BY <2>4 DEF Credential
    <2>6. IsMessage(w) /\ w.dob \in Day /\ w.r \in Randomness
      BY <2>5 DEF Credential, IsMessage
    <2>7. pub(c).cutoff \in Day
      BY SessionFields DEF IInv, TypeOK, PublicInputs
    <2> HIDE DEF w
    <2>8. \E x \in issued : /\ pub(c).issuer = x.issuer /\ pub(c).nullifier = NullifierOf(x)
                            /\ OldEnough(pub(c).direction, pub(c).cutoff, x.dob)
      BY <2>2, <2>3, <2>6, <2>7, WitnessIsIssued
    <2>9. \E x \in issued : /\ w.issuer = x.issuer /\ pedersen_nullifier(c) = NullifierOf(x)
                            /\ OldEnough(s.direction, s.cutoff, x.dob)
      BY <2>8 DEF PublicInputs
    <2>10. UNCHANGED <<issued, signed, opened, accepted, tags, refused>>
      BY <1>4 DEF ProveAnyhow
    <2>11. QED
      BY <2>2, <2>9, <2>10, AddProof
  <1>5. CASE Verify
    <2>1. PICK s \in opened, p \in proofs : Accept(s, p)
      BY <1>5 DEF Verify
    <2>2. UNCHANGED <<issued, signed, opened, proofs>>
      BY <1>5 DEF Verify
    <2>3. (Proof)' = Proof
      BY <2>2 DEF Proof
    <2>4. CASE Tag(s) \in tags
      <3>1. refused' = refused \cup {s} /\ UNCHANGED <<accepted, tags>>
        BY <2>1, <2>4 DEF Accept
      <3>2. PICK a \in accepted : Tag(s) = Tag(a.session)
        BY <2>4 DEF IInv, TypeOK
      <3>3. a.session = s
        BY <3>2, TagsDiffer DEF IInv, TypeOK
      <3>4. TypeOK'
        BY <3>1, <2>2, <2>3 DEF IInv, TypeOK, Tag
      <3>5. OncePerSession'
        BY <3>1, <3>3 DEF IInv, OncePerSession
      <3>6. QED
        BY <3>1, <3>4, <3>5, <2>2 DEF IInv, OpenedInv, SignedInv, ProofInv, AcceptedInv
    <2>5. CASE Tag(s) \notin tags
      <3> DEFINE new == [session |-> s, proof |-> p]
      <3>1. /\ accepted' = accepted \cup {new} /\ tags' = tags \cup {Tag(s)}
            /\ UNCHANGED refused /\ Verifies(s, p)
        BY <2>1, <2>5 DEF Accept
      <3>2. new.session = s /\ new.proof = p
        OBVIOUS
      <3>3. \A a \in accepted : a.session # s
        BY <2>5 DEF IInv, TypeOK
      <3> HIDE DEF new
      <3>4. tags' = {Tag(a.session) : a \in accepted'}
        BY <3>1, <3>2 DEF IInv, TypeOK
      <3>5. TypeOK'
        BY <3>1, <3>2, <3>4, <2>2, <2>3 DEF IInv, TypeOK, Tag
      <3>6. OncePerSession'
        BY <3>1, <3>2, <3>3 DEF IInv, OncePerSession
      <3>7. AcceptedInv'
        BY <3>1, <3>2 DEF IInv, AcceptedInv, Verifies
      <3>8. QED
        BY <3>5, <3>6, <3>7, <2>2 DEF IInv, OpenedInv, SignedInv, ProofInv
    <2>6. QED
      BY <2>4, <2>5
  <1>6. CASE UNCHANGED vars
    BY <1>6 DEF vars, IInv, TypeOK, Proof, Tag, OpenedInv, SignedInv, ProofInv, AcceptedInv,
                OncePerSession
  <1>7. QED
    BY <1>1, <1>2, <1>3, <1>4, <1>5, <1>6 DEF Next

\* The invariant holds, and with it the types of every proof on the wire.
THEOREM Invariance == Spec => []IInv
  <1>1. Init => IInv
    BY DEF Init, IInv, TypeOK, OpenedInv, SignedInv, ProofInv, AcceptedInv, OncePerSession
  <1>2. QED
    BY <1>1, StepKeepsIInv, PTL DEF Spec

\* What the invariant says of one accepted proof.
LEMMA AcceptedIsIssued ==
  ASSUME IInv, NEW s \in opened, NEW p \in proofs, Verifies(s, p)
  PROVE  \E q \in issued : SatisfiesPolicy(q, s) /\ p.pub.nullifier = NullifierOf(q)
  <1>1. PICK q \in issued :
          /\ p.pub.issuer = q.issuer /\ p.pub.nullifier = NullifierOf(q)
          /\ OldEnough(p.pub.direction, p.pub.cutoff, q.dob)
    BY DEF IInv, ProofInv
  <1>2. p.pub.issuer = s.issuer /\ p.pub.direction = s.direction /\ p.pub.cutoff = s.cutoff
    BY DEF Verifies, PublicInputs
  <1>3. QED
    BY <1>1, <1>2 DEF SatisfiesPolicy

\* A proof that verifies was made for that origin and that nonce.
LEMMA VerifiesWhereMade ==
  ASSUME IInv, NEW s \in opened, NEW p \in proofs, Verifies(s, p)
  PROVE  p.origin = s.origin /\ p.nonce = s.nonce
  <1>1. /\ p.pub.rp = rp_hash(p.origin, p.nonce) /\ p.origin \in Origins /\ p.nonce \in Nonce
    BY DEF IInv, ProofInv, TypeOK, Proof
  <1>2. p.pub.rp = rp_hash(s.origin, s.nonce)
    BY DEF Verifies, PublicInputs
  <1>3. s.origin \in Seq(Byte) /\ s.nonce \in Nonce /\ p.origin \in Seq(Byte)
    BY <1>1, OriginAssumption, SessionFields DEF IInv, TypeOK
  <1>4. rp_challenge(p.origin, p.nonce) = rp_challenge(s.origin, s.nonce)
    BY <1>1, <1>2 DEF rp_hash
  <1>5. QED
    BY <1>1, <1>3, <1>4, ChallengeDetermines

\* Whatever witness a proof was made from, it is accepted only for a credential
\* that the trusted issuer issued and whose date of birth satisfies the policy.
THEOREM AcceptanceIsSound == Spec => []AcceptedMeansIssued
  <1>1. IInv => AcceptedMeansIssued
    BY AcceptedIsIssued DEF IInv, TypeOK, AcceptedInv, AcceptedMeansIssued
  <1>2. QED
    BY <1>1, Invariance, PTL

\* No proof is accepted in another session or at another origin than its own.
THEOREM SessionBinding == Spec => []BoundToSession
  <1>1. IInv => BoundToSession
    BY VerifiesWhereMade DEF IInv, TypeOK, AcceptedInv, BoundToSession
  <1>2. QED
    BY <1>1, Invariance, PTL

\* A session accepts one proof, and only that one keeps another from being accepted.
THEOREM AtMostOnce == Spec => []OncePerSession
  <1>1. IInv => OncePerSession
    BY DEF IInv
  <1>2. QED
    BY <1>1, Invariance, PTL

\* Nothing false can be proved and nothing true within the limits is refused.
THEOREM Completeness == Spec => []ProvableIffTrue
  <1>1. ASSUME IInv, NEW q \in issued, NEW s \in opened
        PROVE  SatisfiesPolicy(q, s) /\ WithinLimits(q, s) <=>
                 /\ Provable(PublicOf(s, s.origin, q), q)
                 /\ Verifies(s, [pub |-> PublicOf(s, s.origin, q)])
    <2> DEFINE pub == PublicOf(s, s.origin, q)
    <2>1. /\ pub.issuer = q.issuer /\ pub.nullifier = NullifierOf(q)
          /\ pub.direction = s.direction /\ pub.cutoff = s.cutoff
      BY DEF PublicOf, PublicInputs
    <2>2. Verifies(s, [pub |-> pub]) <=> q.issuer = s.issuer
      BY DEF Verifies, PublicOf, PublicInputs
    <2>3. Compare(pub.direction, pub.cutoff, q.dob) <=> OldEnough(s.direction, s.cutoff, q.dob)
      BY <1>1, <2>1, RequestIsMessage, SessionFields, CompareIsPolicy DEF IInv, TypeOK
    <2>4. <<q.issuer, Message(q)>> \in signed
      BY <1>1 DEF IInv, SignedInv
    <2>5. SizesFit(q) => build_prehash_bits(q, CommitmentOf(q)) = Message(q)
      BY CircuitLaysOutTheMessage DEF SizesFit, Message
    <2>6. SizesFit(q) => (Synthesize(pub, q, CommitmentOf(q)) <=>
                            OldEnough(s.direction, s.cutoff, q.dob))
      BY <2>1, <2>3, <2>4, <2>5 DEF Synthesize, NullifierOf, CommitmentOf
    <2>7. SizesFit(q) /\ validate_inputs_detailed(pub, q) <=> WithinLimits(q, s)
      BY <2>1 DEF SizesFit, validate_inputs_detailed, WithinLimits
    <2> HIDE DEF pub
    <2>8. Provable(pub, q) <=> OldEnough(s.direction, s.cutoff, q.dob) /\ WithinLimits(q, s)
      BY <2>6, <2>7 DEF Provable
    <2>9. QED
      BY <2>2, <2>8 DEF SatisfiesPolicy, pub
  <1>2. IInv => ProvableIffTrue
    BY <1>1 DEF ProvableIffTrue
  <1>3. QED
    BY <1>2, Invariance, PTL

\* Issuers, holders, provers and relying parties together do what the abstract
\* specification says: issue, open, and grant at most once for what is true.
THEOREM Refinement == Spec => ImplementsAgeVerification
  <1> DEFINE grant(a) == [session |-> a.session, nullifier |-> a.proof.pub.nullifier]
             grants == {grant(a) : a \in accepted}
  <1>1. Init => AV!Init
    BY DEF Init, AV!Init
  <1>2. ASSUME IInv, [Next]_vars  PROVE [AV!Next]_<<issued, opened, grants>>
    <2>1. CASE Issue
      <3>1. PICK q \in Requests : issued' = issued \cup {q}
        BY <2>1 DEF Issue
      <3>2. UNCHANGED <<opened, accepted>>
        BY <2>1 DEF Issue
      <3>3. AV!Issue
        BY <3>1, <3>2 DEF AV!Issue
      <3>4. QED
        BY <3>3 DEF AV!Next
    <2>2. CASE Open
      <3>1. PICK s \in Sessions : opened' = opened \cup {s}
        BY <2>2 DEF Open
      <3>2. UNCHANGED <<issued, accepted>>
        BY <2>2 DEF Open
      <3>3. AV!Open
        BY <3>1, <3>2 DEF AV!Open
      <3>4. QED
        BY <3>3 DEF AV!Next
    <2>3. CASE ProveAuto
      BY <2>3 DEF ProveAuto
    <2>4. CASE ProveAnyhow
      BY <2>4 DEF ProveAnyhow
    <2>5. CASE Verify
      <3>1. PICK s \in opened, p \in proofs : Accept(s, p)
        BY <2>5 DEF Verify
      <3>2. UNCHANGED <<issued, opened>>
        BY <2>5 DEF Verify
      <3>3. CASE Tag(s) \in tags
        BY <3>1, <3>2, <3>3 DEF Accept
      <3>4. CASE Tag(s) \notin tags
        <4> DEFINE new == [session |-> s, proof |-> p]
        <4>1. accepted' = accepted \cup {new} /\ Verifies(s, p)
          BY <3>1, <3>4 DEF Accept
        <4>2. PICK q \in issued : SatisfiesPolicy(q, s) /\ p.pub.nullifier = NullifierOf(q)
          BY <4>1, <1>2, AcceptedIsIssued
        <4>3. \A a \in accepted : a.session # s
          BY <3>4, <1>2 DEF IInv, TypeOK
        <4>4. \A g \in grants : g.session # s
          BY <4>3
        <4>5. grant(new) = [session |-> s, nullifier |-> NullifierOf(q)]
          BY <4>2
        <4> HIDE DEF new
        <4>6. grants' = grants \cup {grant(new)}
          BY <4>1
        <4>7. grants' = grants \cup {[session |-> s, nullifier |-> NullifierOf(q)]}
          BY <4>5, <4>6
        <4>8. AV!Grant
          BY <4>2, <4>4, <4>7, <3>2 DEF AV!Grant
        <4>9. QED
          BY <4>8 DEF AV!Next
      <3>5. QED
        BY <3>3, <3>4
    <2>6. CASE UNCHANGED vars
      BY <2>6 DEF vars
    <2>7. QED
      BY <1>2, <2>1, <2>2, <2>3, <2>4, <2>5, <2>6 DEF Next
  <1>3. QED
    BY <1>1, <1>2, Invariance, PTL DEF Spec, ImplementsAgeVerification, AV!Spec
=============================================================================
