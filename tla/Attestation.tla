----------------------------- MODULE Attestation -----------------------------
(***************************************************************************)
(* DobAttestation of crypto-commons: an issuer signs attestations by its   *)
(* own clock, and a verifier with another clock is given, at any time and  *)
(* any number of times, attestations whose fields may have been altered.   *)
(*                                                                         *)
(* A signature is the byte string that was signed: Ed25519 and Blake2s are *)
(* taken as ideal, under the one issuer key.  The fixed-width fields (the  *)
(* date, the timestamp, the nonce) are one element each of the byte        *)
(* string, the domain separation tag in front of it is left out.           *)
(***************************************************************************)
EXTENDS Integers, Sequences, FiniteSets

CONSTANTS
  MaxWord,    \* the largest u64: no clock passes it
  MaxAge,     \* ATTESTATION_MAX_AGE_SECONDS
  Tolerance,  \* ATTESTATION_CLOCK_SKEW_TOLERANCE_SECONDS
  Drift,      \* how far the two clocks may be apart
  Byte,       \* the bytes identifiers are made of
  Ids,        \* issuer, session and client identifiers
  MaxLen,     \* the longest identifier with a one-byte length: 255
  Dobs,       \* dates of birth, in days
  Nonces,
  Nothing,    \* an identifier that is None
  MaxSigned   \* bound: attestations the issuer signs

ASSUME ClockAssumption ==
  {MaxWord, MaxAge, Tolerance, Drift} \subseteq Nat
ASSUME IdAssumption ==
  Ids \subseteq Seq(Byte) /\ Nothing \notin Ids /\ MaxLen \in Nat

Time == 0..MaxWord
Optional == Ids \cup {Nothing}

\* The fields of a DobAttestation but its signature.
Fields == [dob : Dobs, issuer : Ids, timestamp : Time, nonce : Nonces,
           session : Optional, client : Optional]

VARIABLES
  issuerClock,    \* the issuer's wall clock, in seconds
  verifierClock,  \* the verifier's
  signed,         \* history: the fields of the attestations the issuer signed
  answer          \* the verifier's last answer: the fields, and what it said

vars == <<issuerClock, verifierClock, signed, answer>>

------------------------------------------------------------------------------
(* compute_message_bytes. *)

Prefixed(id) == <<Len(id)>> \o id
OrEmpty(o) == IF o = Nothing THEN <<>> ELSE o
Bound(f) == f.session # Nothing \/ f.client # Nothing

\* Broken: one length for both identifiers.
BindingSharingLength(f) ==
  IF Bound(f) THEN Prefixed(OrEmpty(f.session) \o OrEmpty(f.client)) ELSE <<>>

\* Both identifiers when at least one is there.
Binding(f) ==
  IF Bound(f) THEN Prefixed(OrEmpty(f.session)) \o Prefixed(OrEmpty(f.client)) ELSE <<>>

\* Otherwise compute_message_bytes returns FieldTooLong.
Encodable(f) == \A id \in {f.issuer, OrEmpty(f.session), OrEmpty(f.client)} : Len(id) <= MaxLen

Message(f) ==
  <<f.dob>> \o (Prefixed(f.issuer) \o (<<f.timestamp, f.nonce>> \o Binding(f)))

------------------------------------------------------------------------------
(* verify_with_timestamp. *)

\* Broken: the sum wraps around.
AddWrapping(a, b) == (a + b) % (MaxWord + 1)

SaturatingAdd(a, b) == IF a + b > MaxWord THEN MaxWord ELSE a + b

\* Broken: the difference of the clocks has no sign.
DistanceOf(a, b) == IF a < b THEN b - a ELSE a - b

SaturatingSub(a, b) == IF a < b THEN 0 ELSE a - b

\* Broken: nothing is too old.
FreshnessWithoutAge(t) ==
  IF t > SaturatingAdd(verifierClock, Tolerance) THEN "InvalidInput" ELSE "fresh"

\* Broken: only the distance is compared.
FreshnessByDistance(t) ==
  IF DistanceOf(verifierClock, t) > MaxAge THEN "Expired"
  ELSE IF t > SaturatingAdd(verifierClock, Tolerance) THEN "InvalidInput" ELSE "fresh"

\* The two tests of the timestamp, in the code's order.
Freshness(t) ==
  IF t > SaturatingAdd(verifierClock, Tolerance) THEN "InvalidInput"
  ELSE IF SaturatingSub(verifierClock, t) > MaxAge THEN "Expired" ELSE "fresh"

Verdict(f, signature) ==
  IF Freshness(f.timestamp) # "fresh" THEN Freshness(f.timestamp)
  ELSE IF ~Encodable(f) THEN "FieldTooLong"
  ELSE IF Message(f) # signature THEN "InvalidSignature" ELSE "ok"

------------------------------------------------------------------------------

NoAnswer == [said |-> "nothing"]

Near(a, b) == a - b <= Drift /\ b - a <= Drift

Init ==
  /\ issuerClock \in Time /\ verifierClock \in Time
  /\ Near(issuerClock, verifierClock)
  /\ signed = {}
  /\ answer = NoAnswer

IssuerTick ==
  /\ issuerClock < MaxWord
  /\ issuerClock' = issuerClock + 1
  /\ Near(issuerClock', verifierClock)
  /\ answer' = NoAnswer
  /\ UNCHANGED <<verifierClock, signed>>

VerifierTick ==
  /\ verifierClock < MaxWord
  /\ verifierClock' = verifierClock + 1
  /\ Near(issuerClock, verifierClock')
  /\ answer' = NoAnswer
  /\ UNCHANGED <<issuerClock, signed>>

\* The issuer signs the fields it was given; its callers pass the current time.
Sign(f) ==
  /\ Encodable(f)
  /\ Cardinality(signed) < MaxSigned
  /\ signed' = signed \cup {f}
  /\ answer' = NoAnswer
  /\ UNCHANGED <<issuerClock, verifierClock>>

FieldsOf(d, i, t, n, s, c) ==
  [dob |-> d, issuer |-> i, timestamp |-> t, nonce |-> n, session |-> s, client |-> c]

\* Broken: the timestamp may lie ahead of the issuer's clock.
CreateForLater == \E d \in Dobs, i \in Ids, n \in Nonces, t \in Time :
  Sign(FieldsOf(d, i, t, n, Nothing, Nothing))

Create == \E d \in Dobs, i \in Ids, n \in Nonces :
  Sign(FieldsOf(d, i, issuerClock, n, Nothing, Nothing))

CreateBound == \E d \in Dobs, i, s, c \in Ids, n \in Nonces :
  Sign(FieldsOf(d, i, issuerClock, n, s, c))

\* The verifier is given fields with the signature that was made for `from'.  It
\* keeps nothing, so a second call before the next tick would show nothing new.
Verify(f, from) ==
  /\ answer = NoAnswer
  /\ answer' = [fields |-> f, from |-> from, said |-> Verdict(f, Message(from))]
  /\ UNCHANGED <<issuerClock, verifierClock, signed>>

\* The clocks are at the end of u64.
Finished == issuerClock = MaxWord /\ verifierClock = MaxWord /\ UNCHANGED vars

Next ==
  \/ IssuerTick \/ VerifierTick
  \/ Create \/ CreateBound
  \/ \E f \in Fields, from \in signed : Verify(f, from)
  \/ Finished

Spec == Init /\ [][Next]_vars

------------------------------------------------------------------------------

Verdicts == {"InvalidInput", "Expired", "FieldTooLong", "InvalidSignature", "ok"}

\* Clocks stay words, and every answer is about fields and a signature that exist.
TypeOK ==
  /\ issuerClock \in Time /\ verifierClock \in Time
  /\ signed \subseteq Fields
  /\ \/ answer = NoAnswer
     \/ /\ answer \in [fields : Fields, from : signed, said : Verdicts]

Accepted == answer.said = "ok"

\* A missing identifier and an empty one are signed alike next to one that is there.
SameUpToEmpty(f, g) ==
  /\ f.dob = g.dob /\ f.issuer = g.issuer
  /\ f.timestamp = g.timestamp /\ f.nonce = g.nonce
  /\ OrEmpty(f.session) = OrEmpty(g.session)
  /\ OrEmpty(f.client) = OrEmpty(g.client)
  /\ Bound(f) <=> Bound(g)

\* However the fields were altered, an accepted attestation is one the issuer
\* signed: same date, issuer, time, nonce and binding, up to None for an empty
\* identifier.  Identifiers cannot be shifted into each other or dropped.
AcceptedWasIssued == Accepted =>
  \E g \in signed : SameUpToEmpty(answer.fields, g)

\* By the issuer's own clock, which the verifier never reads, an accepted
\* attestation lies in the past and is no older than the limit and the drift.
AcceptedIsRecent == Accepted =>
  /\ answer.fields.timestamp <= issuerClock
  /\ issuerClock - answer.fields.timestamp <= MaxAge + Drift

\* With clocks no further apart than the tolerance, an unaltered attestation is
\* accepted until its age comes within the tolerance of the limit: also when the
\* verifier's clock is behind the signature, and at both ends of u64.
FreshIsAccepted ==
  /\ answer # NoAnswer
  /\ answer.fields = answer.from
  /\ issuerClock - verifierClock <= Tolerance /\ verifierClock - issuerClock <= Tolerance
  /\ issuerClock - answer.fields.timestamp + Tolerance <= MaxAge
  => Accepted

Rank(v) == CASE v = "InvalidInput" -> 0 [] v = "fresh" -> 1 [] v = "Expired" -> 2

\* As its clock goes on the verifier takes every timestamp from "in the future"
\* over "fresh" to "expired" and never back: no expired attestation revives.
VerdictsAdvance ==
  [][\A t \in Time : Rank(Freshness(t)) <= Rank(Freshness(t)')]_vars

\* "timestamp <= current_time // not in future".
AcceptedIsNotInFuture == Accepted => answer.fields.timestamp <= verifierClock

\* The inductive invariant: what was signed can be encoded and was signed in the
\* past of the issuer's clock, which stays near the verifier's; the answer is the
\* verdict on its fields.
SignedInv == \A f \in signed : Encodable(f) /\ f.timestamp <= issuerClock

AnswerInv == answer # NoAnswer =>
  answer.said = Verdict(answer.fields, Message(answer.from))

\* The whole inductive invariant of attestations.
IInv == TypeOK /\ SignedInv /\ Near(issuerClock, verifierClock) /\ AnswerInv
=============================================================================
