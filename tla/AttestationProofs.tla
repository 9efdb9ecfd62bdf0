-------------------------- MODULE AttestationProofs --------------------------
(* Proofs about Attestation: what the canonical bytes determine, and that an  *)
(* accepted attestation was issued, for every set of identifiers and clocks.  *)
EXTENDS Attestation, SharedLemmas

\* An identifier goes in front of the rest with its prefix.
LEMMA FrontIsPrefixed == \A id, rest : Front(id, rest) = Prefixed(id) \o rest
  BY DEF Front, Prefixed

\* The elements of a message.
Letter == Nat \cup Byte \cup Dobs \cup Nonces

\* Lengths are letters.
LEMMA NatIsLetters == Nat \subseteq Letter
  BY DEF Letter

\* The parts of a message are sequences of letters.
LEMMA MessageParts ==
  ASSUME NEW f \in Fields
  PROVE  /\ f.issuer \in Seq(Letter)
         /\ OrEmpty(f.session) \in Seq(Letter) /\ OrEmpty(f.client) \in Seq(Letter)
         /\ <<f.dob>> \in Seq(Letter) /\ <<f.timestamp, f.nonce>> \in Seq(Letter)
         /\ Binding(f) \in Seq(Letter)
         /\ Prefixed(f.issuer) \in Seq(Letter)
  <1>1. Seq(Byte) \subseteq Seq(Letter)
    BY SeqGrows DEF Letter
  <1>2. /\ f.issuer \in Seq(Letter)
        /\ OrEmpty(f.session) \in Seq(Letter) /\ OrEmpty(f.client) \in Seq(Letter)
    BY <1>1, IdAssumption, EmptySeq DEF Fields, Optional, OrEmpty
  <1>3. f.dob \in Letter /\ f.timestamp \in Letter /\ f.nonce \in Letter
    BY ClockAssumption DEF Fields, Letter, Time
  <1>4. <<f.dob>> \in Seq(Letter) /\ <<f.timestamp, f.nonce>> \in Seq(Letter)
    BY <1>3
  <1>5. ASSUME NEW s \in Seq(Letter)  PROVE Prefixed(s) \in Seq(Letter)
    <2>1. Len(s) \in Letter
      BY LenProperties DEF Letter
    <2>2. <<Len(s)>> \in Seq(Letter)
      BY <2>1
    <2>3. QED
      BY <2>2, ConcatProperties DEF Prefixed
  <1>6. Binding(f) \in Seq(Letter)
    <2>1. Prefixed(OrEmpty(f.session)) \o Prefixed(OrEmpty(f.client)) \in Seq(Letter)
      BY <1>2, <1>5, ConcatProperties
    <2>2. QED
      BY <2>1, EmptySeq DEF Binding
  <1>7. QED
    BY <1>2, <1>4, <1>5, <1>6

\* The optional identifiers are either both in the bytes or both absent.
LEMMA BindingDetermines ==
  ASSUME NEW f \in Fields, NEW g \in Fields, Binding(f) = Binding(g)
  PROVE  /\ Bound(f) <=> Bound(g)
         /\ OrEmpty(f.session) = OrEmpty(g.session)
         /\ OrEmpty(f.client) = OrEmpty(g.client)
  <1>1. /\ OrEmpty(f.session) \in Seq(Letter) /\ OrEmpty(f.client) \in Seq(Letter)
        /\ OrEmpty(g.session) \in Seq(Letter) /\ OrEmpty(g.client) \in Seq(Letter)
    BY MessageParts
  <1>2. Nat \subseteq Letter
    BY DEF Letter
  <1>3. ASSUME NEW s \in Seq(Letter)
        PROVE  /\ Prefixed(s) \in Seq(Letter)
               /\ Prefixed(s) # <<>>
               /\ Prefixed(s) \o <<>> = Prefixed(s)
    <2>1. <<Len(s)>> \in Seq(Letter) /\ Len(<<Len(s)>>) = 1
      BY <1>2, LenProperties
    <2>2. Prefixed(s) \in Seq(Letter) /\ Len(Prefixed(s)) = 1 + Len(s)
      BY <2>1, ConcatProperties DEF Prefixed
    <2>3. Len(s) \in Nat
      BY LenProperties
    <2>4. QED
      BY <2>2, <2>3, EmptySeq, ConcatEmptySeq
  <1>4. ASSUME NEW s \in Seq(Letter), NEW t \in Seq(Letter)
        PROVE  Prefixed(s) \o Prefixed(t) # <<>>
    BY <1>3, ConcatEqualIffEmpty
  <1>5. Bound(f) <=> Bound(g)
    BY <1>1, <1>4, Zenon DEF Binding
  <1>6. CASE ~Bound(f)
    BY <1>5, <1>6 DEF Bound, OrEmpty
  <1>7. CASE Bound(f)
    <2> DEFINE s == OrEmpty(f.session)  t == OrEmpty(g.session)
               c == OrEmpty(f.client)   d == OrEmpty(g.client)
    <2>1. Prefixed(s) \o Prefixed(c) = Prefixed(t) \o Prefixed(d)
      BY <1>5, <1>7 DEF Binding
    <2>2. s \in Seq(Letter) /\ t \in Seq(Letter) /\ c \in Seq(Letter) /\ d \in Seq(Letter)
      BY <1>1
    <2> HIDE DEF s, t, c, d
    <2>3. s = t /\ Prefixed(c) = Prefixed(d)
      <3> DEFINE u == Prefixed(c)  v == Prefixed(d)
      <3>1. u \in Seq(Letter) /\ v \in Seq(Letter) /\ Front(s, u) = Front(t, v)
        BY <1>3, <2>1, <2>2, FrontIsPrefixed
      <3> HIDE DEF u, v
      <3>2. s = t /\ u = v
        BY <2>2, <3>1, SplitFront, NatIsLetters
      <3>3. QED
        BY <3>2 DEF u, v
    <2>4. c = d
      <3>1. Front(c, <<>>) = Front(d, <<>>) /\ <<>> \in Seq(Letter)
        BY <2>3, EmptySeq, FrontIsPrefixed
      <3>2. QED
        BY <2>2, <3>1, SplitFront, NatIsLetters
    <2>5. QED
      BY <1>5, <2>3, <2>4 DEF s, t, c, d
  <1>8. QED
    BY <1>6, <1>7

\* The canonical bytes determine every field, up to None for an empty identifier.
THEOREM MessageDetermines ==
  ASSUME NEW f \in Fields, NEW g \in Fields, Message(f) = Message(g)
  PROVE  SameUpToEmpty(f, g)
  <1> DEFINE Suffix(h) == <<h.timestamp, h.nonce>> \o Binding(h)
  <1> DEFINE Rest(h) == Prefixed(h.issuer) \o Suffix(h)
  <1>1. ASSUME NEW h \in Fields
        PROVE  Suffix(h) \in Seq(Letter) /\ Rest(h) \in Seq(Letter)
    <2>1. Suffix(h) \in Seq(Letter)
      BY MessageParts, ConcatProperties
    <2>2. QED
      BY <2>1, MessageParts, ConcatProperties
  <1>2. <<f.dob>> \o Rest(f) = <<g.dob>> \o Rest(g)
    BY DEF Message
  <1>3. Rest(f) = Rest(g) /\ f.dob = g.dob
    <2>1. <<f.dob>> = <<g.dob>> /\ Rest(f) = Rest(g)
      <3> HIDE DEF Rest
      <3>1. Len(<<f.dob>>) = Len(<<g.dob>>)
        OBVIOUS
      <3>2. QED
        BY <1>1, <1>2, <3>1, MessageParts, SplitConcat
    <2>2. QED
      BY <2>1
  <1>4. f.issuer = g.issuer /\ Suffix(f) = Suffix(g)
    <2> DEFINE s == f.issuer  t == g.issuer  u == Suffix(f)  v == Suffix(g)
    <2>1. /\ s \in Seq(Letter) /\ t \in Seq(Letter) /\ u \in Seq(Letter) /\ v \in Seq(Letter)
          /\ Front(s, u) = Front(t, v)
      BY <1>1, <1>3, MessageParts, FrontIsPrefixed
    <2> HIDE DEF s, t, u, v
    <2>2. s = t /\ u = v
      BY <2>1, SplitFront, NatIsLetters
    <2>3. QED
      BY <2>2 DEF s, t, u, v
  <1>5. <<f.timestamp, f.nonce>> = <<g.timestamp, g.nonce>> /\ Binding(f) = Binding(g)
    <2> DEFINE s == <<f.timestamp, f.nonce>>  t == <<g.timestamp, g.nonce>>
               u == Binding(f)  v == Binding(g)
    <2>1. /\ s \in Seq(Letter) /\ t \in Seq(Letter) /\ u \in Seq(Letter) /\ v \in Seq(Letter)
          /\ Len(s) = Len(t) /\ s \o u = t \o v
      BY <1>4, MessageParts
    <2> HIDE DEF s, t, u, v
    <2>2. s = t /\ u = v
      BY <2>1, SplitConcat
    <2>3. QED
      BY <2>2 DEF s, t, u, v
  <1>6. f.timestamp = g.timestamp /\ f.nonce = g.nonce
    BY <1>5
  <1>7. QED
    BY <1>3, <1>4, <1>5, <1>6, BindingDetermines DEF SameUpToEmpty

------------------------------------------------------------------------------

\* Before any signature and any answer the invariant holds.
LEMMA InitInv == Init => IInv
  BY ClockAssumption DEF Init, IInv, TypeOK, SignedInv, AnswerInv, Time

\* The verdict is one of the five answers.
LEMMA VerdictType ==
  ASSUME NEW f, NEW m  PROVE Verdict(f, m) \in Verdicts
  BY DEF Verdict, Verdicts, Freshness

\* Signing fields of the issuer's present keeps the invariant.
LEMMA SignKeepsInv ==
  ASSUME IInv, NEW f \in Fields, f.timestamp = issuerClock, Sign(f)
  PROVE  IInv'
  <1>1. TypeOK'
    BY DEF IInv, TypeOK, Sign
  <1>2. SignedInv'
    BY ClockAssumption DEF IInv, TypeOK, SignedInv, Sign, Encodable, Time
  <1>3. Near(issuerClock, verifierClock)' /\ AnswerInv'
    BY DEF IInv, Sign, AnswerInv, Near
  <1>4. QED
    BY <1>1, <1>2, <1>3 DEF IInv

\* Every step of the issuer, the verifier and the clocks keeps the invariant.
LEMMA StepInv == IInv /\ [Next]_vars => IInv'
  <1> SUFFICES ASSUME IInv, [Next]_vars  PROVE IInv'
    OBVIOUS
  <1> USE ClockAssumption
  <1>1. CASE IssuerTick
    <2>1. TypeOK'
      BY <1>1 DEF IInv, TypeOK, IssuerTick, Time
    <2>2. SignedInv'
      BY <1>1 DEF IInv, TypeOK, SignedInv, IssuerTick, Encodable, Time, Fields
    <2>3. Near(issuerClock, verifierClock)' /\ AnswerInv'
      BY <1>1 DEF IssuerTick, AnswerInv, Near
    <2>4. QED
      BY <2>1, <2>2, <2>3 DEF IInv
  <1>2. CASE VerifierTick
    <2>1. TypeOK'
      BY <1>2 DEF IInv, TypeOK, VerifierTick, Time
    <2>2. SignedInv'
      BY <1>2 DEF IInv, SignedInv, VerifierTick, Encodable
    <2>3. Near(issuerClock, verifierClock)' /\ AnswerInv'
      BY <1>2 DEF VerifierTick, AnswerInv, Near
    <2>4. QED
      BY <2>1, <2>2, <2>3 DEF IInv
  <1>3. CASE Create
    <2>1. PICK d \in Dobs, i \in Ids, n \in Nonces :
            Sign(FieldsOf(d, i, issuerClock, n, Nothing, Nothing))
      BY <1>3 DEF Create
    <2> DEFINE f == FieldsOf(d, i, issuerClock, n, Nothing, Nothing)
    <2>2. f \in Fields /\ f.timestamp = issuerClock
      BY DEF IInv, TypeOK, FieldsOf, Fields, Optional
    <2>3. QED
      BY <2>1, <2>2, SignKeepsInv
  <1>4. CASE CreateBound
    <2>1. PICK d \in Dobs, i \in Ids, s \in Ids, c \in Ids, n \in Nonces :
            Sign(FieldsOf(d, i, issuerClock, n, s, c))
      BY <1>4 DEF CreateBound
    <2> DEFINE f == FieldsOf(d, i, issuerClock, n, s, c)
    <2>2. f \in Fields /\ f.timestamp = issuerClock
      BY DEF IInv, TypeOK, FieldsOf, Fields, Optional
    <2>3. QED
      BY <2>1, <2>2, SignKeepsInv
  <1>5. ASSUME NEW f \in Fields, NEW from \in signed, Verify(f, from)
        PROVE  IInv'
    <2>1. TypeOK'
      BY <1>5, VerdictType DEF IInv, TypeOK, Verify
    <2>2. SignedInv' /\ Near(issuerClock, verifierClock)'
      BY <1>5 DEF IInv, SignedInv, Verify, Encodable, Near
    <2>3. AnswerInv'
      BY <1>5 DEF AnswerInv, Verify, Verdict, Freshness
    <2>4. QED
      BY <2>1, <2>2, <2>3 DEF IInv
  <1>6. CASE UNCHANGED vars
    BY <1>6 DEF vars, IInv, TypeOK, SignedInv, AnswerInv, Encodable, Near, Verdict, Freshness
  <1>7. QED
    BY <1>1, <1>2, <1>3, <1>4, <1>5, <1>6 DEF Next, Finished

\* IInv is an invariant, for every set of identifiers, every limit and drift.
THEOREM Inductive == Spec => []IInv
  <1>1. IInv /\ [Next]_vars => IInv'
    BY StepInv
  <1>2. QED
    BY InitInv, <1>1, PTL DEF Spec

------------------------------------------------------------------------------

\* What an acceptance says: the fields are those that were signed, up to None for
\* an empty identifier, and both tests of the timestamp passed.
LEMMA AcceptedMeans ==
  ASSUME IInv, Accepted
  PROVE  /\ answer.fields \in Fields /\ answer.from \in signed
         /\ SameUpToEmpty(answer.fields, answer.from)
         /\ Freshness(answer.fields.timestamp) = "fresh"
  <1>1. answer # NoAnswer
    BY DEF Accepted, NoAnswer
  <1>2. answer.fields \in Fields /\ answer.from \in signed /\ answer.from \in Fields
    BY <1>1 DEF IInv, TypeOK
  <1>3. Verdict(answer.fields, Message(answer.from)) = "ok"
    BY <1>1 DEF IInv, AnswerInv, Accepted
  <1>4. /\ Freshness(answer.fields.timestamp) = "fresh"
        /\ Message(answer.fields) = Message(answer.from)
    BY <1>3 DEF Verdict, Freshness
  <1>5. QED
    BY <1>2, <1>4, MessageDetermines

\* Whatever was altered on the way, an accepted attestation was issued.
THEOREM AcceptedWasIssuedTheorem == Spec => []AcceptedWasIssued
  <1>1. IInv => AcceptedWasIssued
    BY AcceptedMeans DEF AcceptedWasIssued
  <1>2. QED
    BY Inductive, <1>1, PTL

\* An accepted attestation is recent by the clock of its issuer.
THEOREM AcceptedIsRecentTheorem == Spec => []AcceptedIsRecent
  <1>1. IInv => AcceptedIsRecent
    <2> SUFFICES ASSUME IInv, Accepted
                 PROVE  /\ answer.fields.timestamp <= issuerClock
                        /\ issuerClock - answer.fields.timestamp <= MaxAge + Drift
      BY DEF AcceptedIsRecent
    <2> DEFINE t == answer.fields.timestamp
    <2>1. t = answer.from.timestamp /\ answer.from \in signed
      BY AcceptedMeans DEF SameUpToEmpty
    <2>2. t <= issuerClock
      BY <2>1 DEF IInv, SignedInv
    <2>3. t \in Nat /\ issuerClock \in Nat /\ verifierClock \in Nat
      BY AcceptedMeans DEF IInv, TypeOK, Fields, Time
    <2>4. SaturatingSub(verifierClock, t) <= MaxAge
      BY <2>3, AcceptedMeans, ClockAssumption DEF Freshness, SaturatingSub
    <2>5. verifierClock - t <= MaxAge
      BY <2>3, <2>4, ClockAssumption DEF SaturatingSub
    <2>6. issuerClock - verifierClock <= Drift
      BY DEF IInv, Near
    <2>7. QED
      BY <2>2, <2>3, <2>5, <2>6, ClockAssumption
  <1>2. QED
    BY Inductive, <1>1, PTL

\* Drift within the tolerance never costs a holder a fresh, unaltered attestation.
THEOREM FreshIsAcceptedTheorem == Spec => []FreshIsAccepted
  <1>1. IInv => FreshIsAccepted
    <2> SUFFICES ASSUME IInv, answer # NoAnswer, answer.fields = answer.from,
                        issuerClock - verifierClock <= Tolerance,
                        verifierClock - issuerClock <= Tolerance,
                        issuerClock - answer.fields.timestamp + Tolerance <= MaxAge
                 PROVE  Accepted
      BY DEF FreshIsAccepted
    <2> DEFINE t == answer.fields.timestamp
    <2>1. answer.fields \in signed /\ answer.fields \in Fields
      BY DEF IInv, TypeOK
    <2>2. Encodable(answer.fields) /\ t <= issuerClock
      BY <2>1 DEF IInv, SignedInv
    <2>3. t \in Time /\ issuerClock \in Time /\ verifierClock \in Time
      BY <2>1 DEF IInv, TypeOK, Fields
    <2>4. t <= SaturatingAdd(verifierClock, Tolerance)
      BY <2>2, <2>3, ClockAssumption DEF SaturatingAdd, Time
    <2>5. SaturatingSub(verifierClock, t) <= MaxAge
      BY <2>2, <2>3, ClockAssumption DEF SaturatingSub, Time
    <2>6. Freshness(t) = "fresh"
      <3>1. SaturatingAdd(verifierClock, Tolerance) \in Int /\ SaturatingSub(verifierClock, t) \in Int
        BY <2>3, ClockAssumption DEF SaturatingAdd, SaturatingSub, Time
      <3>2. QED
        BY <2>3, <2>4, <2>5, <3>1, ClockAssumption DEF Freshness, Time
    <2>7. Verdict(answer.fields, Message(answer.from)) = "ok"
      BY <2>2, <2>6 DEF Verdict
    <2>8. QED
      BY <2>7 DEF IInv, AnswerInv, Accepted
  <1>2. QED
    BY Inductive, <1>1, PTL

\* The window of a timestamp opens once and closes once, for every clock.
THEOREM VerdictsAdvanceTheorem == Spec => VerdictsAdvance
  <1>1. IInv /\ [Next]_vars =>
          (\A t \in Time : Rank(Freshness(t)) <= Rank(Freshness(t)'))
    <2> SUFFICES ASSUME IInv, [Next]_vars, NEW t \in Time
                 PROVE  Rank(Freshness(t)) <= Rank(Freshness(t)')
      OBVIOUS
    <2>1. verifierClock' = verifierClock \/ verifierClock' = verifierClock + 1
      BY DEF Next, vars, IssuerTick, VerifierTick, Create, CreateBound, Sign, Verify, Finished
    <2>2. t \in Int /\ verifierClock \in Int
      BY ClockAssumption DEF IInv, TypeOK, Time
    <2>3. QED
      BY <2>1, <2>2, ClockAssumption DEF Freshness, Rank, SaturatingAdd, SaturatingSub
  <1>2. QED
    BY Inductive, <1>1, PTL DEF Spec, VerdictsAdvance
=============================================================================
