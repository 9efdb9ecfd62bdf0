--------------------------- MODULE MCPresentation ----------------------------
(* Instances of Presentation: six days on both sides of day 0, randomness of *)
(* two bits or three, names of one byte or two.                               *)
EXTENDS Presentation

Asked(issuer, dob, r, kid) ==
  [issuer |-> issuer, v |-> 2, kid |-> kid, dob |-> dob, r |-> r, iat |-> 5, exp |-> 6,
   schema |-> <<2>>]
MCRequests == {
  Asked(1, -1, <<1, 0>>, <<1>>), Asked(1, 1, <<1, 0>>, <<1>>), Asked(2, 0, <<0, 1>>, <<1>>),
  Asked(1, -2, <<1, 0, 0>>, <<1>>), Asked(1, 2, <<1, 0>>, <<1, 1>>), Asked(1, -1, <<1>>, <<1, 1, 1>>)}

Asks(origin, nonce, direction, cutoff, issuer) ==
  [origin |-> origin, nonce |-> nonce, direction |-> direction, cutoff |-> cutoff, issuer |-> issuer]
MCSessions == {
  Asks(<<1>>, <<1, 1>>, "Over", -1, 1), Asks(<<1, 1>>, <<1, 1>>, "Over", -1, 1),
  Asks(<<1>>, <<1, 2>>, "Under", 1, 1), Asks(<<1, 1>>, <<1, 2>>, "Over", 1, 2)}
MCOrigins == {<<1>>, <<1, 1>>}
MCRandomness == {<<1>>, <<1, 0>>, <<0, 1>>, <<1, 0, 0>>, <<1, 0, 1>>}

\* Numbers in base 7 that tell the personalizations apart.
MCPedersenHash(person, s) ==
  LET f[i \in 0..Len(s)] ==
        IF i = 0 THEN (IF person = "NoteCommitment" THEN 1 ELSE 2) ELSE 7 * f[i - 1] + s[i]
  IN f[Len(s)]
=============================================================================
