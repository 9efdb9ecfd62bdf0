------------------------------- MODULE Jubjub -------------------------------
(***************************************************************************)
(* The curve gadgets of crypto-circuit-age, over a small field.            *)
(*                                                                         *)
(* A gadget allocates numbers and constrains them by equations; whoever    *)
(* makes the proof chooses the numbers.  So a gadget is here the SET of    *)
(* results its constraints allow: it is complete when the set is never     *)
(* empty (the honest prover's invert() never meets a zero) and sound when  *)
(* the set holds the one right result and nothing else.                    *)
(***************************************************************************)
EXTENDS Integers, Sequences, FiniteSets

CONSTANTS
  P,                 \* the prime of the base field
  EDWARDS_D,         \* the curve is -u^2 + v^2 = 1 + d u^2 v^2
  MONTGOMERY_A,      \* of the birationally equivalent Montgomery curve
  MONTGOMERY_SCALE,  \* sqrt(4 / (a - d))
  Order,             \* the order of the prime subgroup: the scalar field
  FieldBits          \* bits that hold a field element: 255 in the code

Field == 0..(P - 1)

\* P is a prime: a product is zero only when a factor is.
ASSUME FieldAssumption ==
  /\ P \in Nat /\ P > 2 /\ EDWARDS_D \in Field /\ FieldBits \in Nat
  /\ \A a, b \in Field : (a * b) % P = 0 => a = 0 \/ b = 0

\* The order of the subgroup is a prime as well.
ASSUME OrderAssumption ==
  /\ Order \in Nat /\ Order > 2
  /\ \A a, b \in 0..(Order - 1) : (a * b) % Order = 0 => a = 0 \/ b = 0

\* -1 is a square and d is not, so no addition has a zero denominator; the
\* Montgomery constants belong to the same curve.
ASSUME CurveAssumption ==
  /\ \E x \in Field : (x * x + 1) % P = 0
  /\ ~ \E x \in Field : (x * x - EDWARDS_D) % P = 0
  /\ MONTGOMERY_A \in Field /\ MONTGOMERY_SCALE \in Field
  /\ (MONTGOMERY_A * (EDWARDS_D + 1) + 2 * (EDWARDS_D - 1)) % P = 0
  /\ (((MONTGOMERY_SCALE * MONTGOMERY_SCALE) % P) * (EDWARDS_D + 1) + 4) % P = 0
  /\ P <= 2^FieldBits

Times(a, b) == (a * b) % P
invert == [a \in Field \ {0} |-> CHOOSE x \in Field : (a * x) % P = 1]

\* The x that satisfy the constraint a * x = b: any x at all when both are zero.
Solve(a, b) == LET n == a % P IN
  IF n # 0 THEN {Times(invert[n], b % P)} ELSE IF b % P = 0 THEN Field ELSE {}

------------------------------------------------------------------------------
(* Edwards points. *)

Neutral == [u |-> 0, v |-> 1]

OnCurve(u, v) == LET u2 == Times(u, u)  v2 == Times(v, v) IN
  (v2 - u2 - 1 - EDWARDS_D * Times(u2, v2)) % P = 0

\* interpret: the points that witness can allocate.
Curve == {pt \in [u : Field, v : Field] : OnCurve(pt.u, pt.v)}

\* The results of dividing (nu, nv) by (1 + c, 1 - c).
Quotients(nu, nv, c) ==
  {[u |-> x, v |-> y] : x \in Solve(1 + c, nu), y \in Solve(1 - c, nv)}

\* Broken: the denominators of the two coordinates are exchanged.
DoubleSwapped(p) == LET t == Times(p.u + p.v, p.u + p.v)
                        a == Times(p.u, p.v)
                        c == Times(EDWARDS_D * a, a) IN Quotients(2 * a, t - 2 * a, 0 - c)

Double(p) == LET t == Times(p.u + p.v, p.u + p.v)
                 a == Times(p.u, p.v)
                 c == Times(EDWARDS_D * a, a) IN Quotients(2 * a, t - 2 * a, c)

Add(p, q) == LET t == Times(p.u + p.v, q.u + q.v)
                 a == Times(q.v, p.u)
                 b == Times(q.u, p.v)
                 c == Times(Times(EDWARDS_D, a), b) IN Quotients(a + b, t - a - b, c)

\* Three doublings must leave u # 0.
assert_not_small_order(p) == LET Doubled(S) == UNION {Double(q) : q \in S} IN
  \E q \in Doubled(Doubled(Doubled({p}))) : q.u # 0

conditionally_select(p, bit) == IF bit = 1 THEN p ELSE Neutral

\* One turn of the loop of mul: the running base and the running sum.
MulStep(S, bit) == UNION {UNION {
  {[base |-> b, sum |-> r] : r \in Add(x.sum, conditionally_select(b, bit))} :
    b \in Double(x.base)} : x \in S}

\* The results of mul for a point and bits, lowest bit first.
mul(p, bits) ==
  LET after[i \in 1..Len(bits)] ==
        IF i = 1 THEN {[base |-> p, sum |-> conditionally_select(p, bits[1])]}
                 ELSE MulStep(after[i - 1], bits[i])
  IN {x.sum : x \in after[Len(bits)]}

------------------------------------------------------------------------------
(* Bits. *)

BitsOf(x, n) == [i \in 1..n |-> (x \div 2^(i - 1)) % 2]
ValueOf(bits) == LET sum[i \in 0..Len(bits)] ==
                       IF i = 0 THEN 0 ELSE sum[i - 1] + bits[i] * 2^(i - 1)
                 IN sum[Len(bits)]

\* Broken: the bits need only add up to the number modulo the prime.
to_bits_le(x) == {BitsOf(y, FieldBits) : y \in {z \in 0..(2^FieldBits - 1) : z % P = x}}

\* to_bits_le_strict of bellman: bits that add up to the number, below the prime.
to_bits_le_strict(x) ==
  {BitsOf(y, FieldBits) : y \in {z \in {x, x + P} : z < P}}

\* The bits of v, then the lowest bit of u.
repr(p) == {Append(v, u[1]) : v \in to_bits_le_strict(p.v), u \in to_bits_le_strict(p.u)}
=============================================================================
