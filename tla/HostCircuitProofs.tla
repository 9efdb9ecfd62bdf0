-------------------------- MODULE HostCircuitProofs --------------------------
(* Proofs about the curve and about HostCircuit, for every field, curve and *)
(* width: the curve is a group, and the constraints of the gadgets leave a  *)
(* prover no result but the host's.                                         *)
EXTENDS HostCircuit, SharedLemmas

------------------------------------------------------------------------------
(* The field: numbers up to multiples of P. *)

Zero(x) == Divides(P, x)

\* What P divides, and residues, for the prime of the field.
LEMMA Residues ==
  ASSUME NEW x \in Int, NEW y \in Int
  PROVE  /\ Zero(x) <=> x % P = 0
         /\ Zero(x - y) <=> x % P = y % P
         /\ x % P \in Field /\ Zero(x - (x % P)) /\ Zero((x % P) - x)
  <1>1. P \in Nat \ {0}
    BY FieldAssumption
  <1>2. Zero(x) <=> x % P = 0
    BY <1>1, DividesMeansZero DEF Zero
  <1>3. /\ x % P \in 0..(P - 1) /\ Zero(x - (x % P)) /\ Zero((x % P) - x)
        /\ Zero(x - y) <=> x % P = y % P
    BY <1>1, SameResidue DEF Zero
  <1>4. QED
    BY <1>2, <1>3 DEF Field

\* Four multiples of P, each with a factor, add up to one.
LEMMA Combination ==
  ASSUME NEW a \in Int, NEW b \in Int, NEW c \in Int, NEW d \in Int,
         NEW w \in Int, NEW x \in Int, NEW y \in Int, NEW z \in Int,
         Zero(w), Zero(x), Zero(y), Zero(z)
  PROVE  Zero(a * w + b * x + c * y + d * z)
  <1>1. ASSUME NEW j \in Int, NEW k \in Int, Zero(k)  PROVE Zero(j * k)
    <2>1. PICK l \in Int : k = P * l
      BY <1>1 DEF Zero, Divides
    <2>2. j * k = P * (j * l) /\ j * l \in Int
      BY <2>1, FieldAssumption
    <2>3. QED
      BY <2>2 DEF Zero, Divides
  <1>2. ASSUME NEW j \in Int, NEW k \in Int, Zero(j), Zero(k)  PROVE Zero(j + k)
    BY <1>2, FieldAssumption, DividesSums DEF Zero
  <1>3. a * w \in Int /\ b * x \in Int /\ c * y \in Int /\ d * z \in Int
    OBVIOUS
  <1>4. Zero(a * w + b * x) /\ Zero(a * w + b * x + c * y)
    <2>1. Zero(a * w + b * x) /\ a * w + b * x \in Int
      <3>1. Zero(a * w) /\ Zero(b * x)
        BY <1>1
      <3>2. QED
        BY <3>1, <1>2, <1>3
    <2>2. Zero((a * w + b * x) + c * y)
      BY <2>1, <1>1, <1>2, <1>3
    <2>3. QED
      BY <2>1, <2>2
  <1>5. a * w + b * x + c * y \in Int
    OBVIOUS
  <1>6. QED
    BY <1>1, <1>2, <1>3, <1>4, <1>5

\* Two of them, two of them without factors, and one that is replaced by another.
LEMMA Combination2 ==
  ASSUME NEW a \in Int, NEW b \in Int, NEW w \in Int, NEW x \in Int, Zero(w), Zero(x)
  PROVE  Zero(a * w + b * x) /\ Zero(w + x) /\ Zero(w - x) /\ Zero(a * w)
  <1> DEFINE zero == 0  one == 1  minus == -1
  <1>1. zero \in Int /\ one \in Int /\ minus \in Int
    OBVIOUS
  <1>2. /\ a * w + b * x = a * w + b * x + zero * x + zero * x
        /\ w + x = one * w + one * x + zero * x + zero * x
        /\ w - x = one * w + minus * x + zero * x + zero * x
        /\ a * w = a * w + zero * x + zero * x + zero * x
    OBVIOUS
  <1> HIDE DEF zero, one, minus
  <1>3. /\ Zero(a * w + b * x + zero * x + zero * x)
        /\ Zero(one * w + one * x + zero * x + zero * x)
        /\ Zero(one * w + minus * x + zero * x + zero * x)
        /\ Zero(a * w + zero * x + zero * x + zero * x)
    BY <1>1, Combination
  <1>4. QED
    BY <1>2, <1>3

\* The field has no divisors of zero.
LEMMA ZeroProduct ==
  ASSUME NEW x \in Int, NEW y \in Int, Zero(x * y)
  PROVE  Zero(x) \/ Zero(y)
  <1> DEFINE a == x % P  b == y % P
  <1>1. a \in Field /\ b \in Field /\ Zero(a - x) /\ Zero(b - y) /\ a \in Int /\ b \in Int
    <2>1. a \in Field /\ b \in Field /\ Zero(a - x) /\ Zero(b - y)
      BY Residues
    <2>2. QED
      BY <2>1, FieldAssumption DEF Field
  <1> HIDE DEF a, b
  <1> DEFINE da == a - x  db == b - y  xy == x * y
  <1>2. da \in Int /\ db \in Int /\ xy \in Int /\ a * b = (b * da + x * db) + xy
    BY <1>1
  <1>3. Zero(da) /\ Zero(db) /\ Zero(xy)
    BY <1>1
  <1> HIDE DEF da, db, xy
  <1>4. Zero(b * da + x * db)
    BY <1>1, <1>2, <1>3, Combination2, Zenon
  <1>5. b * da + x * db \in Int /\ a * b \in Int
    BY <1>1, <1>2
  <1>6. Zero(a * b)
    BY <1>1, <1>2, <1>3, <1>4, <1>5, Combination2, Zenon
  <1>7. (a * b) % P = 0
    BY <1>5, <1>6, Residues
  <1>8. a = 0 \/ b = 0
    BY <1>1, <1>7, FieldAssumption
  <1>9. QED
    BY <1>8, Residues DEF a, b

\* Every number that is not zero has an inverse.
LEMMA Inverts ==
  ASSUME NEW a \in Field \ {0}
  PROVE  invert[a] \in Field /\ Zero(a * invert[a] - 1)
  <1>1. /\ P \in Nat /\ P > 1 /\ a \in 1..(P - 1)
        /\ \A b, c \in 0..(P - 1) : (b * c) % P = 0 => b = 0 \/ c = 0
    BY FieldAssumption DEF Field
  <1>2. PICK x \in 0..(P - 1) : (a * x) % P = 1
    BY <1>1, PrimeInverts
  <1>3. invert[a] \in Field /\ (a * invert[a]) % P = 1
    BY <1>2 DEF invert, Field
  <1>4. 1 % P = 1
    BY FieldAssumption
  <1>5. a * invert[a] \in Int
    BY <1>3, FieldAssumption DEF Field
  <1>6. QED
    BY <1>3, <1>4, <1>5, Residues

\* Numbers that differ by a multiple of P are zero together.
LEMMA ZeroTogether ==
  ASSUME NEW x \in Int, NEW y \in Int, Zero(x - y)
  PROVE  Zero(x) <=> Zero(y)
  <1>1. x % P = y % P
    BY Residues
  <1>2. Zero(x) <=> x % P = 0
    BY Residues
  <1>3. Zero(y) <=> y % P = 0
    BY Residues
  <1>4. QED
    BY <1>1, <1>2, <1>3

\* Times computes the product, up to a multiple.
LEMMA TimesMeans ==
  ASSUME NEW x \in Int, NEW y \in Int
  PROVE  /\ Times(x, y) \in Field /\ Times(x, y) \in Int
         /\ Zero(Times(x, y) - x * y) /\ Times(x, y) = Times(y, x)
  <1>1. x * y \in Int /\ x * y = y * x
    OBVIOUS
  <1>2. (x * y) % P \in Field /\ Zero(((x * y) % P) - x * y)
    BY <1>1, Residues
  <1>3. QED
    BY <1>1, <1>2, FieldAssumption DEF Times, Field

\* The curve's equation, without residues.
Equation(u, v) == v * v - u * u - 1 - EDWARDS_D * ((u * u) * (v * v))

LEMMA OnCurveMeans ==
  ASSUME NEW u \in Field, NEW v \in Field
  PROVE  OnCurve(u, v) <=> Zero(Equation(u, v))
  <1> DEFINE U == Times(u, u)  V == Times(v, v)  W == Times(U, V)
             eU == U - u * u  eV == V - v * v  eW == W - U * V
             F == V - U - 1 - EDWARDS_D * W
             cU == -1 - EDWARDS_D * (v * v)  cV == 1 - EDWARDS_D * U  cW == 0 - EDWARDS_D
  <1>1. u \in Int /\ v \in Int /\ EDWARDS_D \in Int
    BY FieldAssumption DEF Field
  <1>2. U \in Int /\ V \in Int /\ Zero(eU) /\ Zero(eV)
    BY <1>1, TimesMeans
  <1>3. W \in Int /\ Zero(eW)
    BY <1>2, TimesMeans
  <1>4. OnCurve(u, v) <=> F % P = 0
    BY DEF OnCurve
  <1> HIDE DEF U, V, W
  <1>5. /\ F \in Int /\ Equation(u, v) \in Int
        /\ eU \in Int /\ eV \in Int /\ eW \in Int /\ cU \in Int /\ cV \in Int /\ cW \in Int
    BY <1>1, <1>2, <1>3 DEF Equation
  <1>6. F - Equation(u, v) = (cU * eU + cV * eV) + cW * eW
    BY <1>1, <1>2, <1>3 DEF Equation
  <1> HIDE DEF F, eU, eV, eW, cU, cV, cW
  <1>7. Zero(cU * eU + cV * eV) /\ Zero(cW * eW)
    BY <1>2, <1>3, <1>5, Combination2, Zenon
  <1>8. cU * eU + cV * eV \in Int /\ cW * eW \in Int /\ 0 \in Int
    BY <1>5
  <1>9. Zero((cU * eU + cV * eV) + cW * eW)
    BY <1>7, <1>8, Combination2, Zenon
  <1>10. QED
    BY <1>4, <1>5, <1>6, <1>9, ZeroTogether, Residues

\* d is no square, and neither is minus d: a^2 + d b^2 = 0 only for b = 0.
LEMMA NoSquareRoot ==
  ASSUME NEW a \in Int, NEW b \in Int, Zero(a * a + EDWARDS_D * (b * b))
  PROVE  Zero(b)
  <1>1. SUFFICES ASSUME ~ Zero(b) PROVE FALSE
    OBVIOUS
  <1>2. EDWARDS_D \in Int /\ P \in Nat \ {0} /\ Field \subseteq Int
    BY FieldAssumption DEF Field
  <1>3. PICK i \in Field : (i * i + 1) % P = 0
    BY CurveAssumption
  <1> DEFINE r == b % P
  <1>4. r \in Field \ {0} /\ r \in Int /\ Zero(r - b)
    BY <1>1, <1>2, Residues
  <1> DEFINE n == invert[r]
  <1>5. n \in Field /\ n \in Int /\ Zero(r * n - 1)
    BY <1>2, <1>4, Inverts
  <1> DEFINE y == i * a * n  x == y % P
  <1>6. y \in Int /\ x \in Field /\ x \in Int /\ Zero(x - y)
    <2>1. y \in Int
      BY <1>2, <1>3, <1>5
    <2> HIDE DEF y
    <2>2. QED
      BY <2>1, <1>2, Residues
  <1> DEFINE e1 == i * i + 1  e2 == a * a + EDWARDS_D * (b * b)  e3 == r * n - 1
             e4 == r - b  e5 == x - y
             c1 == (a * n) * (a * n)  c2 == 0 - n * n
             c3 == EDWARDS_D * (b * n + 1)  c4 == 0 - EDWARDS_D * n * (b * n + 1)  c5 == x + y
  <1>7. /\ Zero(e1) /\ Zero(e2) /\ Zero(e3) /\ Zero(e4) /\ Zero(e5)
    <2>1. i * i + 1 \in Int
      BY <1>2, <1>3
    <2>2. QED
      BY <2>1, <1>3, <1>4, <1>5, <1>6, Residues
  <1> HIDE DEF r, n, x
  <1>8. /\ e1 \in Int /\ e2 \in Int /\ e3 \in Int /\ e4 \in Int /\ e5 \in Int
        /\ c1 \in Int /\ c2 \in Int /\ c3 \in Int /\ c4 \in Int /\ c5 \in Int
    BY <1>2, <1>3, <1>4, <1>5, <1>6
  <1>9. x * x - EDWARDS_D = (c1 * e1 + c2 * e2 + c3 * e3 + c4 * e4) + c5 * e5
    BY <1>2, <1>3, <1>4, <1>5, <1>6
  <1> HIDE DEF e1, e2, e3, e4, e5, c1, c2, c3, c4, c5
  <1>10. Zero(c1 * e1 + c2 * e2 + c3 * e3 + c4 * e4) /\ Zero(c5 * e5)
    <2>1. Zero(c1 * e1 + c2 * e2 + c3 * e3 + c4 * e4)
      BY <1>7, <1>8, Combination, Zenon
    <2>2. QED
      BY <2>1, <1>7, <1>8, Combination2, Zenon
  <1>11. c1 * e1 + c2 * e2 + c3 * e3 + c4 * e4 \in Int /\ c5 * e5 \in Int /\ 0 \in Int
    BY <1>8
  <1>12. Zero((c1 * e1 + c2 * e2 + c3 * e3 + c4 * e4) + c5 * e5)
    BY <1>10, <1>11, Combination2, Zenon
  <1>13. (x * x - EDWARDS_D) % P = 0
    <2>1. x * x - EDWARDS_D \in Int
      BY <1>2, <1>6
    <2>2. QED
      BY <2>1, <1>9, <1>12, Residues
  <1>14. QED
    BY <1>6, <1>13, CurveAssumption

------------------------------------------------------------------------------
(* The addition of the curve. *)

\* What a point of the curve is.
LEMMA PointMeans ==
  ASSUME NEW p \in Curve
  PROVE  /\ p = [u |-> p.u, v |-> p.v] /\ p.u \in Field /\ p.v \in Field
         /\ p.u \in Int /\ p.v \in Int /\ Zero(Equation(p.u, p.v))
  <1>1. p \in [u : Field, v : Field] /\ OnCurve(p.u, p.v)
    BY DEF Curve
  <1>2. p.u \in Field /\ p.v \in Field /\ p = [u |-> p.u, v |-> p.v]
    BY <1>1
  <1>3. Field \subseteq Int
    BY FieldAssumption DEF Field
  <1>4. QED
    BY <1>1, <1>2, <1>3, OnCurveMeans

\* The product of the coordinates in a sum's denominators, and its numerators.
Cross(p, q) == EDWARDS_D * (p.u * p.v * q.u * q.v)
SumU(p, q) == p.u * q.v + p.v * q.u
SumV(p, q) == p.v * q.v + p.u * q.u

\* A denominator of zero would make d a square: were the cross product c a square
\* root of one, (v1 + c i u1)^2 + d (i u1 v1 (v2 + i u2))^2 would be zero for both
\* square roots i of minus one.
LEMMA CrossNoRootOfOne ==
  ASSUME NEW p \in Curve, NEW q \in Curve
  PROVE  ~ Zero(Cross(p, q) * Cross(p, q) - 1)
  <1> DEFINE d == EDWARDS_D  u1 == p.u  v1 == p.v  u2 == q.u  v2 == q.v  x == Cross(p, q)
  <1>1. SUFFICES ASSUME Zero(x * x - 1) PROVE FALSE
    OBVIOUS
  <1>2. /\ u1 \in Int /\ v1 \in Int /\ u2 \in Int /\ v2 \in Int /\ d \in Int
        /\ Zero(Equation(u1, v1)) /\ Zero(Equation(u2, v2))
        /\ P \in Nat \ {0} /\ Field \subseteq Int
    BY PointMeans, FieldAssumption DEF Field
  <1>3. x \in Int /\ x = d * (u1 * v1 * u2 * v2)
    BY <1>2 DEF Cross
  <1> HIDE DEF d, u1, v1, u2, v2, x
  <1>4. ASSUME NEW i \in Int, Zero(i * i + 1)
        PROVE  Zero(i * u1 * v1 * (v2 + i * u2))
    <2> DEFINE A == v1 + x * i * u1  B == i * u1 * v1 * (v2 + i * u2)
               e1 == i * i + 1  e2 == Equation(u1, v1)  e3 == Equation(u2, v2)  e4 == x * x - 1
               c1 == (x * x) * (u1 * u1) + d * (u1 * u1) * (v1 * v1) * (v2 * v2)
                       + d * (i * i - 1) * (u1 * u1) * (v1 * v1) * (u2 * u2)
                       + 2 * x * i * u1 * v1
               c2 == 1  c3 == 0 - d * (u1 * u1) * (v1 * v1)  c4 == 0 - (1 + u1 * u1)
    <2>1. Zero(e1) /\ Zero(e2) /\ Zero(e3) /\ Zero(e4)
      BY <1>1, <1>2, <1>4
    <2>2. /\ e1 \in Int /\ e2 \in Int /\ e3 \in Int /\ e4 \in Int
          /\ c1 \in Int /\ c2 \in Int /\ c3 \in Int /\ c4 \in Int
      BY <1>2, <1>3 DEF Equation, d
    <2>3. A \in Int /\ B \in Int
      BY <1>2, <1>3
    <2>4. A * A + d * (B * B) = c1 * e1 + c2 * e2 + c3 * e3 + c4 * e4
      BY <1>2, <1>3, <1>4 DEF Equation, d
    <2> HIDE DEF A, B, c1, c2, c3, c4, e1, e2, e3, e4
    <2>5. Zero(c1 * e1 + c2 * e2 + c3 * e3 + c4 * e4)
      BY <2>1, <2>2, Combination, Zenon
    <2>6. Zero(B)
      BY <2>3, <2>4, <2>5, NoSquareRoot DEF d
    <2>7. QED
      BY <2>6 DEF B
  <1>5. PICK i \in Int : Zero(i * i + 1)
    <2>1. PICK i \in Field : (i * i + 1) % P = 0
      BY CurveAssumption
    <2>2. i \in Int /\ i * i + 1 \in Int
      BY <1>2, <2>1
    <2>3. QED
      BY <2>1, <2>2, Residues
  <1> DEFINE j == 0 - i  f == i * u1 * v1 * (v2 + i * u2)  g == j * u1 * v1 * (v2 + j * u2)
  <1>6. Zero(f) /\ Zero(g)
    <2>1. j \in Int /\ j * j + 1 = i * i + 1
      BY <1>5
    <2> HIDE DEF j
    <2>2. QED
      BY <1>4, <1>5, <2>1
  <1>7. f - g = 2 * i * (u1 * v1 * v2)
    BY <1>2, <1>5
  <1>8. Zero(f - g)
    <2>1. f \in Int /\ g \in Int /\ 0 \in Int
      BY <1>2, <1>5
    <2> HIDE DEF f, g
    <2>2. QED
      BY <1>6, <2>1, Combination2, Zenon
  <1>9. ~ Zero(1) /\ ~ Zero(2)
    <2>1. 1 % P = 1 /\ 2 % P = 2 /\ 1 \in Int /\ 2 \in Int
      BY FieldAssumption
    <2>2. Zero(1) <=> 1 % P = 0
      BY Residues
    <2>3. Zero(2) <=> 2 % P = 0
      BY Residues
    <2>4. QED
      BY <2>1, <2>2, <2>3
  <1>10. ~ Zero(i)
    <2>1. ASSUME Zero(i) PROVE FALSE
      <3> DEFINE ii == i * i + 1  m == 0 - i  one == 1
      <3>1. one \in Int /\ ii \in Int /\ m \in Int /\ one * ii + m * i = 1 /\ Zero(ii)
        BY <1>5
      <3> HIDE DEF one, ii, m
      <3>2. Zero(one * ii + m * i)
        BY <1>5, <2>1, <3>1, Combination2, Zenon
      <3>3. QED
        BY <1>9, <3>1, <3>2
    <2>2. QED
      BY <2>1
  <1>11. Zero(u1 * v1 * v2)
    <2> DEFINE k == u1 * v1 * v2
    <2>1. k \in Int
      BY <1>2
    <2>2. Zero(2 * i * k)
      BY <1>7, <1>8
    <2> HIDE DEF k
    <2>3. Zero(2 * i) \/ Zero(k)
      BY <1>5, <2>1, <2>2, ZeroProduct
    <2>4. ~ Zero(2 * i)
      BY <1>5, <1>9, <1>10, ZeroProduct
    <2>5. QED
      BY <2>3, <2>4 DEF k
  <1>12. QED
    <2> DEFINE k == u1 * v1 * v2  c == d * u2 * x  xx == x * x - 1  minus == -1
    <2>1. k \in Int /\ c \in Int /\ xx \in Int /\ minus \in Int
      BY <1>2, <1>3
    <2>2. c * k + minus * xx = 1
      BY <1>2, <1>3
    <2>3. Zero(k) /\ Zero(xx)
      BY <1>1, <1>11
    <2> HIDE DEF k, c, xx, minus
    <2>4. Zero(c * k + minus * xx)
      BY <2>1, <2>3, Combination2, Zenon
    <2>5. QED
      BY <1>9, <2>2, <2>4

\* No denominator of an addition is zero.
LEMMA Denominators ==
  ASSUME NEW p \in Curve, NEW q \in Curve
  PROVE  /\ Cross(p, q) \in Int /\ SumU(p, q) \in Int /\ SumV(p, q) \in Int
         /\ ~ Zero(1 + Cross(p, q)) /\ ~ Zero(1 - Cross(p, q))
  <1> DEFINE x == Cross(p, q)  y == 1 + x  z == 1 - x  minus == -1
  <1>1. x \in Int /\ SumU(p, q) \in Int /\ SumV(p, q) \in Int
    BY PointMeans, FieldAssumption DEF Cross, SumU, SumV, Field
  <1>2. ~ Zero(x * x - 1)
    BY CrossNoRootOfOne
  <1> HIDE DEF x
  <1>3. /\ y \in Int /\ z \in Int /\ minus \in Int /\ 0 - z \in Int /\ 0 - y \in Int
        /\ x * x - 1 = (0 - z) * y /\ x * x - 1 = (0 - y) * z
    BY <1>1
  <1> HIDE DEF y, z, minus
  <1>4. Zero(y) => Zero((0 - z) * y)
    BY <1>3, Combination2, Zenon
  <1>5. Zero(z) => Zero((0 - y) * z)
    BY <1>3, Combination2, Zenon
  <1>6. QED
    BY <1>1, <1>2, <1>3, <1>4, <1>5 DEF x, y, z

\* A constraint a * x = b with a coefficient that is not zero has one solution.
LEMMA SolveMeans ==
  ASSUME NEW a \in Int, NEW b \in Int, ~ Zero(a)
  PROVE  LET w == Times(invert[a % P], b % P)
         IN  /\ w \in Field /\ Zero(a * w - b) /\ Solve(a, b) = {w}
             /\ \A x \in Field : Zero(a * x - b) => x = w
  <1> DEFINE m == a % P  c == b % P  n == invert[m]  w == Times(n, c)
  <1>1. /\ m \in Field \ {0} /\ c \in Field /\ Zero(m - a) /\ Zero(c - b)
        /\ Field \subseteq Int /\ m \in Int /\ c \in Int
    <2>1. Field \subseteq Int
      BY FieldAssumption DEF Field
    <2>2. m # 0 /\ m \in Field /\ c \in Field /\ Zero(m - a) /\ Zero(c - b)
      BY Residues
    <2>3. QED
      BY <2>1, <2>2
  <1> HIDE DEF m, c
  <1>2. n \in Field /\ n \in Int /\ Zero(m * n - 1)
    BY <1>1, Inverts
  <1> HIDE DEF n
  <1>3. w \in Field /\ w \in Int /\ Zero(w - n * c)
    BY <1>1, <1>2, TimesMeans
  <1> HIDE DEF w
  <1>4. Zero(a * w - b)
    <2> DEFINE e1 == m - a  e2 == c - b  e3 == m * n - 1  e4 == w - n * c
               c1 == 0 - w  c2 == 1  c3 == c  c4 == m
    <2>1. /\ e1 \in Int /\ e2 \in Int /\ e3 \in Int /\ e4 \in Int
          /\ c1 \in Int /\ c2 \in Int /\ c3 \in Int /\ c4 \in Int
          /\ Zero(e1) /\ Zero(e2) /\ Zero(e3) /\ Zero(e4)
      BY <1>1, <1>2, <1>3
    <2>2. a * w - b = c1 * e1 + c2 * e2 + c3 * e3 + c4 * e4
      BY <1>1, <1>2, <1>3
    <2> HIDE DEF e1, e2, e3, e4, c1, c2, c3, c4
    <2>3. Zero(c1 * e1 + c2 * e2 + c3 * e3 + c4 * e4)
      BY <2>1, Combination, Zenon
    <2>4. QED
      BY <2>2, <2>3
  <1>5. Solve(a, b) = {w}
    <2>1. a % P # 0
      BY <1>1 DEF m
    <2>2. QED
      BY <2>1 DEF Solve, w, n, m, c
  <1>6. ASSUME NEW x \in Field, Zero(a * x - b)  PROVE x = w
    <2> DEFINE e1 == a * x - b  e2 == a * w - b  y == x - w
    <2>1. e1 \in Int /\ e2 \in Int /\ y \in Int /\ x \in Int /\ e1 - e2 = a * y /\ 0 \in Int
      BY <1>1, <1>3, <1>6
    <2>2. Zero(e1) /\ Zero(e2)
      BY <1>4, <1>6
    <2> HIDE DEF e1, e2
    <2>3. Zero(e1 - e2)
      BY <2>1, <2>2, Combination2, Zenon
    <2>4. Zero(x - w)
      BY <2>1, <2>3, ZeroProduct DEF y
    <2>5. x % P = w % P
      BY <1>3, <2>1, <2>4, Residues
    <2>6. QED
      BY <1>3, <2>5, FieldAssumption DEF Field
  <1>7. QED
    BY <1>3, <1>4, <1>5, <1>6 DEF w, n, m, c

\* A difference may be turned round.
LEMMA Opposite ==
  ASSUME NEW x \in Int, NEW y \in Int, Zero(x - y)
  PROVE  Zero(y - x)
  <1>1. x % P = y % P
    BY Residues
  <1>2. QED
    BY <1>1, Residues

\* An equation a * w = b may be replaced by one with the same residues.
LEMMA SameEquation ==
  ASSUME NEW a \in Int, NEW b \in Int, NEW c \in Int, NEW d \in Int, NEW w \in Int,
         Zero(a - c), Zero(b - d), Zero(a * w - b)
  PROVE  Zero(c * w - d)
  <1> DEFINE e1 == a - c  e2 == b - d  minus == -1  x == a * w - b  y == c * w - d
  <1>1. /\ e1 \in Int /\ e2 \in Int /\ minus \in Int /\ x \in Int /\ y \in Int
        /\ x - y = w * e1 + minus * e2 /\ Zero(e1) /\ Zero(e2)
    OBVIOUS
  <1> HIDE DEF e1, e2, minus, x, y
  <1>2. Zero(w * e1 + minus * e2)
    BY <1>1, Combination2, Zenon
  <1>3. Zero(x) <=> Zero(y)
    BY <1>1, <1>2, ZeroTogether
  <1>4. QED
    BY <1>3 DEF x, y

\* r is a sum of p and q when its coordinates solve the two equations.
IsSum(p, q, r) == /\ Zero((1 + Cross(p, q)) * r.u - SumU(p, q))
                  /\ Zero((1 - Cross(p, q)) * r.v - SumV(p, q))

\* The host computes a sum, and there is no other.
LEMMA HostAddMeans ==
  ASSUME NEW p \in Curve, NEW q \in Curve
  PROVE  /\ HostAdd(p, q) \in [u : Field, v : Field]
         /\ IsSum(p, q, HostAdd(p, q))
         /\ \A r \in [u : Field, v : Field] : IsSum(p, q, r) => r = HostAdd(p, q)
  <1> DEFINE a == Times(p.u, q.v)  b == Times(EDWARDS_D, a)  c == Times(q.u, p.v)
             D == Times(b, c)  x == Cross(p, q)
             m == p.u * q.v + q.u * p.v  n == p.v * q.v + p.u * q.u
             s == 1 + D  t == 1 - D
  <1>1. /\ p.u \in Int /\ p.v \in Int /\ q.u \in Int /\ q.v \in Int
        /\ EDWARDS_D \in Int /\ Field \subseteq Int
    BY PointMeans, FieldAssumption DEF Field
  <1>2. /\ a \in Int /\ c \in Int /\ Zero(a - p.u * q.v) /\ Zero(c - q.u * p.v)
    BY <1>1, TimesMeans
  <1>3. b \in Int /\ Zero(b - EDWARDS_D * a)
    BY <1>1, <1>2, TimesMeans
  <1>4. D \in Int /\ Zero(D - b * c)
    BY <1>2, <1>3, TimesMeans
  <1>5. /\ HostAdd(p, q) = [u |-> Times(invert[s % P], m % P), v |-> Times(invert[t % P], n % P)]
        /\ x = EDWARDS_D * (p.u * p.v * q.u * q.v)
        /\ SumU(p, q) = m /\ SumV(p, q) = n
    BY <1>1 DEF HostAdd, Cross, SumU, SumV
  <1>6. /\ x \in Int /\ SumU(p, q) \in Int /\ SumV(p, q) \in Int
        /\ ~ Zero(1 + x) /\ ~ Zero(1 - x)
    BY Denominators
  <1>7. Zero(D - x)
    <2> DEFINE pu == p.u  pv == p.v  qu == q.u  qv == q.v
               e1 == a - pu * qv  e2 == c - qu * pv  e3 == b - EDWARDS_D * a  e4 == D - b * c
               c1 == EDWARDS_D * c  c2 == EDWARDS_D * (pu * qv)  c3 == c  c4 == 1
    <2>1. pu \in Int /\ pv \in Int /\ qu \in Int /\ qv \in Int
          /\ x = EDWARDS_D * (pu * pv * qu * qv)
          /\ Zero(e1) /\ Zero(e2) /\ Zero(e3) /\ Zero(e4)
      BY <1>1, <1>2, <1>3, <1>4, <1>5
    <2> HIDE DEF a, b, c, D, x, pu, pv, qu, qv
    <2>2. /\ e1 \in Int /\ e2 \in Int /\ e3 \in Int /\ e4 \in Int
          /\ c1 \in Int /\ c2 \in Int /\ c3 \in Int /\ c4 \in Int
      BY <1>1, <1>2, <1>3, <1>4, <2>1
    <2>3. D - x = c1 * e1 + c2 * e2 + c3 * e3 + c4 * e4
      BY <1>1, <1>2, <1>3, <1>4, <2>1
    <2> HIDE DEF e1, e2, e3, e4, c1, c2, c3, c4
    <2>4. Zero(c1 * e1 + c2 * e2 + c3 * e3 + c4 * e4)
      BY <2>1, <2>2, Combination, Zenon
    <2>5. QED
      BY <2>3, <2>4
  <1>8. m \in Int /\ n \in Int
    BY <1>5, <1>6
  <1> HIDE DEF m, n, x, D
  <1>9. /\ s \in Int /\ t \in Int /\ 1 + x \in Int /\ 1 - x \in Int
        /\ Zero(s - (1 + x)) /\ Zero(t - (1 - x)) /\ Zero(m - m) /\ Zero(n - n)
    <2>1. s - (1 + x) = D - x /\ t - (1 - x) = 0 - (D - x) /\ m - m = 0 /\ n - n = 0
          /\ s \in Int /\ t \in Int /\ 1 + x \in Int /\ 1 - x \in Int /\ D - x \in Int
      BY <1>4, <1>6, <1>8
    <2>2. Zero(x - D) /\ Zero(0) /\ x - D = 0 - (D - x)
      <3>1. Zero(0)
        BY FieldAssumption DEF Zero, Divides
      <3>2. QED
        BY <3>1, <1>4, <1>6, <1>7, Opposite
    <2>3. QED
      BY <1>7, <2>1, <2>2
  <1> HIDE DEF s, t
  <1>10. ~ Zero(s) /\ ~ Zero(t)
    BY <1>6, <1>9, ZeroTogether
  <1> DEFINE su == Times(invert[s % P], m % P)  tv == Times(invert[t % P], n % P)
  <1>11. /\ su \in Field /\ Zero(s * su - m) /\ \A y \in Field : Zero(s * y - m) => y = su
         /\ tv \in Field /\ Zero(t * tv - n) /\ \A y \in Field : Zero(t * y - n) => y = tv
    BY <1>8, <1>9, <1>10, SolveMeans
  <1>12. ASSUME NEW y \in Field
         PROVE  /\ Zero(s * y - m) <=> Zero((1 + x) * y - m)
                /\ Zero(t * y - n) <=> Zero((1 - x) * y - n)
    <2> DEFINE s1 == 1 + x  t1 == 1 - x
    <2>1. /\ y \in Int /\ s \in Int /\ t \in Int /\ s1 \in Int /\ t1 \in Int
          /\ m \in Int /\ n \in Int
      BY <1>1, <1>8, <1>9
    <2>2. Zero(s - s1) /\ Zero(t - t1) /\ Zero(m - m) /\ Zero(n - n)
      BY <1>9
    <2>3. Zero(s1 - s) /\ Zero(t1 - t)
      BY <1>9, Opposite
    <2> HIDE DEF s1, t1
    <2>4. Zero(s * y - m) <=> Zero(s1 * y - m)
      BY <2>1, <2>2, <2>3, SameEquation, Zenon
    <2>5. Zero(t * y - n) <=> Zero(t1 * y - n)
      BY <2>1, <2>2, <2>3, SameEquation, Zenon
    <2>6. QED
      BY <2>4, <2>5 DEF s1, t1
  <1> HIDE DEF su, tv
  <1>13. HostAdd(p, q) = [u |-> su, v |-> tv]
    BY <1>5 DEF su, tv
  <1>14. ASSUME NEW r \in [u : Field, v : Field]
         PROVE  IsSum(p, q, r) <=> Zero(s * r.u - m) /\ Zero(t * r.v - n)
    <2>1. r.u \in Field /\ r.v \in Field
      OBVIOUS
    <2>2. IsSum(p, q, r) <=> Zero((1 + x) * r.u - m) /\ Zero((1 - x) * r.v - n)
      BY <1>5 DEF IsSum, x
    <2>3. QED
      BY <2>1, <2>2, <1>12, Zenon
  <1>15. HostAdd(p, q) \in [u : Field, v : Field] /\ IsSum(p, q, HostAdd(p, q))
    <2>1. HostAdd(p, q) \in [u : Field, v : Field] /\ HostAdd(p, q).u = su /\ HostAdd(p, q).v = tv
      BY <1>11, <1>13
    <2>2. QED
      BY <2>1, <1>11, <1>14
  <1>16. ASSUME NEW r \in [u : Field, v : Field], IsSum(p, q, r)  PROVE r = HostAdd(p, q)
    <2>1. r.u \in Field /\ r.v \in Field /\ r = [u |-> r.u, v |-> r.v]
      OBVIOUS
    <2>2. r.u = su /\ r.v = tv
      BY <2>1, <1>11, <1>14, <1>16, Zenon
    <2>3. QED
      BY <2>1, <2>2, <1>13
  <1>17. QED
    BY <1>15, <1>16

\* d u^2 v^2 and v^2 - u^2, of which the curve's equation is made.
Quartic(p) == EDWARDS_D * ((p.u * p.u) * (p.v * p.v))
Squares(p) == p.v * p.v - p.u * p.u

\* The polynomial that closes the curve under addition lies in the ideal of the
\* two equations: with K = u v, s = u^2 + v^2 and N = v^2 - u^2 the coordinates of
\* the sum enter only through K, s and N, and s^2 = N^2 + 4 K^2.
LEMMA ClosureIdentity ==
  ASSUME NEW p \in Curve, NEW q \in Curve
  PROVE  (1 + Cross(p, q)) * (1 + Cross(p, q)) * (SumV(p, q) * SumV(p, q))
         - (1 - Cross(p, q)) * (1 - Cross(p, q)) * (SumU(p, q) * SumU(p, q))
         - (1 + Cross(p, q)) * (1 + Cross(p, q)) * ((1 - Cross(p, q)) * (1 - Cross(p, q)))
         - EDWARDS_D * ((SumU(p, q) * SumU(p, q)) * (SumV(p, q) * SumV(p, q)))
         = ((1 + Quartic(p) * Quartic(q)) * Squares(q)
              - Quartic(q) * (Squares(p) + 1 + Quartic(p))) * Equation(p.u, p.v)
           + ((1 + Quartic(p) * Quartic(q)) * (1 + Quartic(p))
              - Quartic(p) * (Squares(q) + 1 + Quartic(q))) * Equation(q.u, q.v)
  <1> DEFINE d == EDWARDS_D  u1 == p.u  v1 == p.v  u2 == q.u  v2 == q.v
             x == Cross(p, q)  a == 1 + x  b == 1 - x  X == SumU(p, q)  Y == SumV(p, q)
             w1 == Quartic(p)  w2 == Quartic(q)  N1 == Squares(p)  N2 == Squares(q)
             K1 == u1 * v1  K2 == u2 * v2  s1 == u1 * u1 + v1 * v1  s2 == u2 * u2 + v2 * v2
             D == Y * Y - X * X  S == Y * Y + X * X  Z == X * Y  q1 == s1 * s1  q2 == s2 * s2
             m == (1 - x * x) * (1 - x * x)
             E1 == Equation(u1, v1)  E2 == Equation(u2, v2)
  <1>0. /\ d \in Int /\ u1 \in Int /\ v1 \in Int /\ u2 \in Int /\ v2 \in Int
        /\ x = d * (u1 * v1 * u2 * v2) /\ X = u1 * v2 + v1 * u2 /\ Y = v1 * v2 + u1 * u2
        /\ w1 = d * ((u1 * u1) * (v1 * v1)) /\ w2 = d * ((u2 * u2) * (v2 * v2))
        /\ N1 = v1 * v1 - u1 * u1 /\ N2 = v2 * v2 - u2 * u2
        /\ E1 = N1 - 1 - w1 /\ E2 = N2 - 1 - w2
    BY PointMeans, FieldAssumption DEF Cross, SumU, SumV, Quartic, Squares, Equation, Field
  <1> HIDE DEF d, u1, v1, u2, v2, x, X, Y, w1, w2, N1, N2, E1, E2
  <1>1. /\ x \in Int /\ X \in Int /\ Y \in Int /\ w1 \in Int /\ w2 \in Int
        /\ N1 \in Int /\ N2 \in Int /\ K1 \in Int /\ K2 \in Int /\ s1 \in Int /\ s2 \in Int
        /\ D \in Int /\ S \in Int /\ Z \in Int /\ q1 \in Int /\ q2 \in Int /\ m \in Int
    BY <1>0
  <1>2. /\ D = N1 * N2 /\ S = s1 * s2 + 4 * (K1 * K2) /\ Z = K1 * s2 + K2 * s1
        /\ q1 = N1 * N1 + 4 * (K1 * K1) /\ q2 = N2 * N2 + 4 * (K2 * K2)
    BY <1>0
  <1>3. x = d * (K1 * K2) /\ w1 = d * (K1 * K1) /\ w2 = d * (K2 * K2)
    BY <1>0
  <1>4. a * a * (Y * Y) - b * b * (X * X) - a * a * (b * b) - d * ((X * X) * (Y * Y))
        = (1 + x * x) * D + 2 * x * S - m - d * (Z * Z)
    BY <1>0, <1>1
  <1> HIDE DEF D, S, Z, q1, q2, K1, K2, a, b
  <1>5. Z * Z = K1 * K1 * q2 + K2 * K2 * q1 + 2 * (K1 * K2) * (s1 * s2)
    <2> HIDE DEF s1, s2
    <2>1. (K1 * s2 + K2 * s1) * (K1 * s2 + K2 * s1)
          = K1 * K1 * (s2 * s2) + K2 * K2 * (s1 * s1) + 2 * (K1 * K2) * (s1 * s2)
      BY <1>1
    <2>2. QED
      BY <1>2, <2>1 DEF q1, q2
  <1> HIDE DEF s1, s2, m
  <1> DEFINE k == K1 * K2  g1 == K1 * K1  g2 == K2 * K2  t == s1 * s2
  <1>6. k \in Int /\ g1 \in Int /\ g2 \in Int /\ t \in Int /\ k * k = g1 * g2
    BY <1>1
  <1>7. /\ S = t + 4 * k /\ Z * Z = g1 * q2 + g2 * q1 + 2 * k * t
        /\ q1 = N1 * N1 + 4 * g1 /\ q2 = N2 * N2 + 4 * g2
        /\ x = d * k /\ w1 = d * g1 /\ w2 = d * g2
    BY <1>2, <1>3, <1>5
  <1> HIDE DEF k, g1, g2, t
  <1>8. 2 * x * S - d * (Z * Z) = 0 - (w1 * (N2 * N2) + w2 * (N1 * N1))
    <2>1. 2 * (d * k) * (t + 4 * k) - d * (g1 * q2 + g2 * q1 + 2 * k * t)
          = 8 * d * (k * k) - d * g1 * q2 - d * g2 * q1
      BY <1>0, <1>1, <1>6
    <2>2. 8 * d * (g1 * g2) - d * g1 * (N2 * N2 + 4 * g2) - d * g2 * (N1 * N1 + 4 * g1)
          = 0 - (d * g1 * (N2 * N2) + d * g2 * (N1 * N1))
      BY <1>0, <1>1, <1>6
    <2>3. QED
      BY <1>6, <1>7, <2>1, <2>2
  <1>9. x * x = w1 * w2
    <2>1. (d * k) * (d * k) = d * d * (k * k) /\ (d * g1) * (d * g2) = d * d * (g1 * g2)
      BY <1>0, <1>6
    <2>2. QED
      BY <1>6, <1>7, <2>1
  <1> DEFINE z == x * x
  <1>10. z \in Int /\ z = w1 * w2 /\ m = (1 - z) * (1 - z)
    BY <1>1, <1>9 DEF m
  <1> DEFINE rest == 2 * x * S - d * (Z * Z)
  <1>11. (1 + x * x) * D + 2 * x * S - m - d * (Z * Z) = (1 + z) * D - m + rest
    <2> HIDE DEF z
    <2>1. x * x = z /\ d * (Z * Z) \in Int /\ 2 * x * S \in Int
      BY <1>0, <1>1 DEF z
    <2>2. QED
      BY <1>1, <1>10, <2>1
  <1> HIDE DEF z, rest
  <1>12. (1 + z) * D - m + rest
         = (1 + w1 * w2) * (N1 * N2) - (1 - w1 * w2) * (1 - w1 * w2)
           - (w1 * (N2 * N2) + w2 * (N1 * N1))
    BY <1>1, <1>2, <1>8, <1>10 DEF rest
  <1>13. (1 + w1 * w2) * (N1 * N2) - (1 - w1 * w2) * (1 - w1 * w2)
           - (w1 * (N2 * N2) + w2 * (N1 * N1))
         = ((1 + w1 * w2) * N2 - w2 * (N1 + 1 + w1)) * (N1 - 1 - w1)
           + ((1 + w1 * w2) * (1 + w1) - w1 * (N2 + 1 + w2)) * (N2 - 1 - w2)
    BY <1>1
  <1>14. QED
    BY <1>0, <1>4, <1>11, <1>12, <1>13 DEF a, b, x, X, Y, w1, w2, N1, N2, E1, E2, d, u1, v1, u2, v2

\* The sum of two points is a point: with N = v^2 - u^2 and w = d u^2 v^2, the
\* equation of the sum is (1 + w1 w2) N1 N2 - (1 - w1 w2)^2 = w1 N2^2 + w2 N1^2,
\* and N = 1 + w on the curve.
LEMMA SumOnCurve ==
  ASSUME NEW p \in Curve, NEW q \in Curve
  PROVE  HostAdd(p, q) \in Curve
  <1> DEFINE r == HostAdd(p, q)  d == EDWARDS_D
             u1 == p.u  v1 == p.v  u2 == q.u  v2 == q.v  ru == r.u  rv == r.v
             x == Cross(p, q)  a == 1 + x  b == 1 - x  X == SumU(p, q)  Y == SumV(p, q)
             E1 == Equation(u1, v1)  E2 == Equation(u2, v2)
             w1 == Quartic(p)  w2 == Quartic(q)  N1 == Squares(p)  N2 == Squares(q)
             e1 == a * ru - X  e2 == b * rv - Y
             c1 == (1 + w1 * w2) * N2 - w2 * (N1 + 1 + w1)
             c2 == (1 + w1 * w2) * (1 + w1) - w1 * (N2 + 1 + w2)
             c3 == 0 - (b * b + d * (Y * Y)) * (a * ru + X)
             c4 == (a * a - d * ((a * ru) * (a * ru))) * (b * rv + Y)
             Q == Equation(ru, rv)
             G == a * a * (Y * Y) - b * b * (X * X) - a * a * (b * b) - d * ((X * X) * (Y * Y))
  <1>1. r \in [u : Field, v : Field] /\ Zero(e1) /\ Zero(e2)
    BY HostAddMeans DEF IsSum
  <1>2. /\ u1 \in Int /\ v1 \in Int /\ u2 \in Int /\ v2 \in Int /\ d \in Int
        /\ ru \in Int /\ rv \in Int /\ ru \in Field /\ rv \in Field
        /\ Zero(E1) /\ Zero(E2)
    BY <1>1, PointMeans, FieldAssumption DEF Field
  <1>3. /\ x = d * (u1 * v1 * u2 * v2) /\ X = u1 * v2 + v1 * u2 /\ Y = v1 * v2 + u1 * u2
        /\ x \in Int /\ X \in Int /\ Y \in Int /\ ~ Zero(a) /\ ~ Zero(b)
    BY Denominators DEF Cross, SumU, SumV
  <1>31. w1 \in Int /\ w2 \in Int /\ N1 \in Int /\ N2 \in Int
    BY <1>2 DEF Quartic, Squares
  <1>32. G = c1 * E1 + c2 * E2
    BY ClosureIdentity
  <1>4. r = [u |-> ru, v |-> rv]
    BY <1>1
  <1> HIDE DEF r, d, u1, v1, u2, v2, ru, rv, x, X, Y, w1, w2, N1, N2
  <1>5. /\ a \in Int /\ b \in Int /\ E1 \in Int /\ E2 \in Int /\ e1 \in Int /\ e2 \in Int
        /\ Q \in Int
    BY <1>2, <1>3, <1>31 DEF Equation, d
  <1>6. c1 \in Int /\ c2 \in Int /\ c3 \in Int /\ c4 \in Int
    <2> HIDE DEF a, b
    <2>1. QED
      BY <1>2, <1>3, <1>31, <1>5
  <1>7. (a * a * (b * b)) * Q = c1 * E1 + c2 * E2 + c3 * e1 + c4 * e2
    <2> HIDE DEF a, b
    <2>2. (a * a * (b * b)) * Q = G + (c3 * e1 + c4 * e2)
      BY <1>2, <1>3, <1>5 DEF Equation, d
    <2> HIDE DEF G, E1, E2, e1, e2, c1, c2, c3, c4, Q
    <2>3. G \in Int
      BY <1>2, <1>3, <1>5 DEF G
    <2>4. QED
      BY <1>32, <2>2, <2>3, <1>5, <1>6
  <1> HIDE DEF a, b, E1, E2, e1, e2, c1, c2, c3, c4, Q
  <1>8. Zero(c1 * E1 + c2 * E2 + c3 * e1 + c4 * e2)
    BY <1>1, <1>2, <1>5, <1>6, Combination, Zenon
  <1>9. ~ Zero(a * a) /\ ~ Zero(b * b) /\ a * a \in Int /\ b * b \in Int
    BY <1>3, <1>5, ZeroProduct
  <1>10. Zero(Q)
    <2> DEFINE k == a * a * (b * b)
    <2>1. k \in Int /\ ~ Zero(k)
      BY <1>5, <1>9, ZeroProduct
    <2> HIDE DEF k
    <2>2. Zero(k * Q)
      BY <1>7, <1>8 DEF k
    <2>3. QED
      BY <1>5, <2>1, <2>2, ZeroProduct
  <1>11. OnCurve(ru, rv)
    BY <1>2, <1>10, OnCurveMeans DEF Q
  <1>12. QED
    BY <1>1, <1>4, <1>11 DEF Curve, r, ru, rv

------------------------------------------------------------------------------
(* The points of the curve are a group under it. *)

\* The addition is commutative.
LEMMA SumCommutes ==
  ASSUME NEW p \in Curve, NEW q \in Curve
  PROVE  HostAdd(p, q) = HostAdd(q, p)
  <1>1. /\ p.u \in Int /\ p.v \in Int /\ q.u \in Int /\ q.v \in Int /\ EDWARDS_D \in Int
    BY PointMeans, FieldAssumption DEF Field
  <1>2. Cross(p, q) = Cross(q, p) /\ SumU(p, q) = SumU(q, p) /\ SumV(p, q) = SumV(q, p)
    BY <1>1 DEF Cross, SumU, SumV
  <1>3. IsSum(p, q, HostAdd(q, p)) /\ HostAdd(q, p) \in [u : Field, v : Field]
    <2>1. IsSum(q, p, HostAdd(q, p)) /\ HostAdd(q, p) \in [u : Field, v : Field]
      BY HostAddMeans
    <2>2. QED
      BY <1>2, <2>1 DEF IsSum
  <1>4. QED
    BY <1>3, HostAddMeans

\* A sum of three, as two fractions of polynomials in the six coordinates.
TripleU(p, q, r) == SumU(p, q) * (1 - Cross(p, q)) * r.v + SumV(p, q) * (1 + Cross(p, q)) * r.u
TripleV(p, q, r) == SumV(p, q) * (1 + Cross(p, q)) * r.v + SumU(p, q) * (1 - Cross(p, q)) * r.u
Shift(p, q, r)   == EDWARDS_D * (SumU(p, q) * SumV(p, q)) * (r.u * r.v)
UnderU(p, q, r)  == (1 + Cross(p, q)) * (1 - Cross(p, q)) + Shift(p, q, r)
UnderV(p, q, r)  == (1 + Cross(p, q)) * (1 - Cross(p, q)) - Shift(p, q, r)

LEMMA TripleMeans ==
  ASSUME NEW p \in Curve, NEW q \in Curve, NEW r \in Curve
  PROVE  LET t == HostAdd(HostAdd(p, q), r) IN
         /\ UnderU(p, q, r) \in Int /\ TripleU(p, q, r) \in Int /\ ~ Zero(UnderU(p, q, r))
         /\ UnderV(p, q, r) \in Int /\ TripleV(p, q, r) \in Int /\ ~ Zero(UnderV(p, q, r))
         /\ Zero(UnderU(p, q, r) * t.u - TripleU(p, q, r))
         /\ Zero(UnderV(p, q, r) * t.v - TripleV(p, q, r))
  <1> DEFINE s == HostAdd(p, q)  t == HostAdd(s, r)  d == EDWARDS_D
             X == SumU(p, q)  Y == SumV(p, q)  A == 1 + Cross(p, q)  B == 1 - Cross(p, q)
             u == r.u  v == r.v  su == s.u  sv == s.v  tu == t.u  tv == t.v
             x == Cross(s, r)
             e1 == A * su - X  e2 == B * sv - Y
             e3 == (1 + x) * tu - (su * v + sv * u)  e4 == (1 - x) * tv - (sv * v + su * u)
             DU == A * B + d * (X * Y) * (u * v)  DV == A * B - d * (X * Y) * (u * v)
             NU == X * B * v + Y * A * u  NV == Y * A * v + X * B * u
             k == d * (u * v)  ab == A * B
             f1 == k * (B * sv)  f2 == k * X
  <1>1. s \in Curve /\ t \in Curve
    BY SumOnCurve
  <1>2. /\ Zero(e1) /\ Zero(e2) /\ A \in Int /\ B \in Int /\ X \in Int /\ Y \in Int
        /\ ~ Zero(A) /\ ~ Zero(B)
    BY HostAddMeans, Denominators DEF IsSum
  <1>3. /\ d \in Int /\ u \in Int /\ v \in Int /\ su \in Int /\ sv \in Int /\ tu \in Int /\ tv \in Int
    BY <1>1, PointMeans, FieldAssumption DEF Field
  <1>4. /\ Zero(e3) /\ Zero(e4) /\ x \in Int /\ ~ Zero(1 + x) /\ ~ Zero(1 - x)
        /\ x = d * (su * sv * u * v)
    BY <1>1, HostAddMeans, Denominators DEF IsSum, SumU, SumV, Cross
  <1>5. /\ UnderU(p, q, r) = DU /\ TripleU(p, q, r) = NU
        /\ UnderV(p, q, r) = DV /\ TripleV(p, q, r) = NV
    BY DEF UnderU, UnderV, TripleU, TripleV, Shift
  <1> HIDE DEF s, t, d, X, Y, A, B, u, v, su, sv, tu, tv, x
  <1>6. /\ e1 \in Int /\ e2 \in Int /\ e3 \in Int /\ e4 \in Int /\ DU \in Int /\ DV \in Int
        /\ NU \in Int /\ NV \in Int /\ k \in Int /\ ab \in Int /\ f1 \in Int /\ f2 \in Int
    BY <1>2, <1>3, <1>4
  <1>7. ab * (1 + x) - DU = f1 * e1 + f2 * e2 /\ ab * (1 - x) - DV = (0 - f1) * e1 + (0 - f2) * e2
    BY <1>2, <1>3, <1>4
  <1>8. ~ Zero(DU) /\ ~ Zero(DV)
    <2> DEFINE g1 == 0 - f1  g2 == 0 - f2  a1 == 1 + x  a2 == 1 - x  b1 == ab * a1  b2 == ab * a2
    <2>1. g1 \in Int /\ g2 \in Int /\ a1 \in Int /\ a2 \in Int /\ b1 \in Int /\ b2 \in Int
      BY <1>4, <1>6
    <2>2. b1 - DU = f1 * e1 + f2 * e2 /\ b2 - DV = g1 * e1 + g2 * e2
      BY <1>7
    <2>3. ~ Zero(ab)
      BY <1>2, ZeroProduct
    <2> HIDE DEF a1, a2, ab
    <2>4. ~ Zero(b1) /\ ~ Zero(b2)
      BY <1>4, <1>6, <2>1, <2>3, ZeroProduct DEF a1, a2
    <2> HIDE DEF g1, g2, b1, b2, f1, f2, e1, e2, DU, DV
    <2>5. Zero(f1 * e1 + f2 * e2) /\ Zero(g1 * e1 + g2 * e2)
      BY <1>2, <1>6, <2>1, Combination2, Zenon
    <2>6. QED
      BY <1>6, <2>1, <2>2, <2>4, <2>5, ZeroTogether
  <1> DEFINE zero == 0
             c1 == B * v - f1 * tu  c2 == A * u - f2 * tu
             c3 == B * u + f1 * tv  c4 == A * v + f2 * tv
  <1>9. /\ DU * tu - NU = ab * e3 + c1 * e1 + c2 * e2 + zero * e1
        /\ DV * tv - NV = ab * e4 + c3 * e1 + c4 * e2 + zero * e1
    BY <1>2, <1>3, <1>4
  <1>10. c1 \in Int /\ c2 \in Int /\ c3 \in Int /\ c4 \in Int /\ zero \in Int
    BY <1>2, <1>3, <1>6
  <1> HIDE DEF e1, e2, e3, e4, c1, c2, c3, c4, ab, zero, DU, DV, NU, NV
  <1>11. Zero(DU * tu - NU) /\ Zero(DV * tv - NV)
    <2>1. Zero(ab * e3 + c1 * e1 + c2 * e2 + zero * e1)
      BY <1>2, <1>4, <1>6, <1>10, Combination, Zenon
    <2>2. Zero(ab * e4 + c3 * e1 + c4 * e2 + zero * e1)
      BY <1>2, <1>4, <1>6, <1>10, Combination, Zenon
    <2>3. QED
      BY <1>9, <2>1, <2>2
  <1>12. QED
    BY <1>5, <1>6, <1>8, <1>11 DEF t, s, tu, tv

\* Both ways to add three points are the same fractions, up to the equations of
\* the points: with K = u v, s = u^2 + v^2, N = v^2 - u^2, w = d K^2, and x, y, z
\* the cross products of 1 and 2, 2 and 3, 1 and 3, the denominators are
\* 1 - x^2 +- (z s2 + y s1) and 1 - y^2 +- (x s3 + z s2), and the numerators have a
\* part S that does not depend on the order.
LEMMA AssociativityIdentity ==
  ASSUME NEW p \in Curve, NEW q \in Curve, NEW r \in Curve
  PROVE  \E a1, a2, a3, b1, b2, b3 \in Int :
           /\ TripleU(p, q, r) * UnderU(q, r, p) - TripleU(q, r, p) * UnderU(p, q, r)
              = a1 * Equation(p.u, p.v) + a2 * Equation(q.u, q.v) + a3 * Equation(r.u, r.v)
           /\ TripleV(p, q, r) * UnderV(q, r, p) - TripleV(q, r, p) * UnderV(p, q, r)
              = b1 * Equation(p.u, p.v) + b2 * Equation(q.u, q.v) + b3 * Equation(r.u, r.v)
  <1> DEFINE d == EDWARDS_D
             u1 == p.u  v1 == p.v  u2 == q.u  v2 == q.v  u3 == r.u  v3 == r.v
             x == Cross(p, q)  y == Cross(q, r)
             X == SumU(p, q)  Y == SumV(p, q)  X3 == SumU(q, r)  Y3 == SumV(q, r)
             E1 == Equation(u1, v1)  E2 == Equation(u2, v2)  E3 == Equation(u3, v3)
             DU == UnderU(p, q, r)  DV == UnderV(p, q, r)
             FU == UnderU(q, r, p)  FV == UnderV(q, r, p)
             NU == TripleU(p, q, r)  NV == TripleV(p, q, r)
             MU == TripleU(q, r, p)  MV == TripleV(q, r, p)
             K1 == u1 * v1  K2 == u2 * v2  K3 == u3 * v3
             s1 == u1 * u1 + v1 * v1  s2 == u2 * u2 + v2 * v2  s3 == u3 * u3 + v3 * v3
             N1 == v1 * v1 - u1 * u1  N2 == v2 * v2 - u2 * u2  N3 == v3 * v3 - u3 * u3
             w1 == d * (K1 * K1)  w2 == d * (K2 * K2)  w3 == d * (K3 * K3)  z == d * (K1 * K3)
             S == X * v3 + Y * u3  T == Y * v3 + X * u3
             R1 == v1 * X3 - u1 * Y3  R3 == v3 * X - u3 * Y
             Q1 == v1 * Y3 - u1 * X3  Q3 == v3 * Y - u3 * X
             k3 == z * s2 + y * s1  k1 == x * s3 + z * s2
  <1>1. /\ d \in Int /\ u1 \in Int /\ v1 \in Int /\ u2 \in Int /\ v2 \in Int /\ u3 \in Int /\ v3 \in Int
        /\ x = d * (u1 * v1 * u2 * v2) /\ y = d * (u2 * v2 * u3 * v3)
        /\ X = u1 * v2 + v1 * u2 /\ Y = v1 * v2 + u1 * u2
        /\ X3 = u2 * v3 + v2 * u3 /\ Y3 = v2 * v3 + u2 * u3
        /\ E1 = v1 * v1 - u1 * u1 - 1 - d * ((u1 * u1) * (v1 * v1))
        /\ E2 = v2 * v2 - u2 * u2 - 1 - d * ((u2 * u2) * (v2 * v2))
        /\ E3 = v3 * v3 - u3 * u3 - 1 - d * ((u3 * u3) * (v3 * v3))
    BY PointMeans, FieldAssumption DEF Cross, SumU, SumV, Equation, Field
  <1>2. /\ DU = (1 + x) * (1 - x) + d * (X * Y) * (u3 * v3)
        /\ DV = (1 + x) * (1 - x) - d * (X * Y) * (u3 * v3)
        /\ FU = (1 + y) * (1 - y) + d * (X3 * Y3) * (u1 * v1)
        /\ FV = (1 + y) * (1 - y) - d * (X3 * Y3) * (u1 * v1)
        /\ NU = X * (1 - x) * v3 + Y * (1 + x) * u3 /\ NV = Y * (1 + x) * v3 + X * (1 - x) * u3
        /\ MU = X3 * (1 - y) * v1 + Y3 * (1 + y) * u1 /\ MV = Y3 * (1 + y) * v1 + X3 * (1 - y) * u1
    BY DEF UnderU, UnderV, TripleU, TripleV, Shift
  <1> HIDE DEF d, u1, v1, u2, v2, u3, v3, x, y, X, Y, X3, Y3, E1, E2, E3,
               DU, DV, FU, FV, NU, NV, MU, MV
  <1>3. /\ x \in Int /\ y \in Int /\ z \in Int /\ X \in Int /\ Y \in Int /\ X3 \in Int /\ Y3 \in Int
        /\ K1 \in Int /\ K2 \in Int /\ K3 \in Int /\ s1 \in Int /\ s2 \in Int /\ s3 \in Int
        /\ N1 \in Int /\ N2 \in Int /\ N3 \in Int /\ w1 \in Int /\ w2 \in Int /\ w3 \in Int
        /\ S \in Int /\ T \in Int /\ R1 \in Int /\ R3 \in Int /\ Q1 \in Int /\ Q3 \in Int
        /\ k1 \in Int /\ k3 \in Int
    BY <1>1
  <1>4. /\ X3 * v1 + Y3 * u1 = S /\ Y3 * v1 + X3 * u1 = T
        /\ X * Y = K1 * s2 + K2 * s1 /\ X3 * Y3 = K2 * s3 + K3 * s2
    BY <1>1
  <1>5. /\ s3 * R3 = N3 * S - 2 * (K3 * Q3) /\ s1 * R1 = N1 * S - 2 * (K1 * Q1)
        /\ s3 * S = N3 * R3 + 2 * (K3 * T) /\ s1 * S = N1 * R1 + 2 * (K1 * T)
        /\ s2 * R3 = 2 * (K2 * Q3) - N2 * R1 /\ s2 * R1 = 2 * (K2 * Q1) - N2 * R3
    BY <1>1
  <1>6. /\ s3 * Q3 = N3 * T - 2 * (K3 * R3) /\ s1 * Q1 = N1 * T - 2 * (K1 * R1)
        /\ s3 * T = N3 * Q3 + 2 * (K3 * S) /\ s1 * T = N1 * Q1 + 2 * (K1 * S)
        /\ s2 * Q3 = N2 * Q1 + 2 * (K2 * R3) /\ s2 * Q1 = N2 * Q3 + 2 * (K2 * R1)
    BY <1>1

  <1>7. /\ x = d * (K1 * K2) /\ y = d * (K2 * K3)
        /\ E1 = N1 - 1 - w1 /\ E2 = N2 - 1 - w2 /\ E3 = N3 - 1 - w3
        /\ u1 * v1 = K1 /\ u3 * v3 = K3
    BY <1>1
  <1> HIDE DEF K1, K2, K3, s1, s2, s3, N1, N2, N3
  <1>8. /\ x * x = w1 * w2 /\ y * y = w2 * w3 /\ x * z = w1 * y /\ y * z = w3 * x
        /\ x * K3 = y * K1 /\ y * K2 = w2 * K3 /\ x * K2 = w2 * K1
    BY <1>1, <1>3, <1>7
  <1>9. /\ NU = S - x * R3 /\ MU = S - y * R1 /\ NV = T + x * Q3 /\ MV = T + y * Q1
    BY <1>1, <1>2, <1>3, <1>4
  <1>10. /\ DU = 1 - x * x + k3 /\ DV = 1 - x * x - k3
         /\ FU = 1 - y * y + k1 /\ FV = 1 - y * y - k1
    <2>1. d * (K1 * s2 + K2 * s1) * K3 = d * (K1 * K3) * s2 + d * (K2 * K3) * s1
      BY <1>1, <1>3
    <2>2. d * (K2 * s3 + K3 * s2) * K1 = d * (K1 * K2) * s3 + d * (K1 * K3) * s2
      BY <1>1, <1>3
    <2>3. (1 + x) * (1 - x) = 1 - x * x /\ (1 + y) * (1 - y) = 1 - y * y
      BY <1>3
    <2>4. d * (X * Y) * (u3 * v3) = k3 /\ d * (X3 * Y3) * (u1 * v1) = k1
      BY <1>4, <1>7, <2>1, <2>2
    <2>5. k1 \in Int /\ k3 \in Int /\ x * x \in Int /\ y * y \in Int
      BY <1>3
    <2> HIDE DEF k1, k3
    <2>6. QED
      BY <1>2, <2>3, <2>4, <2>5
  <1> HIDE DEF z, w1, w2, w3, S, T, R1, R3, Q1, Q3
  <1>11. NU * FU - MU * DU
         = S * (x * x - y * y) + (x * (s3 * S) - y * (s1 * S))
           - x * R3 * (1 - y * y) + y * R1 * (1 - x * x)
           + ((y * y) * (s1 * R1) + (y * z) * (s2 * R1) - (x * x) * (s3 * R3) - (x * z) * (s2 * R3))
    BY <1>3, <1>9, <1>10
  <1>12. NV * FV - MV * DV
         = T * (x * x - y * y) - (x * (s3 * T) - y * (s1 * T))
           + x * Q3 * (1 - y * y) - y * Q1 * (1 - x * x)
           + ((y * y) * (s1 * Q1) + (y * z) * (s2 * Q1) - (x * x) * (s3 * Q3) - (x * z) * (s2 * Q3))
    BY <1>3, <1>9, <1>10
  <1>13. /\ x * (s3 * S) - y * (s1 * S) = x * (N3 * R3) - y * (N1 * R1)
         /\ x * (s3 * T) - y * (s1 * T) = x * (N3 * Q3) - y * (N1 * Q1)
    <2>1. /\ x * (N3 * R3 + 2 * (K3 * T)) - y * (N1 * R1 + 2 * (K1 * T))
             = x * (N3 * R3) - y * (N1 * R1) + 2 * (x * K3 - y * K1) * T
          /\ x * (N3 * Q3 + 2 * (K3 * S)) - y * (N1 * Q1 + 2 * (K1 * S))
             = x * (N3 * Q3) - y * (N1 * Q1) + 2 * (x * K3 - y * K1) * S
      BY <1>3
    <2>2. 2 * (x * K3 - y * K1) * T = 0 /\ 2 * (x * K3 - y * K1) * S = 0
      BY <1>3, <1>8
    <2>3. /\ x * (N3 * R3) - y * (N1 * R1) \in Int /\ x * (N3 * Q3) - y * (N1 * Q1) \in Int
      BY <1>3
    <2>4. QED
      BY <1>5, <1>6, <2>1, <2>2, <2>3
  <1>14. (y * y) * (s1 * R1) + (y * z) * (s2 * R1) - (x * x) * (s3 * R3) - (x * z) * (s2 * R3)
         = (w2 * w3) * (N1 * S) - (w3 * x) * (N2 * R3) - (w1 * w2) * (N3 * S) + (w1 * y) * (N2 * R1)
    <2>1. (w2 * w3) * (N1 * S - 2 * (K1 * Q1)) + (w3 * x) * (2 * (K2 * Q1) - N2 * R3)
            - (w1 * w2) * (N3 * S - 2 * (K3 * Q3)) - (w1 * y) * (2 * (K2 * Q3) - N2 * R1)
          = (w2 * w3) * (N1 * S) - (w3 * x) * (N2 * R3) - (w1 * w2) * (N3 * S) + (w1 * y) * (N2 * R1)
            + 2 * w3 * (x * K2 - w2 * K1) * Q1 + 2 * w1 * (w2 * K3 - y * K2) * Q3
      BY <1>3
    <2>2. 2 * w3 * (x * K2 - w2 * K1) * Q1 = 0 /\ 2 * w1 * (w2 * K3 - y * K2) * Q3 = 0
      BY <1>3, <1>8
    <2>3. (w2 * w3) * (N1 * S) - (w3 * x) * (N2 * R3) - (w1 * w2) * (N3 * S)
            + (w1 * y) * (N2 * R1) \in Int
      BY <1>3
    <2>4. QED
      BY <1>5, <1>8, <2>1, <2>2, <2>3
  <1>15. (y * y) * (s1 * Q1) + (y * z) * (s2 * Q1) - (x * x) * (s3 * Q3) - (x * z) * (s2 * Q3)
         = (w2 * w3) * (N1 * T) + (w3 * x) * (N2 * Q3) - (w1 * w2) * (N3 * T) - (w1 * y) * (N2 * Q1)
    <2>1. (w2 * w3) * (N1 * T - 2 * (K1 * R1)) + (w3 * x) * (N2 * Q3 + 2 * (K2 * R1))
            - (w1 * w2) * (N3 * T - 2 * (K3 * R3)) - (w1 * y) * (N2 * Q1 + 2 * (K2 * R3))
          = (w2 * w3) * (N1 * T) + (w3 * x) * (N2 * Q3) - (w1 * w2) * (N3 * T) - (w1 * y) * (N2 * Q1)
            + 2 * w3 * (x * K2 - w2 * K1) * R1 + 2 * w1 * (w2 * K3 - y * K2) * R3
      BY <1>3
    <2>2. 2 * w3 * (x * K2 - w2 * K1) * R1 = 0 /\ 2 * w1 * (w2 * K3 - y * K2) * R3 = 0
      BY <1>3, <1>8
    <2>3. (w2 * w3) * (N1 * T) + (w3 * x) * (N2 * Q3) - (w1 * w2) * (N3 * T)
            - (w1 * y) * (N2 * Q1) \in Int
      BY <1>3
    <2>4. QED
      BY <1>6, <1>8, <2>1, <2>2, <2>3
  <1> DEFINE a1 == w2 * w3 * S - y * R1  a2 == w1 * y * R1 - w3 * x * R3  a3 == x * R3 - w1 * w2 * S
             b1 == w2 * w3 * T + y * Q1  b2 == w3 * x * Q3 - w1 * y * Q1  b3 == 0 - x * Q3 - w1 * w2 * T
  <1>16. NU * FU - MU * DU = a1 * E1 + a2 * E2 + a3 * E3
    <2>1. NU * FU - MU * DU
          = S * (w1 * w2 - w2 * w3) + (x * (N3 * R3) - y * (N1 * R1))
            - x * R3 * (1 - w2 * w3) + y * R1 * (1 - w1 * w2)
            + ((w2 * w3) * (N1 * S) - (w3 * x) * (N2 * R3) - (w1 * w2) * (N3 * S) + (w1 * y) * (N2 * R1))
      BY <1>8, <1>11, <1>13, <1>14, Zenon
    <2>2. QED
      BY <1>3, <1>7, <2>1
  <1>17. NV * FV - MV * DV = b1 * E1 + b2 * E2 + b3 * E3
    <2>1. NV * FV - MV * DV
          = T * (w1 * w2 - w2 * w3) - (x * (N3 * Q3) - y * (N1 * Q1))
            + x * Q3 * (1 - w2 * w3) - y * Q1 * (1 - w1 * w2)
            + ((w2 * w3) * (N1 * T) + (w3 * x) * (N2 * Q3) - (w1 * w2) * (N3 * T) - (w1 * y) * (N2 * Q1))
      BY <1>8, <1>12, <1>13, <1>15, Zenon
    <2>2. QED
      BY <1>3, <1>7, <2>1
  <1>18. /\ a1 \in Int /\ a2 \in Int /\ a3 \in Int /\ b1 \in Int /\ b2 \in Int /\ b3 \in Int
    BY <1>3
  <1> HIDE DEF a1, a2, a3, b1, b2, b3
  <1>19. /\ NU * FU - MU * DU = a1 * Equation(p.u, p.v) + a2 * Equation(q.u, q.v) + a3 * Equation(r.u, r.v)
         /\ NV * FV - MV * DV = b1 * Equation(p.u, p.v) + b2 * Equation(q.u, q.v) + b3 * Equation(r.u, r.v)
    BY <1>16, <1>17 DEF E1, E2, E3, u1, v1, u2, v2, u3, v3
  <1>20. QED
    BY <1>18, <1>19 DEF NU, FU, MU, DU, NV, FV, MV, DV

\* Elements of the field that differ by a multiple of P are equal.
LEMMA FieldEqual ==
  ASSUME NEW a \in Field, NEW b \in Field, Zero(a - b)
  PROVE  a = b
  <1>1. a \in Int /\ b \in Int /\ a % P = a /\ b % P = b
    BY FieldAssumption DEF Field
  <1>2. QED
    BY <1>1, Residues

\* Fractions that are equal crosswise have equal values.
LEMMA FractionsEqual ==
  ASSUME NEW m \in Int, NEW D \in Int, NEW n \in Int, NEW F \in Int, ~ Zero(D), ~ Zero(F),
         NEW a \in Field, NEW b \in Field, Zero(D * a - m), Zero(F * b - n), Zero(m * F - n * D)
  PROVE  a = b
  <1> DEFINE e1 == D * a - m  e2 == F * b - n  e3 == m * F - n * D  minus == 0 - D  one == 1
             x == a - b  y == D * F  zero == 0
  <1>1. a \in Int /\ b \in Int
    BY FieldAssumption DEF Field
  <1>2. /\ e1 \in Int /\ e2 \in Int /\ e3 \in Int /\ minus \in Int /\ one \in Int /\ zero \in Int
        /\ x \in Int /\ y \in Int /\ Zero(e1) /\ Zero(e2) /\ Zero(e3)
    BY <1>1
  <1>3. y * x = F * e1 + minus * e2 + one * e3 + zero * e3
    BY <1>1
  <1>4. ~ Zero(y)
    BY ZeroProduct
  <1> HIDE DEF e1, e2, e3, minus, one, x, y, zero
  <1>5. Zero(F * e1 + minus * e2 + one * e3 + zero * e3)
    BY <1>2, Combination, Zenon
  <1>6. Zero(x)
    BY <1>2, <1>3, <1>4, <1>5, ZeroProduct
  <1>7. QED
    BY <1>6, FieldEqual DEF x

\* The addition is associative.
LEMMA SumAssociates ==
  ASSUME NEW p \in Curve, NEW q \in Curve, NEW r \in Curve
  PROVE  HostAdd(HostAdd(p, q), r) = HostAdd(p, HostAdd(q, r))
  <1> DEFINE t == HostAdd(HostAdd(p, q), r)  s == HostAdd(HostAdd(q, r), p)
             DU == UnderU(p, q, r)  DV == UnderV(p, q, r)
             FU == UnderU(q, r, p)  FV == UnderV(q, r, p)
             NU == TripleU(p, q, r)  NV == TripleV(p, q, r)
             MU == TripleU(q, r, p)  MV == TripleV(q, r, p)
             E1 == Equation(p.u, p.v)  E2 == Equation(q.u, q.v)  E3 == Equation(r.u, r.v)
  <1>1. /\ DU \in Int /\ NU \in Int /\ ~ Zero(DU) /\ DV \in Int /\ NV \in Int /\ ~ Zero(DV)
        /\ FU \in Int /\ MU \in Int /\ ~ Zero(FU) /\ FV \in Int /\ MV \in Int /\ ~ Zero(FV)
        /\ Zero(DU * t.u - NU) /\ Zero(DV * t.v - NV)
        /\ Zero(FU * s.u - MU) /\ Zero(FV * s.v - MV)
    BY TripleMeans
  <1>2. PICK a1, a2, a3, b1, b2, b3 \in Int :
          /\ NU * FU - MU * DU = a1 * E1 + a2 * E2 + a3 * E3
          /\ NV * FV - MV * DV = b1 * E1 + b2 * E2 + b3 * E3
    BY AssociativityIdentity
  <1>3. Zero(E1) /\ Zero(E2) /\ Zero(E3) /\ E1 \in Int /\ E2 \in Int /\ E3 \in Int
    <2>1. Zero(E1) /\ Zero(E2) /\ Zero(E3)
      BY PointMeans
    <2>2. /\ p.u \in Int /\ p.v \in Int /\ q.u \in Int /\ q.v \in Int /\ r.u \in Int /\ r.v \in Int
          /\ EDWARDS_D \in Int
      BY PointMeans, FieldAssumption DEF Field
    <2>3. QED
      BY <2>1, <2>2 DEF Equation
  <1>4. s \in Curve /\ t \in Curve /\ HostAdd(q, r) \in Curve
    BY SumOnCurve
  <1>5. /\ s.u \in Field /\ s.v \in Field /\ t.u \in Field /\ t.v \in Field
        /\ s = [u |-> s.u, v |-> s.v] /\ t = [u |-> t.u, v |-> t.v]
    BY <1>4, PointMeans
  <1>6. s = HostAdd(p, HostAdd(q, r))
    BY <1>4, SumCommutes
  <1> HIDE DEF t, s, DU, DV, FU, FV, NU, NV, MU, MV, E1, E2, E3
  <1>7. Zero(NU * FU - MU * DU) /\ Zero(NV * FV - MV * DV)
    <2> DEFINE zero == 0
    <2>1. zero \in Int /\ a3 * E3 = a3 * E3 + zero * E3 /\ b3 * E3 = b3 * E3 + zero * E3
      BY <1>3
    <2>2. /\ NU * FU - MU * DU = a1 * E1 + a2 * E2 + a3 * E3 + zero * E3
          /\ NV * FV - MV * DV = b1 * E1 + b2 * E2 + b3 * E3 + zero * E3
      BY <1>2, <1>3
    <2> HIDE DEF zero
    <2>3. Zero(a1 * E1 + a2 * E2 + a3 * E3 + zero * E3)
      BY <1>2, <1>3, <2>1, Combination, Zenon
    <2>4. Zero(b1 * E1 + b2 * E2 + b3 * E3 + zero * E3)
      BY <1>2, <1>3, <2>1, Combination, Zenon
    <2>5. QED
      BY <2>2, <2>3, <2>4
  <1>8. t.u = s.u
    BY <1>1, <1>5, <1>7, FractionsEqual, Zenon
  <1>9. t.v = s.v
    BY <1>1, <1>5, <1>7, FractionsEqual, Zenon
  <1>10. t = s
    BY <1>5, <1>8, <1>9
  <1>11. QED
    BY <1>6, <1>10 DEF t

\* The neutral point is on the curve.
LEMMA NeutralOnCurve == Neutral \in Curve
  <1>1. /\ 0 \in Int /\ 1 \in Int /\ EDWARDS_D \in Int /\ 0 \in Field /\ 1 \in Field /\ Zero(0)
    BY FieldAssumption DEF Field, Zero, Divides
  <1>2. Equation(0, 1) = 0
    BY <1>1 DEF Equation
  <1>3. OnCurve(0, 1)
    BY <1>1, <1>2, OnCurveMeans
  <1>4. QED
    BY <1>1, <1>3 DEF Curve, Neutral

\* What the neutral point adds, and the opposite of a point.
LEMMA NeutralAndOpposite ==
  ASSUME NEW p \in Curve
  PROVE  /\ HostAdd(Neutral, p) = p /\ HostAdd(p, Neutral) = p
         /\ Negated(p) \in Curve /\ HostAdd(p, Negated(p)) = Neutral
  <1> DEFINE n == Negated(p)  d == EDWARDS_D  u == p.u  v == p.v  m == n.u
  <1>1. /\ u \in Int /\ v \in Int /\ d \in Int /\ Zero(Equation(u, v)) /\ u \in Field /\ v \in Field
        /\ p = [u |-> u, v |-> v] /\ Field \subseteq Int /\ P \in Nat \ {0} /\ 0 \in Field /\ 1 \in Field
    BY PointMeans, FieldAssumption DEF Field
  <1>2. Zero(0)
    BY FieldAssumption DEF Zero, Divides
  <1>3. Neutral \in Curve
    BY NeutralOnCurve
  <1>4. HostAdd(Neutral, p) = p
    <2>1. Cross(Neutral, p) = 0 /\ SumU(Neutral, p) = u /\ SumV(Neutral, p) = v
      BY <1>1 DEF Cross, SumU, SumV, Neutral
    <2>2. (1 + 0) * u - u = 0 /\ (1 - 0) * v - v = 0
      BY <1>1
    <2>3. IsSum(Neutral, p, p)
      BY <1>2, <2>1, <2>2 DEF IsSum
    <2>4. p \in [u : Field, v : Field]
      BY <1>1
    <2>5. QED
      BY <1>3, <2>3, <2>4, HostAddMeans
  <1>5. m \in Field /\ m \in Int /\ Zero(m + u) /\ n = [u |-> m, v |-> v] /\ n.v = v
    <2>1. 0 - u \in Int
      BY <1>1
    <2>2. (0 - u) % P \in Field /\ Zero(((0 - u) % P) - (0 - u))
      BY <2>1, Residues
    <2>3. m = (0 - u) % P /\ n = [u |-> m, v |-> v] /\ n.v = v
      BY DEF Negated
    <2>4. m - (0 - u) = m + u /\ m \in Int
      BY <1>1, <2>2, <2>3
    <2>5. QED
      BY <2>2, <2>3, <2>4
  <1> HIDE DEF n, d, u, v, m
  <1> DEFINE e == m + u
  <1>6. n \in Curve
    <2> DEFINE E == Equation(m, v)  F == Equation(u, v)  one == 1  c == (u - m) * (1 + d * (v * v))
    <2>1. E \in Int /\ F \in Int /\ c \in Int /\ e \in Int /\ one \in Int
      BY <1>1, <1>5 DEF Equation, d
    <2>2. E = c * e + one * F
      BY <1>1, <1>5 DEF Equation, d
    <2> HIDE DEF E, F, c, e, one
    <2>3. Zero(c * e + one * F)
      BY <1>1, <1>5, <2>1, Combination2, Zenon DEF e, F
    <2>4. OnCurve(m, v)
      BY <1>1, <1>5, <2>2, <2>3, OnCurveMeans DEF E
    <2>5. QED
      BY <1>1, <1>5, <2>4 DEF Curve
  <1>7. HostAdd(p, n) = Neutral
    <2> DEFINE E == Equation(u, v)  one == 1  minus == -1  zero == 0  w == 0 - v
               c == d * (u * (v * v)) + u
    <2>1. Cross(p, n) = d * (u * v * m * v) /\ SumU(p, n) = u * v + v * m
          /\ SumV(p, n) = v * v + u * m
      BY <1>1, <1>5 DEF Cross, SumU, SumV, d, u, v, m
    <2>2. /\ w \in Int /\ one \in Int /\ minus \in Int /\ zero \in Int /\ c \in Int /\ E \in Int /\ e \in Int
      BY <1>1, <1>5 DEF Equation, d
    <2>3. /\ (1 + d * (u * v * m * v)) * 0 - (u * v + v * m) = w * e + zero * e
          /\ (1 - d * (u * v * m * v)) * 1 - (v * v + u * m) = (0 - c) * e + minus * E
      BY <1>1, <1>5 DEF Equation, d
    <2> DEFINE k == 0 - c
    <2>4. k \in Int
      BY <2>2
    <2> HIDE DEF E, e, one, minus, zero, w, c, k
    <2>5. Zero(w * e + zero * e)
      BY <1>5, <2>2, Combination2, Zenon DEF e
    <2>6. Zero(k * e + minus * E)
      BY <1>1, <1>5, <2>2, <2>4, Combination2, Zenon DEF e, E
    <2>7. IsSum(p, n, Neutral)
      BY <2>1, <2>3, <2>5, <2>6 DEF IsSum, Neutral, k
    <2>8. Neutral \in [u : Field, v : Field]
      BY <1>1 DEF Neutral
    <2>9. QED
      BY <1>6, <2>7, <2>8, HostAddMeans
  <1>8. HostAdd(p, Neutral) = p
    BY <1>3, <1>4, SumCommutes
  <1>9. QED
    BY <1>3, <1>4, <1>6, <1>7, <1>8 DEF n

\* The points of the curve are a commutative group under the addition the code
\* and the circuit use, for every curve of this shape: no sum of points needs a
\* case of its own, no sum leaves the curve, and sums may be regrouped, which is
\* what lets a scalar be applied bit by bit.
THEOREM GroupLaw ==
  /\ Neutral \in Curve
  /\ \A p, q \in Curve : HostAdd(p, q) \in Curve /\ HostAdd(p, q) = HostAdd(q, p)
  /\ \A p, q, r \in Curve : HostAdd(HostAdd(p, q), r) = HostAdd(p, HostAdd(q, r))
  /\ \A p \in Curve : /\ HostAdd(Neutral, p) = p
                      /\ Negated(p) \in Curve /\ HostAdd(p, Negated(p)) = Neutral
  BY NeutralOnCurve, SumOnCurve, SumCommutes, SumAssociates, NeutralAndOpposite

------------------------------------------------------------------------------
(* The gadgets leave no choice. *)

\* Quotients of numbers with the residues of a sum's numerators and cross product.
LEMMA QuotientsMeans ==
  ASSUME NEW p \in Curve, NEW q \in Curve, NEW nu \in Int, NEW nv \in Int, NEW c \in Int,
         Zero(c - Cross(p, q)), Zero(nu - SumU(p, q)), Zero(nv - SumV(p, q))
  PROVE  Quotients(nu, nv, c) = {HostAdd(p, q)}
  <1> DEFINE x == Cross(p, q)  X == SumU(p, q)  Y == SumV(p, q)
             s == 1 + c  t == 1 - c  s1 == 1 + x  t1 == 1 - x
             a == Times(invert[s % P], nu % P)  b == Times(invert[t % P], nv % P)
  <1>1. x \in Int /\ X \in Int /\ Y \in Int /\ ~ Zero(s1) /\ ~ Zero(t1)
        /\ Zero(nu - X) /\ Zero(nv - Y)
    BY Denominators
  <1> HIDE DEF x, X, Y
  <1>2. Zero(s - s1) /\ Zero(t - t1)
    <2>1. s - s1 = c - x /\ t - t1 = x - c
      BY <1>1
    <2>2. QED
      BY <1>1, <2>1, Opposite DEF x
  <1>3. s \in Int /\ t \in Int /\ s1 \in Int /\ t1 \in Int
    BY <1>1
  <1> HIDE DEF s, t, s1, t1
  <1>4. ~ Zero(s) /\ ~ Zero(t)
    BY <1>1, <1>2, <1>3, ZeroTogether
  <1>5. /\ a \in Field /\ Zero(s * a - nu) /\ Solve(s, nu) = {a}
        /\ b \in Field /\ Zero(t * b - nv) /\ Solve(t, nv) = {b}
    BY <1>3, <1>4, SolveMeans
  <1> HIDE DEF a, b
  <1>6. a \in Int /\ b \in Int
    BY <1>5, FieldAssumption DEF Field
  <1>7. Zero(s1 * a - X)
    BY <1>1, <1>2, <1>3, <1>5, <1>6, SameEquation, Zenon
  <1>8. Zero(t1 * b - Y)
    BY <1>1, <1>2, <1>3, <1>5, <1>6, SameEquation, Zenon
  <1> DEFINE r == [u |-> a, v |-> b]
  <1>9. r \in [u : Field, v : Field] /\ IsSum(p, q, r)
    BY <1>5, <1>7, <1>8 DEF IsSum, s1, t1, x, X, Y
  <1>10. r = HostAdd(p, q)
    BY <1>9, HostAddMeans
  <1>11. Quotients(nu, nv, c) = {[u |-> i, v |-> j] : i \in {a}, j \in {b}}
    BY <1>5 DEF Quotients, s, t
  <1>12. QED
    BY <1>10, <1>11

\* The product modulo P of two sums, and of two factors of which one is reduced.
LEMMA AddMeans ==
  ASSUME NEW p \in Curve, NEW q \in Curve
  PROVE  Add(p, q) = {HostAdd(p, q)}
  <1> DEFINE pu == p.u  pv == p.v  qu == q.u  qv == q.v  d == EDWARDS_D
             j == pu + pv  k == qu + qv
             t == Times(j, k)  a == Times(qv, pu)  b == Times(qu, pv)
             da == Times(d, a)  c == Times(da, b)
             nu == a + b  nv == t - a - b
             x == Cross(p, q)  X == SumU(p, q)  Y == SumV(p, q)
  <1>1. /\ pu \in Int /\ pv \in Int /\ qu \in Int /\ qv \in Int /\ d \in Int
        /\ x = d * (pu * pv * qu * qv) /\ X = pu * qv + pv * qu /\ Y = pv * qv + pu * qu
    BY PointMeans, FieldAssumption DEF Field, Cross, SumU, SumV
  <1>2. Add(p, q) = Quotients(nu, nv, c)
    BY DEF Add
  <1> HIDE DEF pu, pv, qu, qv, d, x, X, Y
  <1> DEFINE e1 == t - j * k  e2 == a - qv * pu  e3 == b - qu * pv  e4 == da - d * a  e5 == c - da * b
  <1>3. /\ t \in Int /\ Zero(e1) /\ a \in Int /\ Zero(e2) /\ b \in Int /\ Zero(e3)
    BY <1>1, TimesMeans
  <1> HIDE DEF t, a, b
  <1>4. da \in Int /\ Zero(e4)
    BY <1>1, <1>3, TimesMeans
  <1> HIDE DEF da
  <1>5. c \in Int /\ Zero(e5)
    BY <1>3, <1>4, TimesMeans
  <1> HIDE DEF c
  <1> DEFINE one == 1  minus == -1  zero == 0  f2 == d * b  f3 == d * (qv * pu)
  <1>6. /\ e1 \in Int /\ e2 \in Int /\ e3 \in Int /\ e4 \in Int /\ e5 \in Int
        /\ one \in Int /\ minus \in Int /\ zero \in Int /\ f2 \in Int /\ f3 \in Int
        /\ nu \in Int /\ nv \in Int /\ X \in Int /\ Y \in Int /\ x \in Int
    BY <1>1, <1>3, <1>4, <1>5
  <1>7. /\ nu - X = one * e2 + one * e3
        /\ nv - Y = one * e1 + minus * e2 + minus * e3 + zero * e3
        /\ c - x = one * e5 + b * e4 + f2 * e2 + f3 * e3
    BY <1>1, <1>3, <1>4, <1>5
  <1> HIDE DEF e1, e2, e3, e4, e5, one, minus, zero, f2, f3, nu, nv
  <1>8. Zero(one * e2 + one * e3)
    BY <1>3, <1>6, Combination2, Zenon
  <1>9. Zero(one * e1 + minus * e2 + minus * e3 + zero * e3)
    BY <1>3, <1>6, Combination, Zenon
  <1>10. Zero(one * e5 + b * e4 + f2 * e2 + f3 * e3)
    BY <1>3, <1>4, <1>5, <1>6, Combination, Zenon
  <1>11. Zero(nu - X) /\ Zero(nv - Y) /\ Zero(c - x)
    BY <1>7, <1>8, <1>9, <1>10
  <1>12. Quotients(nu, nv, c) = {HostAdd(p, q)}
    BY <1>5, <1>6, <1>11, QuotientsMeans DEF x, X, Y
  <1>13. QED
    BY <1>2, <1>12

LEMMA DoubleMeans ==
  ASSUME NEW p \in Curve
  PROVE  Double(p) = {HostAdd(p, p)}
  <1> DEFINE u == p.u  v == p.v  d == EDWARDS_D  j == u + v
             t == Times(j, j)  a == Times(u, v)  da == d * a  c == Times(da, a)
             nu == 2 * a  nv == t - 2 * a
             x == Cross(p, p)  X == SumU(p, p)  Y == SumV(p, p)
  <1>1. /\ u \in Int /\ v \in Int /\ d \in Int
        /\ x = d * (u * v * u * v) /\ X = u * v + v * u /\ Y = v * v + u * u
    BY PointMeans, FieldAssumption DEF Field, Cross, SumU, SumV
  <1>2. Double(p) = Quotients(nu, nv, c)
    BY DEF Double
  <1> HIDE DEF u, v, d, x, X, Y
  <1> DEFINE e1 == t - j * j  e2 == a - u * v  e5 == c - da * a
  <1>3. /\ t \in Int /\ Zero(e1) /\ a \in Int /\ Zero(e2)
    BY <1>1, TimesMeans
  <1> HIDE DEF t, a
  <1>4. da \in Int
    BY <1>1, <1>3
  <1>5. c \in Int /\ Zero(e5)
    BY <1>3, <1>4, TimesMeans
  <1> HIDE DEF c
  <1> DEFINE one == 1  minus == -2  two == 2  zero == 0  f2 == d * (a + u * v)
  <1>6. /\ e1 \in Int /\ e2 \in Int /\ e5 \in Int
        /\ one \in Int /\ minus \in Int /\ two \in Int /\ zero \in Int /\ f2 \in Int
        /\ nu \in Int /\ nv \in Int /\ X \in Int /\ Y \in Int /\ x \in Int
    BY <1>1, <1>3, <1>5
  <1>7. /\ nu - X = two * e2 + zero * e2
        /\ nv - Y = one * e1 + minus * e2
        /\ c - x = one * e5 + f2 * e2
    BY <1>1, <1>3, <1>5
  <1> HIDE DEF e1, e2, e5, one, minus, two, zero, f2, nu, nv
  <1>8. Zero(two * e2 + zero * e2)
    BY <1>3, <1>6, Combination2, Zenon
  <1>9. Zero(one * e1 + minus * e2)
    BY <1>3, <1>6, Combination2, Zenon
  <1>10. Zero(one * e5 + f2 * e2)
    BY <1>3, <1>5, <1>6, Combination2, Zenon
  <1>11. Zero(nu - X) /\ Zero(nv - Y) /\ Zero(c - x)
    BY <1>7, <1>8, <1>9, <1>10
  <1>12. Quotients(nu, nv, c) = {HostAdd(p, p)}
    BY <1>5, <1>6, <1>11, QuotientsMeans DEF x, X, Y
  <1>13. QED
    BY <1>2, <1>12

\* Adding and doubling in the circuit is what the host computes, on every pair of
\* points of the curve, equal, opposite or neutral ones too: the constraints have
\* one solution, and the honest prover's never fails for a zero denominator.
THEOREM AdditionIsForced ==
  \A p, q \in Curve : Add(p, q) = {HostAdd(p, q)} /\ Double(p) = {HostAdd(p, p)}
  BY AddMeans, DoubleMeans

------------------------------------------------------------------------------
(* The host's multiples. *)

\* HostMul computes with a table: a row from the row of half its number.
MulRow(f, n, p) == IF n = 0 THEN Neutral
                   ELSE LET h == f[n \div 2]  d == HostAdd(h, h)
                        IN IF n % 2 = 1 THEN HostAdd(d, p) ELSE d
MulTable(k, p) == CHOOSE f : f = [n \in 0..k |-> MulRow(f, n, p)]

\* The table exists.
LEMMA MulTableRows ==
  ASSUME NEW k \in Nat, NEW p
  PROVE  MulTable(k, p) = [n \in 0..k |-> MulRow(MulTable(k, p), n, p)]
  <1> DEFINE S == {j \in Nat : \E f : f = [n \in 0..j |-> MulRow(f, n, p)]}
  <1>1. 0 \in S
    <2> DEFINE f == [n \in 0..0 |-> Neutral]
    <2>1. \A n \in 0..0 : MulRow(f, n, p) = Neutral
      BY DEF MulRow
    <2>2. f = [n \in 0..0 |-> MulRow(f, n, p)]
      BY <2>1
    <2> HIDE DEF f
    <2>3. QED
      BY <2>2
  <1>2. ASSUME NEW j \in Nat, j \in S  PROVE j + 1 \in S
    <2>1. PICK f : f = [n \in 0..j |-> MulRow(f, n, p)]
      BY <1>2
    <2> DEFINE g == [n \in 0..(j + 1) |-> MulRow(f, n, p)]
    <2>2. ASSUME NEW n \in 0..j  PROVE g[n] = f[n]
      <3>1. n \in 0..(j + 1)
        OBVIOUS
      <3>2. f[n] = MulRow(f, n, p)
        BY <2>1, Zenon
      <3>3. QED
        BY <3>1, <3>2, Zenon
    <2>3. ASSUME NEW n \in 0..(j + 1)  PROVE MulRow(g, n, p) = MulRow(f, n, p)
      <3>1. CASE n = 0
        BY <3>1 DEF MulRow
      <3>2. CASE n # 0
        <4>1. n \div 2 \in 0..j
          BY <3>2
        <4>2. g[n \div 2] = f[n \div 2]
          BY <2>2, <4>1
        <4> HIDE DEF g
        <4>3. QED
          BY <4>2, Zenon DEF MulRow
      <3>3. QED
        BY <3>1, <3>2
    <2>4. g = [n \in 0..(j + 1) |-> MulRow(g, n, p)]
      BY <2>3, Zenon
    <2> HIDE DEF g
    <2>5. QED
      BY <2>4
  <1> HIDE DEF S
  <1>3. k \in S
    BY <1>1, <1>2, SetInduction
  <1>4. \E f : f = [n \in 0..k |-> MulRow(f, n, p)]
    BY <1>3 DEF S
  <1>5. QED
    BY <1>4, Zenon DEF MulTable

LEMMA MulTableRow ==
  ASSUME NEW k \in Nat, NEW p, NEW n \in 0..k
  PROVE  MulTable(k, p)[n] = MulRow(MulTable(k, p), n, p)
  <1> DEFINE f == MulTable(k, p)
  <1>1. f = [i \in 0..k |-> MulRow(f, i, p)]
    BY MulTableRows
  <1> HIDE DEF f
  <1>2. f[n] = MulRow(f, n, p)
    BY <1>1, Zenon
  <1>3. QED
    BY <1>2 DEF f

\* A longer table begins with a shorter one.
LEMMA MulTablesAgree ==
  ASSUME NEW p
  PROVE  \A n, j, k \in Nat : n <= j /\ n <= k => MulTable(j, p)[n] = MulTable(k, p)[n]
  <1> DEFINE S == {n \in Nat : \A j, k \in Nat : n <= j /\ n <= k =>
                                   MulTable(j, p)[n] = MulTable(k, p)[n]}
  <1>1. ASSUME NEW n \in Nat, 0..(n - 1) \subseteq S  PROVE n \in S
    <2>1. SUFFICES ASSUME NEW j \in Nat, NEW k \in Nat, n <= j, n <= k
                   PROVE  MulTable(j, p)[n] = MulTable(k, p)[n]
      OBVIOUS
    <2>2. /\ MulTable(j, p)[n] = MulRow(MulTable(j, p), n, p)
          /\ MulTable(k, p)[n] = MulRow(MulTable(k, p), n, p)
      <3>1. n \in 0..j /\ n \in 0..k
        BY <2>1
      <3>2. QED
        BY <3>1, MulTableRow
    <2>3. CASE n = 0
      BY <2>2, <2>3 DEF MulRow
    <2>4. CASE n # 0
      <3>1. n \div 2 \in 0..(n - 1) /\ n \div 2 \in Nat /\ n \div 2 <= j /\ n \div 2 <= k
        BY <2>1, <2>4
      <3>2. MulTable(j, p)[n \div 2] = MulTable(k, p)[n \div 2]
        BY <1>1, <3>1
      <3>3. QED
        BY <2>2, <3>2, Zenon DEF MulRow
    <2>5. QED
      BY <2>3, <2>4
  <1>2. Nat \subseteq S
    <2> HIDE DEF S
    <2>1. QED
      BY <1>1, StrongInduction
  <1>3. QED
    BY <1>2

\* How HostMul doubles and adds.
LEMMA HostMulRows ==
  ASSUME NEW p
  PROVE  /\ HostMul(0, p) = Neutral
         /\ \A n \in Nat \ {0} :
              LET h == HostMul(n \div 2, p)
              IN  HostMul(n, p) = IF n % 2 = 1 THEN HostAdd(HostAdd(h, h), p) ELSE HostAdd(h, h)
  <1>1. ASSUME NEW n \in Nat  PROVE HostMul(n, p) = MulTable(n, p)[n]
    BY Zenon DEF HostMul, MulTable, MulRow
  <1>2. ASSUME NEW n \in Nat  PROVE HostMul(n, p) = MulRow(MulTable(n, p), n, p)
    <2>1. n \in 0..n
      OBVIOUS
    <2>2. QED
      BY <1>1, <2>1, MulTableRow
  <1>3. HostMul(0, p) = Neutral
    BY <1>2 DEF MulRow
  <1>4. ASSUME NEW n \in Nat \ {0}
        PROVE  LET h == HostMul(n \div 2, p)
               IN  HostMul(n, p) = IF n % 2 = 1 THEN HostAdd(HostAdd(h, h), p) ELSE HostAdd(h, h)
    <2>1. n \div 2 \in Nat /\ n \div 2 <= n
      OBVIOUS
    <2>2. MulTable(n, p)[n \div 2] = HostMul(n \div 2, p)
      BY <1>1, <2>1, MulTablesAgree
    <2>3. HostMul(n, p) = MulRow(MulTable(n, p), n, p) /\ n # 0
      BY <1>2
    <2>4. QED
      BY <2>2, <2>3, Zenon DEF MulRow
  <1>5. QED
    BY <1>3, <1>4

\* Multiples lie on the curve, and the next one is a sum.
LEMMA HostMulNext ==
  ASSUME NEW p \in Curve
  PROVE  \A n \in Nat : HostMul(n, p) \in Curve /\ HostMul(n + 1, p) = HostAdd(HostMul(n, p), p)
  <1> DEFINE On == {n \in Nat : HostMul(n, p) \in Curve}
             S == {n \in Nat : HostMul(n + 1, p) = HostAdd(HostMul(n, p), p)}
  <1>1. Nat \subseteq On
    <2>1. ASSUME NEW n \in Nat, 0..(n - 1) \subseteq On  PROVE n \in On
      <3>1. CASE n = 0
        BY <3>1, HostMulRows, NeutralOnCurve
      <3>2. CASE n # 0
        <4> DEFINE h == HostMul(n \div 2, p)
        <4>1. n \div 2 \in 0..(n - 1)
          BY <3>2
        <4>2. h \in Curve
          BY <2>1, <4>1
        <4>3. HostMul(n, p) \in {HostAdd(HostAdd(h, h), p), HostAdd(h, h)}
          BY <3>2, HostMulRows
        <4> HIDE DEF h
        <4>4. HostAdd(h, h) \in Curve
          BY <4>2, SumOnCurve
        <4>5. HostAdd(HostAdd(h, h), p) \in Curve
          BY <4>4, SumOnCurve
        <4>6. QED
          BY <4>3, <4>4, <4>5
      <3>3. QED
        BY <3>1, <3>2
    <2> HIDE DEF On
    <2>2. QED
      BY <2>1, StrongInduction
  <1>2. ASSUME NEW n \in Nat, 0..(n - 1) \subseteq S  PROVE n \in S
    <2> DEFINE m == n + 1  g == HostMul(m \div 2, p)  h == HostMul(n \div 2, p)
    <2>1. g \in Curve /\ h \in Curve /\ HostMul(n, p) \in Curve
      BY <1>1
    <2>2. /\ HostMul(m, p) = IF m % 2 = 1 THEN HostAdd(HostAdd(g, g), p) ELSE HostAdd(g, g)
          /\ n # 0 => HostMul(n, p) = IF n % 2 = 1 THEN HostAdd(HostAdd(h, h), p) ELSE HostAdd(h, h)
      <3>1. m \in Nat \ {0}
        OBVIOUS
      <3> HIDE DEF m
      <3>2. QED
        BY <3>1, HostMulRows DEF g, h
    <2>3. CASE n = 0
      <3>1. m % 2 = 1 /\ m \div 2 = 0
        BY <2>3
      <3>2. g = Neutral
        BY <3>1, HostMulRows
      <3>3. HostAdd(g, g) = Neutral
        BY <3>2, NeutralOnCurve, NeutralAndOpposite
      <3>4. HostMul(n, p) = Neutral
        BY <2>3, HostMulRows
      <3>5. QED
        BY <2>2, <3>1, <3>3, <3>4
    <2>4. CASE n # 0 /\ n % 2 = 0
      <3>1. m % 2 = 1 /\ m \div 2 = n \div 2
        BY <2>4
      <3>2. HostMul(n, p) = HostAdd(h, h)
        BY <2>2, <2>4
      <3>3. QED
        BY <2>2, <3>1, <3>2
    <2>5. CASE n # 0 /\ n % 2 = 1
      <3>1. m % 2 = 0 /\ m \div 2 = (n \div 2) + 1 /\ n \div 2 \in 0..(n - 1)
        BY <2>5
      <3>2. g = HostAdd(h, p)
        BY <1>2, <3>1
      <3>3. HostMul(n, p) = HostAdd(HostAdd(h, h), p)
        BY <2>2, <2>5
      <3> HIDE DEF g, h
      <3>4. HostAdd(g, g) = HostAdd(HostAdd(HostAdd(h, h), p), p)
        <4>1. HostAdd(h, p) \in Curve /\ HostAdd(h, h) \in Curve
          BY <2>1, SumOnCurve
        <4>2. HostAdd(HostAdd(h, p), HostAdd(h, p)) = HostAdd(HostAdd(HostAdd(h, p), h), p)
          BY <2>1, <4>1, SumAssociates
        <4>3. HostAdd(HostAdd(h, p), h) = HostAdd(h, HostAdd(h, p))
          BY <2>1, <4>1, SumCommutes
        <4>4. HostAdd(h, HostAdd(h, p)) = HostAdd(HostAdd(h, h), p)
          BY <2>1, SumAssociates
        <4>5. QED
          BY <3>2, <4>2, <4>3, <4>4
      <3>5. QED
        BY <2>2, <3>1, <3>3, <3>4
    <2>6. n % 2 \in {0, 1}
      OBVIOUS
    <2>7. QED
      BY <2>3, <2>4, <2>5, <2>6
  <1>3. Nat \subseteq S
    <2> HIDE DEF S
    <2>1. QED
      BY <1>2, StrongInduction
  <1>4. QED
    BY <1>1, <1>3

\* The multiples are the sums of a point with itself: HostMul is additive in the
\* number, multiplicative, and additive in the point.
LEMMA HostMulSum ==
  ASSUME NEW p \in Curve, NEW a \in Nat
  PROVE  \A b \in Nat : HostMul(a + b, p) = HostAdd(HostMul(a, p), HostMul(b, p))
  <1> DEFINE S == {b \in Nat : HostMul(a + b, p) = HostAdd(HostMul(a, p), HostMul(b, p))}
             x == HostMul(a, p)
  <1>1. x \in Curve
    BY HostMulNext
  <1>2. 0 \in S
    <2>1. a + 0 = a /\ HostMul(0, p) = Neutral /\ HostAdd(x, Neutral) = x
      BY <1>1, HostMulRows, NeutralAndOpposite
    <2>2. QED
      BY <2>1
  <1>3. ASSUME NEW b \in Nat, b \in S  PROVE b + 1 \in S
    <2> DEFINE y == HostMul(b, p)
    <2>1. a + (b + 1) = (a + b) + 1 /\ a + b \in Nat
      OBVIOUS
    <2>2. HostMul(a + b, p) = HostAdd(x, y)
      BY <1>3
    <2>3. HostMul((a + b) + 1, p) = HostAdd(HostMul(a + b, p), p) /\ HostMul(b + 1, p) = HostAdd(y, p)
      BY <2>1, HostMulNext
    <2>4. y \in Curve
      BY HostMulNext
    <2>5. HostAdd(HostAdd(x, y), p) = HostAdd(x, HostAdd(y, p))
      BY <1>1, <2>4, SumAssociates
    <2>6. QED
      BY <2>1, <2>2, <2>3, <2>5
  <1> HIDE DEF S
  <1>4. Nat \subseteq S
    BY <1>2, <1>3, SetInduction
  <1>5. QED
    BY <1>4 DEF S

LEMMA HostMulProduct ==
  ASSUME NEW p \in Curve, NEW b \in Nat
  PROVE  \A a \in Nat : HostMul(a * b, p) = HostMul(a, HostMul(b, p))
  <1> DEFINE q == HostMul(b, p)  S == {a \in Nat : HostMul(a * b, p) = HostMul(a, q)}
  <1>1. q \in Curve
    BY HostMulNext
  <1>2. 0 \in S
    BY HostMulRows
  <1>3. ASSUME NEW a \in Nat, a \in S  PROVE a + 1 \in S
    <2>1. (a + 1) * b = a * b + b /\ a * b \in Nat
      OBVIOUS
    <2> DEFINE c == a * b
    <2>2. HostMul(c + b, p) = HostAdd(HostMul(c, p), q)
      <3>1. c \in Nat
        BY <2>1
      <3> HIDE DEF c
      <3>2. QED
        BY <3>1, HostMulSum
    <2>3. HostMul(a + 1, q) = HostAdd(HostMul(a, q), q)
      BY <1>1, HostMulNext
    <2>4. QED
      BY <1>3, <2>1, <2>2, <2>3
  <1> HIDE DEF S
  <1>4. Nat \subseteq S
    BY <1>2, <1>3, SetInduction
  <1>5. QED
    BY <1>4 DEF S

LEMMA HostMulOfSum ==
  ASSUME NEW p \in Curve, NEW q \in Curve
  PROVE  \A n \in Nat : HostMul(n, HostAdd(p, q)) = HostAdd(HostMul(n, p), HostMul(n, q))
  <1> DEFINE r == HostAdd(p, q)
             S == {n \in Nat : HostMul(n, r) = HostAdd(HostMul(n, p), HostMul(n, q))}
  <1>1. r \in Curve
    BY SumOnCurve
  <1>2. 0 \in S
    BY HostMulRows, NeutralOnCurve, NeutralAndOpposite
  <1>3. ASSUME NEW n \in Nat, n \in S  PROVE n + 1 \in S
    <2> DEFINE x == HostMul(n, p)  y == HostMul(n, q)
    <2>1. x \in Curve /\ y \in Curve
      BY HostMulNext
    <2>2. /\ HostMul(n + 1, r) = HostAdd(HostAdd(x, y), r)
          /\ HostMul(n + 1, p) = HostAdd(x, p) /\ HostMul(n + 1, q) = HostAdd(y, q)
      BY <1>1, <1>3, HostMulNext
    <2> HIDE DEF x, y
    <2>3. HostAdd(HostAdd(x, y), HostAdd(p, q)) = HostAdd(HostAdd(x, p), HostAdd(y, q))
      <3>1. HostAdd(y, HostAdd(p, q)) = HostAdd(p, HostAdd(y, q))
        <4>1. HostAdd(y, HostAdd(p, q)) = HostAdd(HostAdd(y, p), q)
          BY <2>1, SumAssociates
        <4>2. HostAdd(y, p) = HostAdd(p, y)
          BY <2>1, SumCommutes
        <4>3. HostAdd(HostAdd(p, y), q) = HostAdd(p, HostAdd(y, q))
          BY <2>1, SumAssociates
        <4>4. QED
          BY <4>1, <4>2, <4>3
      <3>2. HostAdd(HostAdd(x, y), HostAdd(p, q)) = HostAdd(x, HostAdd(y, HostAdd(p, q)))
        BY <1>1, <2>1, SumAssociates
      <3>3. HostAdd(x, HostAdd(p, HostAdd(y, q))) = HostAdd(HostAdd(x, p), HostAdd(y, q))
        BY <2>1, SumOnCurve, SumAssociates
      <3>4. QED
        BY <3>1, <3>2, <3>3
    <2>4. QED
      BY <2>2, <2>3 DEF x, y
  <1> HIDE DEF S
  <1>4. Nat \subseteq S
    BY <1>2, <1>3, SetInduction
  <1>5. QED
    BY <1>4 DEF S

LEMMA HostMulNeutral == \A n \in Nat : HostMul(n, Neutral) = Neutral
  <1> DEFINE S == {n \in Nat : HostMul(n, Neutral) = Neutral}
  <1>1. 0 \in S
    BY HostMulRows
  <1>2. ASSUME NEW n \in Nat, n \in S  PROVE n + 1 \in S
    BY <1>2, NeutralOnCurve, HostMulNext, NeutralAndOpposite
  <1> HIDE DEF S
  <1>3. Nat \subseteq S
    BY <1>1, <1>2, SetInduction
  <1>4. QED
    BY <1>3 DEF S

------------------------------------------------------------------------------
(* mul in the circuit. *)

\* mul keeps the results of every turn of its loop.
SumRow(after, bits, p, i) ==
  IF i = 1 THEN {[base |-> p, sum |-> conditionally_select(p, bits[1])]}
           ELSE MulStep(after[i - 1], bits[i])
SumTable(bits, p) == CHOOSE after : after = [i \in 1..Len(bits) |-> SumRow(after, bits, p, i)]

\* They exist.
LEMMA SumTableRow ==
  ASSUME NEW p, NEW bits, Len(bits) \in Nat, NEW i \in 1..Len(bits)
  PROVE  SumTable(bits, p)[i] = SumRow(SumTable(bits, p), bits, p, i)
  <1> DEFINE S == {n \in Nat : \E f : f = [j \in 1..n |-> SumRow(f, bits, p, j)]}
  <1>1. 0 \in S
    <2> DEFINE f == [j \in 1..0 |-> Neutral]
    <2>1. f = [j \in 1..0 |-> SumRow(f, bits, p, j)]
      OBVIOUS
    <2> HIDE DEF f
    <2>2. QED
      BY <2>1
  <1>2. ASSUME NEW n \in Nat, n \in S  PROVE n + 1 \in S
    <2>1. PICK f : f = [j \in 1..n |-> SumRow(f, bits, p, j)]
      BY <1>2
    <2> DEFINE g == [j \in 1..(n + 1) |-> SumRow(f, bits, p, j)]
    <2>2. ASSUME NEW j \in 1..n  PROVE g[j] = f[j]
      <3>1. j \in 1..(n + 1)
        OBVIOUS
      <3>2. f[j] = SumRow(f, bits, p, j)
        BY <2>1, Zenon
      <3>3. QED
        BY <3>1, <3>2, Zenon
    <2>3. ASSUME NEW j \in 1..(n + 1)  PROVE SumRow(g, bits, p, j) = SumRow(f, bits, p, j)
      <3>1. CASE j = 1
        BY <3>1 DEF SumRow
      <3>2. CASE j # 1
        <4>1. j - 1 \in 1..n
          BY <3>2
        <4>2. g[j - 1] = f[j - 1]
          BY <2>2, <4>1
        <4> HIDE DEF g
        <4>3. QED
          BY <4>2, Zenon DEF SumRow
      <3>3. QED
        BY <3>1, <3>2
    <2>4. g = [j \in 1..(n + 1) |-> SumRow(g, bits, p, j)]
      BY <2>3, Zenon
    <2> HIDE DEF g
    <2>5. QED
      BY <2>4
  <1> HIDE DEF S
  <1>3. Len(bits) \in S
    BY <1>1, <1>2, SetInduction
  <1> DEFINE t == SumTable(bits, p)
  <1>4. t = [j \in 1..Len(bits) |-> SumRow(t, bits, p, j)]
    <2>1. \E f : f = [j \in 1..Len(bits) |-> SumRow(f, bits, p, j)]
      BY <1>3 DEF S
    <2>2. QED
      BY <2>1, Zenon DEF SumTable
  <1> HIDE DEF t
  <1>5. t[i] = SumRow(t, bits, p, i)
    BY <1>4, Zenon
  <1>6. QED
    BY <1>5 DEF t

\* The bits of a number.
LEMMA BitsMean ==
  ASSUME NEW k \in Nat, NEW n \in Nat
  PROVE  /\ Len(BitsOf(k, n)) = n /\ BitsOf(k, n) \in Seq({0, 1})
         /\ \A i \in 1..n : BitsOf(k, n)[i] = (k \div 2^(i - 1)) % 2
  <1>1. ASSUME NEW i \in 1..n  PROVE (k \div 2^(i - 1)) % 2 \in {0, 1}
    <2>1. i - 1 \in Nat
      OBVIOUS
    <2>2. 2^(i - 1) \in Nat \ {0}
      BY <2>1, PowerPositive
    <2>3. QED
      BY <2>2, LowBits
  <1>2. BitsOf(k, n) \in [1..n -> {0, 1}]
    BY <1>1 DEF BitsOf
  <1>3. BitsOf(k, n) \in Seq({0, 1}) /\ Len(BitsOf(k, n)) = n
    BY <1>2
  <1>4. QED
    BY <1>3 DEF BitsOf

\* One turn with one result so far leaves one result.
LEMMA MulStepMeans ==
  ASSUME NEW b \in Curve, NEW s \in Curve, NEW bit
  PROVE  MulStep({[base |-> b, sum |-> s]}, bit)
         = {[base |-> HostAdd(b, b), sum |-> HostAdd(s, conditionally_select(HostAdd(b, b), bit))]}
  <1> DEFINE d == HostAdd(b, b)  c == conditionally_select(d, bit)  x == [base |-> b, sum |-> s]
  <1>1. d \in Curve
    BY SumOnCurve
  <1>2. c \in Curve
    BY <1>1, NeutralOnCurve DEF conditionally_select
  <1>3. Double(b) = {d} /\ Add(s, c) = {HostAdd(s, c)}
    BY <1>2, DoubleMeans, AddMeans
  <1>4. x.base = b /\ x.sum = s
    OBVIOUS
  <1>5. MulStep({x}, bit) = UNION {UNION {
            {[base |-> e, sum |-> r] : r \in Add(y.sum, conditionally_select(e, bit))} :
            e \in Double(y.base)} : y \in {x}}
    BY DEF MulStep
  <1> HIDE DEF d, x
  <1>6. UNION {UNION {{[base |-> e, sum |-> r] : r \in Add(y.sum, conditionally_select(e, bit))} :
            e \in Double(y.base)} : y \in {x}}
        = {[base |-> d, sum |-> HostAdd(s, c)]}
    BY <1>3, <1>4
  <1>7. QED
    BY <1>5, <1>6 DEF d, x

\* The loop of mul: after i turns the base has doubled i - 1 times, and the sum is
\* the multiple for the lowest i bits.
LEMMA MulMeans ==
  ASSUME NEW p \in Curve, NEW k \in Nat, NEW n \in Nat \ {0}, k < 2^n
  PROVE  mul(p, BitsOf(k, n)) = {HostMul(k, p)}
  <1> DEFINE bits == BitsOf(k, n)  t == SumTable(bits, p)
             S == {i \in Nat : i + 1 <= n =>
                     t[i + 1] = {[base |-> HostMul(2^i, p), sum |-> HostMul(k % 2^(i + 1), p)]}}
  <1>1. Len(bits) = n /\ \A i \in 1..n : bits[i] = (k \div 2^(i - 1)) % 2
    BY BitsMean
  <1>2. \A i \in 1..n : t[i] = SumRow(t, bits, p, i)
    BY <1>1, SumTableRow
  <1> HIDE DEF bits, t
  <1>3. 0 \in S
    <2>1. t[1] = {[base |-> p, sum |-> conditionally_select(p, bits[1])]}
      BY <1>2 DEF SumRow
    <2>2. 2^0 = 1 /\ 2^1 = 2
      BY PowerDoubles, PowerZero
    <2>3. HostMul(0, p) = Neutral /\ HostMul(1, p) = p
      <3>1. HostMul(0 + 1, p) = HostAdd(HostMul(0, p), p) /\ 0 + 1 = 1
        BY HostMulNext
      <3>2. QED
        BY <3>1, HostMulRows, NeutralAndOpposite
    <2>4. bits[1] = (k \div 1) % 2 /\ k \div 1 = k
      <3>1. 1 \in 1..n /\ 1 - 1 = 0
        OBVIOUS
      <3>2. bits[1] = (k \div 2^(1 - 1)) % 2
        BY <1>1, <3>1
      <3>3. QED
        BY <2>2, <3>1, <3>2
    <2>5. k % 2 = 1 \/ k % 2 = 0
      OBVIOUS
    <2>6. conditionally_select(p, bits[1]) = HostMul(k % 2, p)
      BY <2>3, <2>4, <2>5 DEF conditionally_select
    <2>7. 0 + 1 = 1
      OBVIOUS
    <2>8. QED
      BY <2>1, <2>2, <2>3, <2>6, <2>7
  <1>4. ASSUME NEW i \in Nat, i \in S  PROVE i + 1 \in S
    <2>1. SUFFICES ASSUME (i + 1) + 1 <= n
                   PROVE  t[(i + 1) + 1] = {[base |-> HostMul(2^(i + 1), p),
                                             sum |-> HostMul(k % 2^((i + 1) + 1), p)]}
      OBVIOUS
    <2> DEFINE w == 2^(i + 1)  b == HostMul(2^i, p)  s == HostMul(k % w, p)
               bit == (k \div w) % 2  j == (i + 1) + 1  d == HostAdd(b, b)
    <2>2. /\ 2^i \in Nat /\ w \in Nat \ {0} /\ w = 2^i + 2^i /\ 2^((i + 1) + 1) = 2 * w
      BY PowerDoubles, PowerPositive
    <2>3. t[i + 1] = {[base |-> b, sum |-> s]}
      BY <1>4, <2>1
    <2>4. j \in 1..n /\ j # 1 /\ j - 1 = i + 1
      BY <2>1
    <2>5. t[j] = MulStep(t[i + 1], bits[j]) /\ bits[j] = bit
      BY <1>1, <1>2, <2>4 DEF SumRow
    <2> HIDE DEF w, j
    <2>6. b \in Curve /\ k % w \in Nat /\ s \in Curve
      BY <2>2, HostMulNext
    <2>7. t[j] = {[base |-> d, sum |-> HostAdd(s, conditionally_select(d, bit))]}
      BY <2>3, <2>5, <2>6, MulStepMeans
    <2>8. d = HostMul(w, p)
      BY <2>2, HostMulSum
    <2>9. HostAdd(s, conditionally_select(d, bit)) = HostMul(k % (2 * w), p)
      <3>1. bit \in {0, 1} /\ k % (2 * w) = IF bit = 1 THEN (k % w) + w ELSE k % w
        BY <2>2, LowBits
      <3>2. CASE bit = 1
        <4>1. HostMul((k % w) + w, p) = HostAdd(s, HostMul(w, p))
          BY <2>2, <2>6, HostMulSum
        <4>2. QED
          BY <2>8, <3>1, <3>2, <4>1 DEF conditionally_select
      <3>3. CASE bit = 0
        BY <2>6, <3>1, <3>3, NeutralAndOpposite DEF conditionally_select
      <3>4. QED
        BY <3>1, <3>2, <3>3
    <2>10. QED
      BY <2>2, <2>7, <2>8, <2>9 DEF w, j
  <1> HIDE DEF S
  <1>5. n - 1 \in S
    <2>1. n - 1 \in Nat
      OBVIOUS
    <2>2. QED
      BY <1>3, <1>4, <2>1, SetInduction
  <1>6. t[n] = {[base |-> HostMul(2^(n - 1), p), sum |-> HostMul(k % 2^n, p)]}
    <2>1. (n - 1) + 1 = n /\ n <= n
      OBVIOUS
    <2>2. QED
      BY <1>5, <2>1 DEF S
  <1>7. k % 2^n = k
    <2>1. 2^n \in Nat
      BY PowerDoubles
    <2>2. QED
      BY <2>1
  <1>8. mul(p, bits) = {x.sum : x \in t[Len(bits)]}
    BY Zenon DEF mul, t, SumTable, SumRow
  <1>9. QED
    BY <1>1, <1>6, <1>7, <1>8 DEF bits

------------------------------------------------------------------------------
(* The subgroup of prime order. *)

\* Its points are closed under multiples, which depend on the number modulo Order
\* only, and which are not neutral unless the number is a multiple of Order.
LEMMA SubgroupMultiples ==
  ASSUME NEW q \in Subgroup, NEW i \in Nat
  PROVE  /\ q \in Curve /\ HostMul(i, q) \in Subgroup
         /\ HostMul(i % Order, q) = HostMul(i, q)
         /\ q # Neutral /\ i \in 1..(Order - 1) => HostMul(i, q) # Neutral
  <1>1. q \in Curve /\ HostMul(Order, q) = Neutral
    BY DEF Subgroup
  <1>2. Order \in Nat /\ Order > 2
    BY OrderAssumption
  <1>3. HostMul(i, q) \in Subgroup
    <2>1. HostMul(Order * i, q) = HostMul(Order, HostMul(i, q))
      BY <1>1, <1>2, HostMulProduct
    <2>2. HostMul(i * Order, q) = HostMul(i, Neutral)
      BY <1>1, <1>2, HostMulProduct
    <2>3. Order * i = i * Order /\ HostMul(i, Neutral) = Neutral
      BY <1>2, HostMulNeutral
    <2>4. HostMul(i, q) \in Curve
      BY <1>1, HostMulNext
    <2>5. QED
      BY <2>1, <2>2, <2>3, <2>4 DEF Subgroup
  <1>4. ASSUME NEW j \in Nat  PROVE HostMul(j % Order, q) = HostMul(j, q)
    <2> DEFINE k == j \div Order  r == j % Order  a == k * Order
    <2>1. k \in Nat /\ r \in Nat /\ a \in Nat /\ j = a + r
      BY <1>2
    <2> HIDE DEF k, r
    <2>2. HostMul(a, q) = HostMul(k, Neutral) /\ HostMul(k, Neutral) = Neutral
      BY <1>1, <1>2, <2>1, HostMulProduct, HostMulNeutral
    <2> HIDE DEF a
    <2>3. HostMul(a + r, q) = HostAdd(HostMul(a, q), HostMul(r, q)) /\ HostMul(r, q) \in Curve
      BY <1>1, <2>1, HostMulSum, HostMulNext
    <2>4. QED
      BY <2>1, <2>2, <2>3, NeutralAndOpposite DEF r
  <1>5. ASSUME i \in 1..(Order - 1), HostMul(i, q) = Neutral  PROVE q = Neutral
    <2>1. PICK x \in 0..(Order - 1) : (i * x) % Order = 1
      <3>1. Order > 1 /\ \A a, b \in 0..(Order - 1) : (a * b) % Order = 0 => a = 0 \/ b = 0
        BY OrderAssumption
      <3>2. QED
        BY <1>2, <1>5, <3>1, PrimeInverts
    <2>2. x \in Nat /\ i * x \in Nat /\ x * i = i * x
      BY <1>2, <2>1
    <2>3. HostMul(x * i, q) = HostMul(x, HostMul(i, q))
      BY <1>1, <2>2, HostMulProduct
    <2>4. HostMul(x * i, q) = Neutral
      BY <1>5, <2>2, <2>3, HostMulNeutral
    <2>5. HostMul((i * x) % Order, q) = HostMul(i * x, q)
      BY <1>4, <2>2
    <2>6. HostMul(1, q) = q
      <3>1. HostMul(0 + 1, q) = HostAdd(HostMul(0, q), q) /\ 0 + 1 = 1
        BY <1>1, HostMulNext
      <3>2. QED
        BY <1>1, <3>1, HostMulRows, NeutralAndOpposite
    <2>7. QED
      BY <2>1, <2>2, <2>4, <2>5, <2>6
  <1>6. QED
    BY <1>1, <1>3, <1>4, <1>5

\* And under sums and opposites.
LEMMA SubgroupSums ==
  ASSUME NEW p \in Subgroup, NEW q \in Subgroup
  PROVE  HostAdd(p, q) \in Subgroup /\ Negated(p) \in Subgroup
  <1>1. /\ p \in Curve /\ q \in Curve /\ HostMul(Order, p) = Neutral /\ HostMul(Order, q) = Neutral
        /\ Order \in Nat
    BY OrderAssumption DEF Subgroup
  <1>2. HostAdd(p, q) \in Subgroup
    <2>1. HostMul(Order, HostAdd(p, q)) = HostAdd(Neutral, Neutral) /\ HostAdd(p, q) \in Curve
      BY <1>1, HostMulOfSum, SumOnCurve
    <2>2. QED
      BY <2>1, NeutralOnCurve, NeutralAndOpposite DEF Subgroup
  <1>3. Negated(p) \in Subgroup
    <2> DEFINE n == Negated(p)  m == HostMul(Order, n)
    <2>1. n \in Curve /\ HostAdd(p, n) = Neutral
      BY <1>1, NeutralAndOpposite
    <2>2. m \in Curve /\ HostMul(Order, HostAdd(p, n)) = HostAdd(Neutral, m)
      BY <1>1, <2>1, HostMulNext, HostMulOfSum
    <2>3. m = Neutral
      BY <1>1, <2>1, <2>2, NeutralAndOpposite, HostMulNeutral
    <2>4. QED
      BY <2>1, <2>3 DEF Subgroup
  <1>4. QED
    BY <1>2, <1>3

\* A sum determines each summand by the other.
LEMMA Difference ==
  ASSUME NEW p \in Curve, NEW q \in Curve
  PROVE  p = HostAdd(HostAdd(p, q), Negated(q))
  <1>1. Negated(q) \in Curve /\ HostAdd(q, Negated(q)) = Neutral /\ HostAdd(p, Neutral) = p
    BY NeutralAndOpposite
  <1>2. QED
    BY <1>1, SumAssociates

\* Twice a point with u = 0 is neutral.
LEMMA DoubleOfFlat ==
  ASSUME NEW p \in Curve, p.u = 0
  PROVE  HostAdd(p, p) = Neutral
  <1> DEFINE v == p.v
  <1>1. v \in Int /\ EDWARDS_D \in Int /\ Zero(Equation(0, v))
    BY PointMeans, FieldAssumption DEF Field
  <1>2. Cross(p, p) = 0 /\ SumU(p, p) = 0 /\ SumV(p, p) = v * v
    BY <1>1 DEF Cross, SumU, SumV
  <1>3. Zero(v * v - 1)
    <2>1. Equation(0, v) = v * v - 1
      BY <1>1 DEF Equation
    <2>2. QED
      BY <1>1, <2>1
  <1>4. Zero(1 - v * v) /\ Zero(0)
    <2>1. v * v \in Int /\ 1 \in Int
      BY <1>1
    <2>2. Zero(0)
      BY FieldAssumption DEF Zero, Divides
    <2>3. QED
      BY <1>3, <2>1, <2>2, Opposite
  <1>5. (1 + 0) * 0 - 0 = 0 /\ (1 - 0) * 1 - v * v = 1 - v * v
    BY <1>1
  <1>6. IsSum(p, p, Neutral)
    BY <1>2, <1>4, <1>5 DEF IsSum, Neutral
  <1>7. Neutral \in [u : Field, v : Field]
    BY NeutralOnCurve DEF Curve
  <1>8. QED
    BY <1>6, <1>7, HostAddMeans

\* Three doublings in the circuit drive no point of the subgroup to u = 0, but the
\* neutral one.
LEMMA NotSmallOrder ==
  ASSUME NEW p \in Subgroup
  PROVE  assert_not_small_order(p) <=> p # Neutral
  <1> DEFINE D(S) == UNION {Double(q) : q \in S}
             a == HostAdd(p, p)  b == HostAdd(a, a)  c == HostAdd(b, b)
  <1>1. ASSUME NEW q \in Subgroup
        PROVE  /\ D({q}) = {HostAdd(q, q)} /\ HostAdd(q, q) \in Subgroup
               /\ q # Neutral => HostAdd(q, q) # Neutral
    <2>1. q \in Curve
      BY SubgroupMultiples
    <2>2. Double(q) = {HostAdd(q, q)}
      BY <2>1, DoubleMeans
    <2>3. HostMul(2, q) = HostAdd(q, q)
      <3>1. /\ HostMul(0 + 1, q) = HostAdd(HostMul(0, q), q) /\ 0 + 1 = 1
            /\ HostMul(1 + 1, q) = HostAdd(HostMul(1, q), q) /\ 1 + 1 = 2
        BY <2>1, HostMulNext
      <3>2. QED
        BY <2>1, <3>1, HostMulRows, NeutralAndOpposite
    <2>4. 2 \in 1..(Order - 1) /\ 2 \in Nat
      BY OrderAssumption
    <2>5. QED
      BY <2>2, <2>3, <2>4, SubgroupMultiples
  <1>2. /\ a \in Subgroup /\ b \in Subgroup /\ c \in Subgroup
        /\ D({p}) = {a} /\ D({a}) = {b} /\ D({b}) = {c}
    BY <1>1
  <1>3. assert_not_small_order(p) <=> \E q \in D(D(D({p}))) : q.u # 0
    BY DEF assert_not_small_order
  <1> HIDE DEF D, a, b, c
  <1>4. assert_not_small_order(p) <=> c.u # 0
    BY <1>2, <1>3
  <1>5. CASE p = Neutral
    <2>1. HostAdd(Neutral, Neutral) = Neutral
      BY NeutralOnCurve, NeutralAndOpposite
    <2>2. c = Neutral
      BY <1>5, <2>1 DEF a, b, c
    <2>3. QED
      BY <1>4, <1>5, <2>2 DEF Neutral
  <1>6. CASE p # Neutral
    <2>1. a # Neutral
      BY <1>1, <1>6 DEF a
    <2>2. b # Neutral
      BY <1>1, <1>2, <2>1 DEF b
    <2>3. c # Neutral
      BY <1>1, <1>2, <2>2 DEF c
    <2>4. HostAdd(c, c) # Neutral
      BY <1>1, <1>2, <2>3
    <2>5. c \in Curve
      BY <1>2 DEF Subgroup
    <2>6. c.u # 0
      BY <2>4, <2>5, DoubleOfFlat
    <2>7. QED
      BY <1>4, <1>6, <2>6
  <1>7. QED
    BY <1>5, <1>6

------------------------------------------------------------------------------
(* Montgomery coordinates: chords, images, and the incomplete addition. *)

(* The addition of the Montgomery curve. *)

\* The chord through two points, in the coordinates of the Edwards curve: its
\* slope is Chord / (2 u1 u2 (v2 - v1)), and these two vanish when it meets the
\* Montgomery curve again in the opposite of the sum.
Chord(p, q) == (1 + q.v) * (1 - p.v) * p.u - (1 + p.v) * (1 - q.v) * q.u
ChordX(p, q) ==
  LET m == (1 - p.v) * (1 - q.v)  b == 1 - Cross(p, q)
      k == (p.u * q.u) * (p.u * q.u) * ((q.v - p.v) * (q.v - p.v))
  IN (b - SumV(p, q))
       * (Chord(p, q) * Chord(p, q) * m
          + k * (2 * (1 - EDWARDS_D) * m + 2 * (EDWARDS_D + 1) * (1 - p.v * q.v)))
     + (b + SumV(p, q)) * (k * ((EDWARDS_D + 1) * m))
ChordY(p, q) ==
  LET b == 1 - Cross(p, q)  g == q.v - p.v
  IN Chord(p, q) * SumU(p, q) * (p.v * b - SumV(p, q))
     - q.u * SumU(p, q) * g * (1 + p.v) * (b - SumV(p, q))
     - p.u * q.u * g * (1 - p.v) * (1 + Cross(p, q)) * (b + SumV(p, q))

\* 1 + d v^2 is not zero.
LEMMA SlopeOfPoint ==
  ASSUME NEW v \in Int
  PROVE  ~ Zero(1 + EDWARDS_D * (v * v))
  <1>1. SUFFICES ASSUME Zero(1 + EDWARDS_D * (v * v)) PROVE FALSE
    OBVIOUS
  <1> DEFINE one == 1  zero == 0  x == one * one + EDWARDS_D * (v * v)  c == 0 - EDWARDS_D * v
  <1>2. EDWARDS_D \in Int /\ P > 2 /\ P \in Nat
    BY FieldAssumption DEF Field
  <1>3. x \in Int /\ x = 1 + EDWARDS_D * (v * v) /\ one \in Int /\ c \in Int /\ zero \in Int
        /\ one * x + c * v = 1
    BY <1>2
  <1>4. Zero(x)
    BY <1>1, <1>3
  <1>5. Zero(v)
    BY <1>3, <1>4, NoSquareRoot
  <1> HIDE DEF one, zero, x, c
  <1>6. Zero(one * x + c * v)
    BY <1>3, <1>4, <1>5, Combination2, Zenon
  <1>7. 1 % P = 1
    BY <1>2
  <1>8. QED
    BY <1>3, <1>6, <1>7, Residues

\* Polynomials in the two ordinates: what the coefficients of d and of u1 u2 in
\* the equations of a chord come to.
LEMMA ChordPolynomials ==
  ASSUME NEW v1 \in Int, NEW v2 \in Int
  PROVE  LET a1 == 1 + v1  b1 == 1 - v1  a2 == 1 + v2  b2 == 1 - v2  dl == v2 - v1
             z == v1 * v2  c0 == 1 - z  e0 == 1 + z  m == b1 * b2  D == dl * dl
             k2 == a2 * (b1 * b1 * b1)  k1 == a1 * (b2 * b2 * b2)
             k == k2 + k1  j == k2 * (v2 * v2) + k1 * (v1 * v1)
             x == 2 * m + 2 * c0  y == 2 * c0 - 2 * m
         IN  /\ D * (x * c0 + e0 * m) + 2 * (m * m) * (a1 * a2) = k * c0
             /\ D * (y * c0 + e0 * m) + 2 * (m * m) * (a1 * a2) * z = j * c0
             /\ D * (m - x) - 2 * m * c0 = 0 - k
             /\ D * (m - z * m - y - z * x) - 2 * m * c0 * (v1 * v1 + v2 * v2) = 0 - (j + k * z)
             /\ D * (0 - z * m - z * y) - 2 * m * c0 * (z * z) = 0 - j * z
  <1> DEFINE s == v1 + v2  z == v1 * v2
             j == s * s - 2 * z - 6 * (z * s) + 12 * (z * z) + 2 * (z * z * s)
                    + s * s * s - 3 * (z * (s * s)) - 2 * (z * z * z)
             k == 2 - 2 * s + 3 * (s * s) - 12 * z - s * s * s + 6 * (s * z)
                    - z * (s * s) + 2 * (z * z)
             c0 == 1 - z  e0 == 1 + z  m == 1 - s + z  D == s * s - 4 * z  a == 1 + s + z
             x == 2 * m + 2 * c0  y == 2 * c0 - 2 * m
  <1>1. /\ s \in Int /\ z \in Int
        /\ (v2 - v1) * (v2 - v1) = D /\ (1 - v1) * (1 - v2) = m /\ (1 + v1) * (1 + v2) = a
        /\ (1 + v2) * ((1 - v1) * (1 - v1) * (1 - v1))
             + (1 + v1) * ((1 - v2) * (1 - v2) * (1 - v2)) = k
        /\ (1 + v2) * ((1 - v1) * (1 - v1) * (1 - v1)) * (v2 * v2)
             + (1 + v1) * ((1 - v2) * (1 - v2) * (1 - v2)) * (v1 * v1) = j
    OBVIOUS
  <1>2. v1 * v1 + v2 * v2 = s * s - 2 * z
    OBVIOUS
  <1> HIDE DEF s, z
  <1>3. D * (x * c0 + e0 * m) + 2 * (m * m) * a = k * c0
    BY <1>1
  <1>4. D * (y * c0 + e0 * m) + 2 * (m * m) * a * z = j * c0
    BY <1>1
  <1>5. D * (m - x) - 2 * m * c0 = 0 - k
    BY <1>1
  <1>6. D * (m - z * m - y - z * x) - 2 * m * c0 * (s * s - 2 * z) = 0 - (j + k * z)
    BY <1>1
  <1>7. D * (0 - z * m - z * y) - 2 * m * c0 * (z * z) = 0 - j * z
    BY <1>1
  <1> HIDE DEF j, k, m, D, a
  <1>8. z = v1 * v2
    BY DEF z
  <1>9. QED
    BY <1>1, <1>2, <1>3, <1>4, <1>5, <1>6, <1>7, <1>8, Zenon

\* And for the second equation.
LEMMA ChordPolynomials2 ==
  ASSUME NEW v1 \in Int, NEW v2 \in Int
  PROVE  LET a1 == 1 + v1  b1 == 1 - v1  a2 == 1 + v2  b2 == 1 - v2  dl == v2 - v1
             z == v1 * v2  n == a2 * b1 * v1 - a1 * b2 * v2
             l == v1 * b2 * n - dl * a1 * (1 - z) * v2 - dl * b1 * (1 + z)
             r == a1 * a2 * (b1 * b1) * v2  t == a1 * a2 * b2 * v1
             o == dl * b1 * (a1 * b1 * a2 * b2)
         IN  /\ l + r - t * (b2 + dl) = 0
             /\ l * (v1 * v1 + v2 * v2) + r * (v2 * v2 + v1 * z)
                  - t * (b2 * v1 * z + dl * z + v1 * v1 * (b2 + dl)) - o * z = 0
             /\ l * (z * z) + r * (v2 * v2) * (v1 * z)
                  - t * (v1 * v1) * (b2 * v1 * z + dl * z) + o * (z * z) = 0
  OBVIOUS

LEMMA ChordPolynomials3 ==
  ASSUME NEW v1 \in Int, NEW v2 \in Int, NEW d \in Int
  PROVE  LET a1 == 1 + v1  b1 == 1 - v1  a2 == 1 + v2  b2 == 1 - v2  dl == v2 - v1
             g1 == 1 + d * (v1 * v1)  g2 == 1 + d * (v2 * v2)
             z == v1 * v2  c0 == 1 - z  c1 == 1 + d * z  e0 == 1 + z  e1 == 1 - d * z
             h == 1 + d * (v1 * z)  f == d * z
             n == a2 * b1 * v1 - a1 * b2 * v2
         IN 0 - b1 * b1 * z * g2 + v1 * g1 * (v1 * (b2 * b2) + dl * c0)
               + b1 * (dl * a1 * c1 * v2 - h * n - dl * b1 * (e1 + f * e0)) = 0
  OBVIOUS

\* With d put back in.
LEMMA ChordIdentities ==
  ASSUME NEW v1 \in Int, NEW v2 \in Int, NEW d \in Int
  PROVE  LET a1 == 1 + v1  b1 == 1 - v1  a2 == 1 + v2  b2 == 1 - v2  dl == v2 - v1
             g1 == 1 + d * (v1 * v1)  g2 == 1 + d * (v2 * v2)
             z == v1 * v2  c0 == 1 - z  c1 == 1 + d * z  e0 == 1 + z  e1 == 1 - d * z
             m == b1 * b2  C == 2 * (1 - d) * m + 2 * (d + 1) * c0
             k == a2 * (b1 * b1 * b1) * g2 + a1 * (b2 * b2 * b2) * g1
             h == 1 + d * (v1 * z)  f == d * z
             n == a2 * b1 * v1 - a1 * b2 * v2
         IN  /\ (dl * dl) * (C * c0 + e0 * ((d + 1) * m)) + 2 * (m * m) * (a1 * a2) * c1 = k * c0
             /\ (dl * dl) * (e1 * ((d + 1) * m) - C * c1) - 2 * m * c0 * (g1 * g2) = 0 - k * c1
             /\ g1 * g2 * (v1 * b2 * n - dl * a1 * c0 * v2 - dl * b1 * e0)
                  + (a1 * a2 * (b1 * b1) * v2) * g2 * h - (a1 * a2 * b2 * v1) * g1 * (b2 * h + dl * c1)
                  - (dl * b1 * (a1 * b1 * a2 * b2)) * (f * e1) = 0
  <1> DEFINE a1 == 1 + v1  b1 == 1 - v1  a2 == 1 + v2  b2 == 1 - v2  dl == v2 - v1
             z == v1 * v2  c0 == 1 - z  e0 == 1 + z  m == b1 * b2  D == dl * dl  a == a1 * a2
             k2 == a2 * (b1 * b1 * b1)  k1 == a1 * (b2 * b2 * b2)
             s1 == v1 * v1  s2 == v2 * v2  k == k2 + k1  j == k2 * s2 + k1 * s1
             x == 2 * m + 2 * c0  y == 2 * c0 - 2 * m
  <1>1. /\ D * (x * c0 + e0 * m) + 2 * (m * m) * a = k * c0
        /\ D * (y * c0 + e0 * m) + 2 * (m * m) * a * z = j * c0
        /\ D * (m - x) - 2 * m * c0 = 0 - k
        /\ D * (m - z * m - y - z * x) - 2 * m * c0 * (s1 + s2) = 0 - (j + k * z)
        /\ D * (0 - z * m - z * y) - 2 * m * c0 * (z * z) = 0 - j * z
    BY ChordPolynomials, Zenon
  <1> DEFINE n == a2 * b1 * v1 - a1 * b2 * v2
             l == v1 * b2 * n - dl * a1 * (1 - z) * v2 - dl * b1 * (1 + z)
             r == a1 * a2 * (b1 * b1) * v2  t == a1 * a2 * b2 * v1
             o == dl * b1 * (a1 * b1 * a2 * b2)
  <1>2. /\ l + r - t * (b2 + dl) = 0
        /\ l * (s1 + s2) + r * (s2 + v1 * z)
             - t * (b2 * v1 * z + dl * z + s1 * (b2 + dl)) - o * z = 0
        /\ l * (z * z) + r * s2 * (v1 * z) - t * s1 * (b2 * v1 * z + dl * z) + o * (z * z) = 0
    BY ChordPolynomials2, Zenon
  <1>3. /\ a1 \in Int /\ b1 \in Int /\ a2 \in Int /\ b2 \in Int /\ dl \in Int /\ z \in Int
        /\ k2 \in Int /\ k1 \in Int /\ D \in Int /\ s1 \in Int /\ s2 \in Int
        /\ n \in Int /\ r \in Int /\ t \in Int /\ o \in Int /\ m \in Int /\ a \in Int /\ l \in Int
        /\ s1 * s2 = z * z /\ v1 * v1 * v2 = v1 * z /\ c0 \in Int /\ e0 \in Int
    OBVIOUS
  <1>4. x = 2 * m + 2 * c0 /\ y = 2 * c0 - 2 * m /\ x \in Int /\ y \in Int
    BY <1>3
  <1> HIDE DEF a1, b1, a2, b2, dl, z, m, D, a, k2, k1, s1, s2, n, l, r, t, o, c0, e0, x, y
  <1>5. D * ((x + d * y) * c0 + e0 * ((d + 1) * m)) + 2 * (m * m) * a * (1 + d * z)
          = (k2 * (1 + d * s2) + k1 * (1 + d * s1)) * c0
    <2>1. D * ((x + d * y) * c0 + e0 * ((d + 1) * m)) + 2 * (m * m) * a * (1 + d * z)
            = (D * (x * c0 + e0 * m) + 2 * (m * m) * a)
                + d * (D * (y * c0 + e0 * m) + 2 * (m * m) * a * z)
      BY <1>3, <1>4
    <2>2. (k2 * (1 + d * s2) + k1 * (1 + d * s1)) * c0 = k * c0 + d * (j * c0)
      BY <1>3, <1>4
    <2>3. QED
      BY <2>1, <2>2, <1>1, Zenon
  <1>6. D * ((1 - d * z) * ((d + 1) * m) - (x + d * y) * (1 + d * z))
            - 2 * m * c0 * ((1 + d * s1) * (1 + d * s2))
          = 0 - (k2 * (1 + d * s2) + k1 * (1 + d * s1)) * (1 + d * z)
    <2>1. D * ((1 - d * z) * ((d + 1) * m) - (x + d * y) * (1 + d * z))
            - 2 * m * c0 * ((1 + d * s1) * (1 + d * s2))
          = (D * (m - x) - 2 * m * c0)
              + d * (D * (m - z * m - y - z * x) - 2 * m * c0 * (s1 + s2))
              + d * d * (D * (0 - z * m - z * y) - 2 * m * c0 * (z * z))
      <3>1. (1 + d * s1) * (1 + d * s2) = 1 + d * (s1 + s2) + d * d * (z * z)
        <4>1. (1 + d * s1) * (1 + d * s2) = 1 + d * (s1 + s2) + d * d * (s1 * s2)
          BY <1>3
        <4>2. QED
          BY <4>1, <1>3
      <3> DEFINE g == (1 + d * s1) * (1 + d * s2)  zz == z * z
      <3>2. g \in Int /\ zz \in Int /\ g = 1 + d * (s1 + s2) + d * d * zz
        BY <1>3, <3>1
      <3> HIDE DEF g, zz
      <3>3. D * ((1 - d * z) * ((d + 1) * m) - (x + d * y) * (1 + d * z)) - 2 * m * c0 * g
          = (D * (m - x) - 2 * m * c0)
              + d * (D * (m - z * m - y - z * x) - 2 * m * c0 * (s1 + s2))
              + d * d * (D * (0 - z * m - z * y) - 2 * m * c0 * zz)
        BY <1>3, <1>4, <3>2
      <3>4. QED
        BY <3>3 DEF g, zz
    <2>2. 0 - (k2 * (1 + d * s2) + k1 * (1 + d * s1)) * (1 + d * z)
            = (0 - k) + d * (0 - (j + k * z)) + d * d * (0 - j * z)
      BY <1>3, <1>4
    <2>3. QED
      BY <2>1, <2>2, <1>1, Zenon
  <1>7. (1 + d * s1) * (1 + d * s2) * l + r * (1 + d * s2) * (1 + d * (v1 * z))
          - t * (1 + d * s1) * (b2 * (1 + d * (v1 * z)) + dl * (1 + d * z))
          - o * ((d * z) * (1 - d * z)) = 0
    <2> DEFINE q == v1 * z
    <2>1. q \in Int
      BY <1>3
    <2>2. /\ l * (s1 + s2) + r * (s2 + q) - t * (b2 * q + dl * z + s1 * (b2 + dl)) - o * z = 0
          /\ l * (z * z) + r * s2 * q - t * s1 * (b2 * q + dl * z) + o * (z * z) = 0
      <3>1. b2 * v1 * z = b2 * (v1 * z)
        BY <1>3
      <3>2. QED
        BY <1>2, <3>1, Zenon
    <2> HIDE DEF q
    <2>3. (1 + d * s1) * (1 + d * s2) * l + r * (1 + d * s2) * (1 + d * q)
            - t * (1 + d * s1) * (b2 * (1 + d * q) + dl * (1 + d * z))
            - o * ((d * z) * (1 - d * z))
          = (l + r - t * (b2 + dl))
              + d * (l * (s1 + s2) + r * (s2 + q) - t * (b2 * q + dl * z + s1 * (b2 + dl)) - o * z)
              + d * d * (l * (s1 * s2) + r * s2 * q - t * s1 * (b2 * q + dl * z) + o * (z * z))
      BY <1>3, <2>1
    <2>4. 0 + d * 0 + d * d * 0 = 0
      OBVIOUS
    <2>5. QED
      BY <2>2, <2>3, <2>4, <1>2, <1>3, Zenon DEF q
  <1>8. /\ 2 * (1 - d) * m + 2 * (d + 1) * c0 = x + d * y
    BY <1>3, <1>4
  <1>9. QED
    BY <1>5, <1>6, <1>7, <1>8, Zenon
    DEF a1, b1, a2, b2, dl, z, m, D, a, k2, k1, s1, s2, n, l, r, t, o, c0, e0

\* What the curve's equation says of the coordinates u1^2 (1 + d v1^2).
LEMMA SquareOfPoint ==
  ASSUME NEW p \in Curve
  PROVE  Zero(p.u * p.u * (1 + EDWARDS_D * (p.v * p.v)) + (1 + p.v) * (1 - p.v))
  <1> DEFINE u == p.u  v == p.v  d == EDWARDS_D
             x == Equation(u, v)  y == u * u * (1 + d * (v * v)) + (1 + v) * (1 - v)
             minus == -1  zero == 0
  <1>1. u \in Int /\ v \in Int /\ d \in Int /\ Zero(x)
    BY PointMeans, FieldAssumption DEF Field
  <1> HIDE DEF u, v, d
  <1>2. x \in Int /\ y \in Int /\ minus \in Int /\ zero \in Int /\ y = minus * x
    BY <1>1 DEF Equation, d
  <1> HIDE DEF x, y, minus, zero
  <1>3. Zero(y)
    BY <1>1, <1>2, Combination2, Zenon
  <1>4. QED
    BY <1>3 DEF y, u, v, d

LEMMA ChordXMeets ==
  ASSUME NEW p \in Curve, NEW q \in Curve
  PROVE  Zero(ChordX(p, q))
  <1> DEFINE u1 == p.u  v1 == p.v  u2 == q.u  v2 == q.v  d == EDWARDS_D
             a1 == 1 + v1  b1 == 1 - v1  a2 == 1 + v2  b2 == 1 - v2  dl == v2 - v1
             g1 == 1 + d * (v1 * v1)  g2 == 1 + d * (v2 * v2)
             z == v1 * v2  c0 == 1 - z  c1 == 1 + d * z  e0 == 1 + z  e1 == 1 - d * z
             m == b1 * b2  C == 2 * (1 - d) * m + 2 * (d + 1) * c0
             k2 == a2 * (b1 * b1 * b1)  k1 == a1 * (b2 * b2 * b2)  k == k2 * g2 + k1 * g1
             w == u1 * u2  D == dl * dl  a == a1 * a2  E == (d + 1) * m
             N == a2 * b1 * u1 - a1 * b2 * u2  NN == N * N
             h1 == u1 * u1 * g1  h2 == u2 * u2 * g2  p1 == a1 * b1  p2 == a2 * b2
             A2 == a2 * b1  A1 == a1 * b2  W == w * (g1 * g2)
             L == c0 - c1 * w  R == e0 + e1 * w
             I == L * (NN * m + w * w * D * C) + R * (w * w * D * E)
             be == m * (A2 * A2) * g2 * L  ga == m * (A1 * A1) * g1 * L
             ep == D * C * L + R * (D * E) + 2 * m * (m * a) * c1
             x1 == h1 + p1  x2 == h2 + p2
  <1>1. u1 \in Int /\ v1 \in Int /\ u2 \in Int /\ v2 \in Int /\ d \in Int
    BY PointMeans, FieldAssumption DEF Field
  <1>2. Zero(x1) /\ Zero(x2)
    BY SquareOfPoint
  <1>3. ~ Zero(g1) /\ ~ Zero(g2)
    BY <1>1, SlopeOfPoint
  <1> HIDE DEF u1, v1, u2, v2, d
  <1>4. /\ D * (C * c0 + e0 * E) + 2 * (m * m) * a * c1 = k * c0
        /\ D * (e1 * E - C * c1) - 2 * m * c0 * (g1 * g2) = 0 - k * c1
    <2>1. v1 \in Int /\ v2 \in Int /\ d \in Int
      BY <1>1
    <2>2. D * (C * c0 + e0 * E) + 2 * (m * m) * a * c1 = k * c0
      BY <2>1, ChordIdentities, ZenonT(60)
    <2>3. D * (e1 * E - C * c1) - 2 * m * c0 * (g1 * g2) = 0 - k * c1
      BY <2>1, ChordIdentities, ZenonT(60)
    <2>4. QED
      BY <2>2, <2>3
  <1>5. ChordX(p, q) = I
    <2>1. ChordX(p, q) = (1 - d * (u1 * v1 * u2 * v2) - (v1 * v2 + u1 * u2))
       * ((a2 * b1 * u1 - a1 * b2 * u2) * (a2 * b1 * u1 - a1 * b2 * u2) * m
          + (u1 * u2) * (u1 * u2) * (dl * dl) * (2 * (1 - d) * m + 2 * (d + 1) * (1 - v1 * v2)))
     + (1 - d * (u1 * v1 * u2 * v2) + (v1 * v2 + u1 * u2)) * ((u1 * u2) * (u1 * u2) * (dl * dl) * ((d + 1) * m))
      BY DEF ChordX, Chord, Cross, SumV, u1, u2, v1, v2, d
    <2>2. /\ 1 - d * (u1 * v1 * u2 * v2) - (v1 * v2 + u1 * u2) = L
          /\ 1 - d * (u1 * v1 * u2 * v2) + (v1 * v2 + u1 * u2) = R
      BY <1>1
    <2>3. QED
      BY <2>1, <2>2, Zenon
  <1>6. /\ a1 \in Int /\ b1 \in Int /\ a2 \in Int /\ b2 \in Int /\ g1 \in Int /\ g2 \in Int
        /\ c0 \in Int /\ c1 \in Int /\ e0 \in Int /\ e1 \in Int /\ m \in Int /\ C \in Int
        /\ k2 \in Int /\ k1 \in Int /\ w \in Int /\ D \in Int /\ a \in Int /\ E \in Int
        /\ A1 \in Int /\ A2 \in Int /\ h1 \in Int /\ h2 \in Int /\ p1 \in Int /\ p2 \in Int
    BY <1>1
  <1>7. NN = (A2 * A2) * (u1 * u1) + (A1 * A1) * (u2 * u2) - 2 * (m * a) * w
    BY <1>1
  <1>8. A2 * A2 * p1 = a * k2 /\ A1 * A1 * p2 = a * k1 /\ p1 * p2 = m * a
    BY <1>1
  <1>9. w * (w * (g1 * g2)) = h1 * h2 /\ h1 = u1 * u1 * g1 /\ h2 = u2 * u2 * g2
    <2> HIDE DEF g1, g2
    <2>1. QED
      BY <1>1, <1>6
  <1> HIDE DEF a1, b1, a2, b2, dl, g1, g2, z, c0, c1, e0, e1, m, C, k2, k1, w, D, a, E, N,
               h1, h2, p1, p2, A1, A2
  <1>10. NN \in Int /\ NN * (g1 * g2) = (A2 * A2) * g2 * h1 + (A1 * A1) * g1 * h2 - 2 * (m * a) * W
    BY <1>1, <1>6, <1>7, <1>9
  <1>11. W \in Int /\ w * W = h1 * h2
    BY <1>6, <1>9
  <1> HIDE DEF NN, W
  <1>12. /\ L \in Int /\ R \in Int /\ be \in Int /\ ga \in Int /\ ep \in Int /\ I \in Int
    BY <1>6, <1>10
  <1> DEFINE l == c0 - c1 * w
  <1>13. I * (g1 * g2) = be * h1 + ga * h2 + ep * (h1 * h2) - 2 * m * (m * a) * c0 * W
    <2> DEFINE G == g1 * g2  X == NN * G  Y == w * W
    <2>1. G \in Int /\ X \in Int /\ Y = w * w * G /\ X = (A2 * A2) * g2 * h1 + (A1 * A1) * g1 * h2 - 2 * (m * a) * W
      BY <1>6, <1>10 DEF W
    <2>2. I * G = L * m * X + L * D * C * (w * w * G) + R * (D * E) * (w * w * G)
      <3> HIDE DEF L, R, G
      <3>1. QED
        BY <1>6, <1>12, <1>10, <2>1
    <2>3. L * m * X = be * h1 + ga * h2 - 2 * m * (m * a) * (L * W)
      <3> HIDE DEF L, G, X
      <3>1. QED
        BY <1>6, <1>12, <1>11, <2>1
    <2>4. L * W = c0 * W - c1 * (h1 * h2)
      <3>1. L * W = c0 * W - c1 * (w * W)
        BY <1>6, <1>11
      <3>2. QED
        BY <3>1, <1>11
    <2>5. w * w * G = h1 * h2
      BY <2>1, <1>11
    <2> HIDE DEF G, X, Y
    <2>6. I * G = be * h1 + ga * h2 - 2 * m * (m * a) * (c0 * W - c1 * (h1 * h2))
                    + L * D * C * (h1 * h2) + R * (D * E) * (h1 * h2)
      BY <2>2, <2>3, <2>4, <2>5, Zenon
    <2> DEFINE hh == h1 * h2  mm == m * (m * a)
    <2>7. hh \in Int /\ mm \in Int
      BY <1>6
    <2>8. I * G = be * h1 + ga * h2 - 2 * mm * (c0 * W - c1 * hh)
                    + L * D * C * hh + R * (D * E) * hh
      <3>1. 2 * m * (m * a) = 2 * mm
        BY <1>6
      <3>2. QED
        BY <2>6, <3>1, Zenon
    <2>9. ep = D * C * L + R * (D * E) + 2 * mm * c1
      BY <1>6
    <2>10. 2 * m * (m * a) * c0 * W = 2 * mm * c0 * W
      BY <1>6, <1>11
    <2> HIDE DEF hh, mm, L, R, be, ga, ep, I
    <2>11. I * G = be * h1 + ga * h2 + ep * hh - 2 * mm * c0 * W
      BY <1>6, <1>11, <1>12, <2>7, <2>8, <2>9
    <2>12. QED
      BY <2>11, <2>10, Zenon DEF G, hh
  <1> DEFINE y == ep * (p1 * p2) - be * p1 - ga * p2 - 2 * m * (m * a) * c0 * W
  <1>14. y = 0
    <2> DEFINE kk == k2 * g2 + k1 * g1
    <2>1. kk \in Int /\ k = kk
      BY <1>6
    <2>2. L * kk * (m * a) = L * m * g2 * (A2 * A2 * p1) + L * m * g1 * (A1 * A1 * p2)
      <3>1. L * kk * (m * a) = L * m * g2 * (a * k2) + L * m * g1 * (a * k1)
        <4> HIDE DEF L
        <4>1. QED
          BY <1>6, <1>12
      <3>2. QED
        BY <3>1, <1>8, Zenon
    <2>3. be * p1 + ga * p2 = L * m * g2 * (A2 * A2 * p1) + L * m * g1 * (A1 * A1 * p2)
      <3> HIDE DEF L
      <3>1. QED
        BY <1>6, <1>12
    <2> HIDE DEF kk
    <2>4. ep - L * kk = ((D * (C * c0 + e0 * E) + 2 * (m * m) * a * c1) - kk * c0)
                          + w * (D * (e1 * E - C * c1) + kk * c1)
      BY <1>6, <2>1
    <2>5. (D * (C * c0 + e0 * E) + 2 * (m * m) * a * c1) - kk * c0 = 0
      <3> DEFINE X == D * (C * c0 + e0 * E) + 2 * (m * m) * a * c1  Y == kk * c0
      <3>1. X = Y
        BY <1>4, <2>1, Zenon
      <3>2. Y \in Int
        BY <1>6, <2>1
      <3> HIDE DEF X, Y
      <3>3. X - Y = 0
        BY <3>1, <3>2
      <3>4. QED
        BY <3>3, Zenon DEF X, Y
    <2>6. D * (e1 * E - C * c1) + kk * c1 = 2 * m * c0 * (g1 * g2)
      <3> DEFINE X == D * (e1 * E - C * c1)  Y == kk * c1  Z == 2 * m * c0 * (g1 * g2)
      <3>1. X - Z = 0 - Y
        BY <1>4, <2>1, Zenon
      <3>2. X \in Int /\ Y \in Int /\ Z \in Int
        BY <1>6, <2>1
      <3> HIDE DEF X, Y, Z
      <3>3. X + Y = Z
        BY <3>1, <3>2
      <3>4. QED
        BY <3>3 DEF X, Y, Z
    <2>7. ep - L * kk = w * (2 * m * c0 * (g1 * g2))
      <3>1. 0 + w * (2 * m * c0 * (g1 * g2)) = w * (2 * m * c0 * (g1 * g2))
        BY <1>6
      <3>2. QED
        BY <2>4, <2>5, <2>6, <3>1, Zenon
    <2>8. y = (m * a) * (ep - L * kk) - 2 * m * (m * a) * c0 * W
      <3> DEFINE X == be * p1 + ga * p2
      <3>1. X = L * kk * (m * a)
        BY <2>2, <2>3
      <3>2. y = ep * (m * a) - X - 2 * m * (m * a) * c0 * W
        <4> HIDE DEF ep, be, ga
        <4>1. QED
          BY <1>6, <1>8, <1>11, <1>12
      <3> HIDE DEF X, y, L, ep, be, ga
      <3>3. QED
        BY <3>1, <3>2, <1>6, <1>11, <1>12, <2>1
    <2>9. (m * a) * (w * (2 * m * c0 * (g1 * g2))) - 2 * m * (m * a) * c0 * W = 0
      <3> DEFINE G == g1 * g2
      <3>1. G \in Int /\ W = w * G
        BY <1>6 DEF W
      <3> HIDE DEF G
      <3>2. (m * a) * (w * (2 * m * c0 * G)) - 2 * m * (m * a) * c0 * (w * G) = 0
        BY <3>1, <1>6
      <3>3. QED
        BY <3>1, <3>2 DEF G
    <2>10. QED
      BY <2>7, <2>8, <2>9, Zenon
  <1> DEFINE b == be + ep * h2  c == ga - ep * p1  Ig == I * (g1 * g2)
  <1>15. Ig = b * x1 + c * x2
    <2> DEFINE X == 2 * m * (m * a) * c0 * W  Y == p1 * p2
    <2>1. X \in Int /\ Y \in Int
      BY <1>6, <1>11
    <2> HIDE DEF X, be, ga, ep, I
    <2>2. b * x1 + c * x2 = be * h1 + ga * h2 + ep * (h1 * h2) - (ep * Y - be * p1 - ga * p2)
      BY <1>6, <1>12
    <2> HIDE DEF Y
    <2>3. ep * Y - be * p1 - ga * p2 = X
      <3>1. ep * Y - be * p1 - ga * p2 - X = 0
        BY <1>14 DEF X, Y
      <3>2. QED
        BY <3>1, <1>6, <1>12, <2>1
    <2>4. QED
      BY <2>2, <2>3, <1>13, Zenon DEF X
  <1>16. /\ b \in Int /\ c \in Int /\ x1 \in Int /\ x2 \in Int
    <2> HIDE DEF be, ga, ep
    <2>1. QED
      BY <1>6, <1>12
  <1>17. Zero(x1) /\ Zero(x2)
    BY <1>2 DEF h1, h2, p1, p2, a1, b1, a2, b2, g1, g2, u1, u2, v1, v2, d
  <1> HIDE DEF b, c, x1, x2, I
  <1>18. Zero(Ig)
    BY <1>15, <1>16, <1>17, Combination2, Zenon
  <1>19. g1 * g2 \in Int
    BY <1>6
  <1>20. Zero(I) \/ Zero(g1 * g2)
    BY <1>18, <1>12, <1>19, ZeroProduct
  <1>21. QED
    BY <1>3, <1>5, <1>6, <1>20, ZeroProduct

LEMMA ChordYMeets ==
  ASSUME NEW p \in Curve, NEW q \in Curve
  PROVE  Zero(ChordY(p, q))
  <1> DEFINE u1 == p.u  v1 == p.v  u2 == q.u  v2 == q.v  d == EDWARDS_D
             a1 == 1 + v1  b1 == 1 - v1  a2 == 1 + v2  b2 == 1 - v2  dl == v2 - v1
             g1 == 1 + d * (v1 * v1)  g2 == 1 + d * (v2 * v2)
             z == v1 * v2  c0 == 1 - z  c1 == 1 + d * z  e0 == 1 + z  e1 == 1 - d * z
             h == 1 + d * (v1 * z)  f == d * z
             n == a2 * b1 * v1 - a1 * b2 * v2  k0 == v1 * b2
             r == a1 * a2 * (b1 * b1) * v2  t == a1 * a2 * b2 * v1
             o == dl * b1 * (a1 * b1 * a2 * b2)
             al == k0 * n - dl * a1 * c0 * v2 - dl * b1 * e0
             ee == dl * a1 * c1 * v2 - h * n - dl * b1 * (e1 + f * e0)
             w == u1 * u2  N == a2 * b1 * u1 - a1 * b2 * u2  X == u1 * v2 + v1 * u2
             NX == N * X  XX == u2 * X
             h1 == u1 * u1 * g1  h2 == u2 * u2 * g2  p1 == a1 * b1  p2 == a2 * b2
             A2 == a2 * b1  A1 == a1 * b2  G == g1 * g2  W == w * G
             L == c0 - c1 * w  R == e0 + e1 * w  M == k0 - h * w
             I == NX * M - XX * dl * a1 * L - w * dl * b1 * (1 + f * w) * R
             be == A2 * v2 * g2 * M  ga == 0 - A1 * v1 * g1 * M - dl * a1 * v1 * g1 * L
             ep == ee - dl * b1 * (f * e1) * w
             x1 == h1 + p1  x2 == h2 + p2
  <1>1. u1 \in Int /\ v1 \in Int /\ u2 \in Int /\ v2 \in Int /\ d \in Int
    BY PointMeans, FieldAssumption DEF Field
  <1>2. Zero(x1) /\ Zero(x2)
    BY SquareOfPoint
  <1>3. ~ Zero(g1) /\ ~ Zero(g2)
    BY <1>1, SlopeOfPoint
  <1> HIDE DEF u1, v1, u2, v2, d
  <1>4. ((G * al) + r * g2 * h) - t * g1 * (b2 * h + dl * c1) - o * (f * e1) = 0
    <2>1. v1 \in Int /\ v2 \in Int /\ d \in Int
      BY <1>1
    <2>2. G * al + r * g2 * h - t * g1 * (b2 * h + dl * c1) - o * (f * e1) = 0
      BY <2>1, ChordIdentities, ZenonT(60)
    <2> DEFINE S1 == G * al  S2 == r * g2 * h  S3 == t * g1 * (b2 * h + dl * c1)  S4 == o * (f * e1)
    <2>3. S1 \in Int /\ S2 \in Int /\ S3 \in Int /\ S4 \in Int
      BY <1>1
    <2> HIDE DEF S1, S2, S3, S4
    <2>4. S1 + S2 - S3 - S4 = 0
      BY <2>2, Zenon DEF S1, S2, S3, S4
    <2>5. (S1 + S2) - S3 - S4 = 0
      BY <2>3, <2>4
    <2>6. QED
      BY <2>5, Zenon DEF S1, S2, S3, S4
  <1>5. 0 - b1 * b1 * z * g2 + v1 * g1 * (v1 * (b2 * b2) + dl * c0) + b1 * ee = 0
    <2>1. v1 \in Int /\ v2 \in Int /\ d \in Int
      BY <1>1
    <2>2. QED
      BY <2>1, ChordPolynomials3, ZenonT(60)
  <1>6. ChordY(p, q) = I
    <2>1. ChordY(p, q) =
            N * X * (v1 * (1 - d * (u1 * v1 * u2 * v2)) - (v1 * v2 + u1 * u2))
              - u2 * X * dl * a1 * ((1 - d * (u1 * v1 * u2 * v2)) - (v1 * v2 + u1 * u2))
              - u1 * u2 * dl * b1 * (1 + d * (u1 * v1 * u2 * v2))
                  * ((1 - d * (u1 * v1 * u2 * v2)) + (v1 * v2 + u1 * u2))
      BY Zenon DEF ChordY, Chord, Cross, SumV, SumU, u1, u2, v1, v2, d
    <2>2. /\ (1 - d * (u1 * v1 * u2 * v2)) - (v1 * v2 + u1 * u2) = L
          /\ (1 - d * (u1 * v1 * u2 * v2)) + (v1 * v2 + u1 * u2) = R
          /\ v1 * (1 - d * (u1 * v1 * u2 * v2)) - (v1 * v2 + u1 * u2) = M
          /\ 1 + d * (u1 * v1 * u2 * v2) = 1 + f * w
      BY <1>1
    <2>3. QED
      BY <2>1, <2>2, Zenon
  <1>7. /\ a1 \in Int /\ b1 \in Int /\ a2 \in Int /\ b2 \in Int /\ dl \in Int /\ g1 \in Int /\ g2 \in Int
        /\ z \in Int /\ c0 \in Int /\ c1 \in Int /\ e0 \in Int /\ e1 \in Int /\ f \in Int /\ h \in Int
        /\ w \in Int /\ h1 \in Int /\ h2 \in Int /\ p1 \in Int /\ p2 \in Int
        /\ A1 \in Int /\ A2 \in Int /\ n \in Int /\ k0 \in Int /\ r \in Int /\ t \in Int
    BY <1>1
  <1>8. /\ NX = (A2 * v2) * (u1 * u1) + n * w - (A1 * v1) * (u2 * u2)
        /\ XX = v2 * w + v1 * (u2 * u2)
    BY <1>1
  <1>9. /\ A2 * v2 * p1 = r /\ v1 * a1 * p2 = t /\ A1 * v1 * p2 = b2 * t /\ p1 * p2 = a1 * a2 * b2 * b1
        /\ o = dl * b1 * (p1 * p2) /\ r = a1 * a2 * b2 * 1 * 0 + r /\ k0 = v1 * b2
        /\ r * k0 = (a1 * a2 * b2) * (b1 * b1 * z) /\ t = (a1 * a2 * b2) * v1
    BY <1>1
  <1>10. w * W = h1 * h2 /\ h1 = u1 * u1 * g1 /\ h2 = u2 * u2 * g2
    <2> HIDE DEF g1, g2
    <2>1. QED
      BY <1>1, <1>7
  <1> HIDE DEF a1, b1, a2, b2, dl, g1, g2, z, c0, c1, e0, e1, f, h, w, N, X, n, k0, r, t, o,
               h1, h2, p1, p2, A1, A2
  <1>11. /\ NX \in Int /\ NX * G = (A2 * v2) * g2 * h1 + n * W - (A1 * v1) * g1 * h2
         /\ XX \in Int /\ XX * G = v2 * W + v1 * g1 * h2 /\ G \in Int /\ W \in Int
    BY <1>1, <1>7, <1>8, <1>10
  <1> HIDE DEF NX, XX, W, G
  <1>12. /\ L \in Int /\ R \in Int /\ M \in Int /\ al \in Int /\ ee \in Int
    BY <1>1, <1>7
  <1>13. be \in Int /\ ga \in Int /\ ep \in Int /\ I \in Int
    <2> HIDE DEF L, R, M, al, ee
    <2>1. QED
      BY <1>1, <1>7, <1>11, <1>12
  <1>14. I * G = be * h1 + ga * h2 + ep * (h1 * h2) + W * al
    <2> DEFINE hh == h1 * h2
    <2>1. hh \in Int /\ w * W = hh /\ W = w * G
      BY <1>7, <1>10 DEF W
    <2> HIDE DEF hh
    <2>2. I * G = M * (NX * G) - dl * a1 * L * (XX * G) - dl * b1 * (1 + f * w) * R * W
      <3> HIDE DEF L, R, M
      <3>1. QED
        BY <1>1, <1>7, <1>11, <1>12, <2>1
    <2>3. M * W = k0 * W - h * hh /\ L * W = c0 * W - c1 * hh
      <3>1. M * W = k0 * W - h * (w * W) /\ L * W = c0 * W - c1 * (w * W)
        BY <1>7, <1>11
      <3>2. QED
        BY <3>1, <2>1
    <2>4. (1 + f * w) * R * W = e0 * W + (e1 + f * e0) * hh + f * e1 * w * hh
      <3>1. (1 + f * w) * R * W = e0 * W + (e1 + f * e0) * (w * W) + f * e1 * w * (w * W)
        BY <1>7, <1>11
      <3>2. QED
        BY <3>1, <2>1
    <2>5. M * (NX * G) = A2 * v2 * g2 * M * h1 + n * (k0 * W - h * hh) - A1 * v1 * g1 * M * h2
      <3> HIDE DEF M
      <3>1. M * (NX * G) = A2 * v2 * g2 * M * h1 + n * (M * W) - A1 * v1 * g1 * M * h2
        BY <1>1, <1>7, <1>11, <1>12
      <3>2. QED
        BY <3>1, <2>3
    <2>6. dl * a1 * L * (XX * G) = dl * a1 * v2 * (c0 * W - c1 * hh) + dl * a1 * v1 * g1 * L * h2
      <3> HIDE DEF L
      <3>1. dl * a1 * L * (XX * G) = dl * a1 * v2 * (L * W) + dl * a1 * v1 * g1 * L * h2
        BY <1>1, <1>7, <1>11, <1>12
      <3>2. QED
        BY <3>1, <2>3
    <2>7. dl * b1 * (1 + f * w) * R * W = dl * b1 * (e0 * W + (e1 + f * e0) * hh + f * e1 * w * hh)
      <3>1. dl * b1 * (1 + f * w) * R * W = dl * b1 * ((1 + f * w) * R * W)
        <4> HIDE DEF R
        <4>1. QED
          BY <1>1, <1>7, <1>11, <1>12
      <3>2. QED
        BY <3>1, <2>4
    <2> DEFINE Y1 == A2 * v2 * g2 * M * h1 + n * (k0 * W - h * hh) - A1 * v1 * g1 * M * h2
               Y2 == dl * a1 * v2 * (c0 * W - c1 * hh) + dl * a1 * v1 * g1 * L * h2
               Y3 == dl * b1 * (e0 * W + (e1 + f * e0) * hh + f * e1 * w * hh)
    <2>8. I * G = Y1 - Y2 - Y3
      BY <2>2, <2>5, <2>6, <2>7, Zenon
    <2> HIDE DEF L, M, R, I
    <2>9. Y1 - Y2 - Y3 = be * h1 + ga * h2 + ep * hh + W * al
      BY <1>1, <1>7, <1>11, <1>12, <2>1
    <2>10. QED
      BY <2>8, <2>9, Zenon DEF hh
  <1> DEFINE y == W * al + ep * (p1 * p2) - be * p1 - ga * p2
  <1>15. y = 0
    <2> DEFINE PP == p1 * p2  q0 == a1 * a2 * b2
               B1 == ee * PP - r * k0 * g2 + t * g1 * (b2 * k0 + dl * c0)
               B2 == ((G * al) + r * g2 * h) - t * g1 * (b2 * h + dl * c1) - o * (f * e1)
               F == 0 - b1 * b1 * z * g2 + v1 * g1 * (v1 * (b2 * b2) + dl * c0) + b1 * ee
    <2>1. PP \in Int /\ q0 \in Int /\ PP = q0 * b1 /\ o = dl * b1 * PP
          /\ r * k0 = q0 * (b1 * b1 * z) /\ t = q0 * v1 /\ W = w * G
      BY <1>7, <1>9 DEF W
    <2>2. be * p1 = r * g2 * M
      <3>1. be * p1 = (A2 * v2 * p1) * g2 * M
        <4> HIDE DEF M
        <4>1. QED
          BY <1>1, <1>7, <1>12
      <3>2. QED
        BY <3>1, <1>9, Zenon
    <2>3. ga * p2 = 0 - (b2 * t) * g1 * M - dl * t * g1 * L
      <3>1. ga * p2 = 0 - (A1 * v1 * p2) * g1 * M - dl * (v1 * a1 * p2) * g1 * L
        <4> HIDE DEF M, L
        <4>1. QED
          BY <1>1, <1>7, <1>12
      <3>2. QED
        BY <3>1, <1>9, Zenon
    <2> HIDE DEF PP
    <2>4. y = W * al + ep * PP - r * g2 * M - (0 - (b2 * t) * g1 * M - dl * t * g1 * L)
      BY <2>2, <2>3, Zenon DEF PP
    <2>5. y = B1 + w * B2
      <3>1. W * al = w * (G * al)
        <4> HIDE DEF al
        <4>1. QED
          BY <2>1, <1>11, <1>12, <1>7
      <3> DEFINE g == G * al
      <3>2. g \in Int /\ y = w * g + ep * PP - r * g2 * M - (0 - (b2 * t) * g1 * M - dl * t * g1 * L)
        <4>1. g \in Int
          <5> HIDE DEF al
          <5>1. QED
            BY <1>11, <1>12
        <4>2. QED
          BY <4>1, <3>1, <2>4, Zenon
      <3>3. o * (f * e1) = dl * b1 * PP * (f * e1)
        BY <2>1, Zenon
      <3> HIDE DEF g, al, ee, y
      <3>4. w * g + ep * PP - r * g2 * M - (0 - (b2 * t) * g1 * M - dl * t * g1 * L)
              = B1 + w * ((g + r * g2 * h) - t * g1 * (b2 * h + dl * c1) - dl * b1 * PP * (f * e1))
        BY <1>1, <1>7, <1>12, <2>1, <3>2
      <3>5. QED
        BY <3>2, <3>3, <3>4, Zenon DEF g
    <2>6. B1 = q0 * F
      <3>1. B1 = ee * (q0 * b1) - (q0 * (b1 * b1 * z)) * g2 + (q0 * v1) * g1 * (b2 * (v1 * b2) + dl * c0)
        BY <2>1, <1>9, Zenon
      <3> HIDE DEF q0, ee
      <3>2. ee * (q0 * b1) - (q0 * (b1 * b1 * z)) * g2 + (q0 * v1) * g1 * (b2 * (v1 * b2) + dl * c0)
              = q0 * F
        BY <1>1, <1>7, <1>12, <2>1
      <3>3. QED
        BY <3>1, <3>2, Zenon
    <2>7. B2 = 0 /\ F = 0
      BY <1>4, <1>5, Zenon
    <2>8. q0 * 0 + w * 0 = 0
      BY <1>7, <2>1
    <2>9. QED
      BY <2>5, <2>6, <2>7, <2>8, Zenon
  <1> DEFINE b == be + ep * h2  c == ga - ep * p1  Ig == I * G
  <1>16. Ig = b * x1 + c * x2
    <2> DEFINE T == W * al  Y == p1 * p2
    <2>1. T \in Int /\ Y \in Int
      <3> HIDE DEF al
      <3>1. QED
        BY <1>7, <1>11, <1>12
    <2> HIDE DEF T, be, ga, ep, I
    <2>2. b * x1 + c * x2 = (be * h1 + ga * h2 + ep * (h1 * h2)) - (ep * Y - be * p1 - ga * p2)
      BY <1>7, <1>13
    <2> HIDE DEF Y
    <2>3. ep * Y - be * p1 - ga * p2 = 0 - T
      <3>1. T + ep * Y - be * p1 - ga * p2 = 0
        BY <1>15, Zenon DEF T, Y
      <3>2. QED
        BY <3>1, <1>7, <1>13, <2>1
    <2> DEFINE S == be * h1 + ga * h2 + ep * (h1 * h2)
    <2>4. S \in Int
      BY <1>7, <1>13
    <2>5. Ig = S + T
      <3>1. be * h1 + ga * h2 + ep * (h1 * h2) + W * al = S + T
        BY DEF T
      <3>2. QED
        BY <1>14, <3>1
    <2>6. b * x1 + c * x2 = S - (0 - T)
      BY <2>2, <2>3, Zenon
    <2> HIDE DEF S, Ig, b, c
    <2>7. QED
      BY <2>1, <2>4, <2>5, <2>6
  <1>17. /\ b \in Int /\ c \in Int /\ x1 \in Int /\ x2 \in Int
    <2> HIDE DEF be, ga, ep
    <2>1. QED
      BY <1>7, <1>13
  <1>18. Zero(x1) /\ Zero(x2)
    BY <1>2 DEF h1, h2, p1, p2, a1, b1, a2, b2, g1, g2, u1, u2, v1, v2, d
  <1> HIDE DEF b, c, x1, x2, I
  <1>19. Zero(Ig)
    BY <1>16, <1>17, <1>18, Combination2, Zenon
  <1>20. Zero(I) \/ Zero(G)
    BY <1>19, <1>13, <1>11, ZeroProduct
  <1>21. ~ Zero(G)
    BY <1>3, <1>7, ZeroProduct DEF G
  <1>22. QED
    BY <1>6, <1>20, <1>21

(* The map to the Montgomery curve. *)

\* m is the image of the point: x (1 - v) = 1 + v and y u = s x.
IsImage(p, m) == /\ m \in [x : Field, y : Field]
                 /\ Zero(m.x * (1 - p.v) - (1 + p.v))
                 /\ Zero(m.y * p.u - MONTGOMERY_SCALE * m.x)

\* A point with u # 0 has no coordinate that makes the map undefined.
LEMMA NotFlat ==
  ASSUME NEW p \in Curve, p.u # 0
  PROVE  ~ Zero(p.u) /\ ~ Zero(1 - p.v) /\ ~ Zero(1 + p.v)
  <1> DEFINE u == p.u  v == p.v  d == EDWARDS_D
  <1>1. u \in Int /\ v \in Int /\ d \in Int /\ Zero(Equation(u, v)) /\ u \in Field /\ 0 \in Field
    BY PointMeans, FieldAssumption DEF Field
  <1>2. ~ Zero(u)
    <2>1. u = u - 0
      BY <1>1
    <2>2. QED
      BY <1>1, <2>1, FieldEqual
  <1>3. ~ Zero(1 + d * (1 * 1))
    BY SlopeOfPoint
  <1> HIDE DEF u, v, d
  <1>4. ~ Zero((1 - v) * (1 + v))
    <2>1. SUFFICES ASSUME Zero((1 - v) * (1 + v)) PROVE FALSE
      OBVIOUS
    <2> DEFINE x == Equation(u, v)  y == (1 - v) * (1 + v)  a == -1
               b == d * (u * u) - 1  c == u * (u * (1 + d * (1 * 1)))
    <2>2. /\ x \in Int /\ y \in Int /\ a \in Int /\ b \in Int /\ c = a * x + b * y
      BY <1>1 DEF Equation, d
    <2> HIDE DEF x, y, a, b
    <2>3. Zero(c)
      <3>1. Zero(x) /\ Zero(y)
        BY <1>1, <2>1 DEF x, y
      <3>2. Zero(a * x + b * y)
        BY <2>2, <3>1, Combination2, Zenon
      <3>3. QED
        BY <2>2, <3>2
    <2>4. u * (1 + d * (1 * 1)) \in Int /\ 1 + d * (1 * 1) \in Int
      BY <1>1
    <2>5. QED
      BY <1>1, <1>2, <1>3, <2>3, <2>4, ZeroProduct
  <1>5. Zero((1 - v) * (1 + v)) \/ (~ Zero(1 - v) /\ ~ Zero(1 + v))
    <2>1. 1 - v \in Int /\ 1 + v \in Int
      BY <1>1
    <2>2. ASSUME NEW x \in Int, NEW y \in Int, Zero(x)  PROVE Zero(x * y) /\ Zero(y * x)
      <3>1. P \in Nat \ {0}
        BY FieldAssumption
      <3>2. QED
        BY <2>2, <3>1, DividesSums DEF Zero
    <2>3. QED
      BY <2>1, <2>2
  <1>6. QED
    BY <1>2, <1>4, <1>5 DEF u, v

\* The points of the subgroup are such points, but the neutral one.
LEMMA SubgroupNotFlat ==
  ASSUME NEW p \in Subgroup \ {Neutral}
  PROVE  p \in Curve /\ p.u # 0
  <1>1. p \in Curve
    BY SubgroupMultiples
  <1>2. HostMul(2, p) = HostAdd(p, p)
    <2>1. /\ HostMul(0 + 1, p) = HostAdd(HostMul(0, p), p) /\ 0 + 1 = 1
          /\ HostMul(1 + 1, p) = HostAdd(HostMul(1, p), p) /\ 1 + 1 = 2
      BY <1>1, HostMulNext
    <2>2. QED
      BY <1>1, <2>1, HostMulRows, NeutralAndOpposite
  <1>3. 2 \in 1..(Order - 1) /\ 2 \in Nat
    BY OrderAssumption
  <1>4. HostMul(2, p) # Neutral
    BY <1>3, SubgroupMultiples
  <1>5. QED
    BY <1>1, <1>2, <1>4, DoubleOfFlat

\* There is one image.
LEMMA ImageIsUnique ==
  ASSUME NEW p \in Curve, p.u # 0, NEW m, NEW n, IsImage(p, m), IsImage(p, n)
  PROVE  m = n
  <1> DEFINE b == 1 - p.v  a == 1 + p.v  u == p.u  s == MONTGOMERY_SCALE * m.x
  <1>1. /\ m.x \in Field /\ m.y \in Field /\ n.x \in Field /\ n.y \in Field /\ Field \subseteq Int
        /\ m = [x |-> m.x, y |-> m.y] /\ n = [x |-> n.x, y |-> n.y]
    BY FieldAssumption DEF IsImage, Field
  <1>2. b \in Int /\ a \in Int /\ u \in Int /\ ~ Zero(b) /\ ~ Zero(u)
    BY PointMeans, NotFlat
  <1>3. m.x * b = b * m.x /\ n.x * b = b * n.x /\ m.y * u = u * m.y /\ n.y * u = u * n.y
    BY <1>1, <1>2
  <1>4. Zero(b * m.x - a) /\ Zero(b * n.x - a)
    BY <1>3 DEF IsImage
  <1> HIDE DEF a, b
  <1>5. m.x = n.x
    BY <1>1, <1>2, <1>4, SolveMeans
  <1>6. Zero(u * m.y - s) /\ Zero(u * n.y - s) /\ s \in Int
    <2>1. MONTGOMERY_SCALE \in Int
      BY <1>1, CurveAssumption
    <2>2. Zero(m.y * u - s) /\ Zero(n.y * u - MONTGOMERY_SCALE * n.x)
      BY DEF IsImage
    <2>3. s \in Int
      BY <1>1, <2>1
    <2>4. QED
      BY <1>3, <1>5, <2>2, <2>3, Zenon
  <1> HIDE DEF u, s
  <1>7. m.y = n.y
    BY <1>1, <1>2, <1>6, SolveMeans
  <1>8. QED
    BY <1>1, <1>5, <1>7

\* The host computes it.
LEMMA HostImage ==
  ASSUME NEW p \in Curve, p.u # 0
  PROVE  IsImage(p, to_montgomery_coords(p))
  <1> DEFINE u == p.u  b == 1 - p.v  a == 1 + p.v  i == invert[u]  s == MONTGOMERY_SCALE
             x == Times(a % P, invert[b % P])  k == Times(x, i)  y == Times(k, s)
  <1>1. /\ u \in Field \ {0} /\ u \in Int /\ a \in Int /\ b \in Int /\ ~ Zero(b)
        /\ Field \subseteq Int /\ s \in Int
    BY PointMeans, NotFlat, CurveAssumption, FieldAssumption DEF Field
  <1>2. to_montgomery_coords(p) = [x |-> x, y |-> y]
    BY DEF to_montgomery_coords
  <1>3. i \in Int /\ Zero(u * i - 1)
    BY <1>1, Inverts
  <1> HIDE DEF a, b, i, u, s
  <1>4. x \in Field /\ x \in Int /\ Zero(b * x - a)
    <2>1. b % P \in Field \ {0} /\ a % P \in Field
      BY <1>1, Residues
    <2>2. a % P \in Int /\ invert[b % P] \in Int
      BY <1>1, <2>1, Inverts
    <2>3. x = Times(invert[b % P], a % P)
      BY <2>2, TimesMeans
    <2> HIDE DEF x
    <2>4. x \in Field /\ Zero(b * x - a)
      BY <1>1, <2>3, SolveMeans
    <2>5. QED
      BY <1>1, <2>4
  <1> HIDE DEF x
  <1>5. k \in Int /\ Zero(k - x * i)
    BY <1>3, <1>4, TimesMeans
  <1> HIDE DEF k
  <1>6. y \in Field /\ y \in Int /\ Zero(y - k * s)
    BY <1>1, <1>5, TimesMeans
  <1> HIDE DEF y
  <1>7. Zero(y * u - s * x)
    <2> DEFINE e1 == y - k * s  e2 == k - x * i  e3 == u * i - 1
               c2 == s * u  c3 == x * s  z == 0
    <2>1. /\ e1 \in Int /\ e2 \in Int /\ e3 \in Int /\ c2 \in Int /\ c3 \in Int /\ z \in Int
          /\ Zero(e1) /\ Zero(e2) /\ Zero(e3)
      BY <1>1, <1>3, <1>4, <1>5, <1>6
    <2>2. y * u - s * x = u * e1 + c2 * e2 + c3 * e3 + z * e3
      BY <1>1, <1>3, <1>4, <1>5, <1>6
    <2> HIDE DEF e1, e2, e3, c2, c3, z
    <2>3. Zero(u * e1 + c2 * e2 + c3 * e3 + z * e3)
      BY <1>1, <2>1, Combination, Zenon
    <2>4. QED
      BY <2>2, <2>3
  <1>8. Zero(x * b - a)
    <2>1. x * b = b * x
      BY <1>1, <1>4
    <2>2. QED
      BY <1>4, <2>1
  <1>9. /\ [x |-> x, y |-> y] \in [x : Field, y : Field]
        /\ [x |-> x, y |-> y].x = x /\ [x |-> x, y |-> y].y = y
    BY <1>4, <1>6
  <1>10. QED
    BY <1>2, <1>7, <1>8, <1>9 DEF IsImage, a, b, u, s

\* The opposite point has the opposite ordinate.
LEMMA OppositeImage ==
  ASSUME NEW p \in Curve, NEW m, IsImage(p, m)
  PROVE  IsImage(Negated(p), [x |-> m.x, y |-> (0 - m.y) % P])
  <1> DEFINE n == [x |-> m.x, y |-> (0 - m.y) % P]  u == p.u  w == (0 - u) % P
             y == m.y  z == (0 - y) % P  s == MONTGOMERY_SCALE * m.x
  <1>1. /\ m.x \in Field /\ y \in Field /\ m.x \in Int /\ y \in Int /\ u \in Int /\ s \in Int
        /\ Zero(m.x * (1 - p.v) - (1 + p.v)) /\ Zero(y * u - s)
    <2>1. Field \subseteq Int /\ u \in Int /\ MONTGOMERY_SCALE \in Int
      BY PointMeans, CurveAssumption, FieldAssumption DEF Field
    <2>2. m.x \in Field /\ y \in Field /\ Zero(m.x * (1 - p.v) - (1 + p.v)) /\ Zero(y * u - s)
      BY DEF IsImage
    <2>3. m.x \in Int /\ y \in Int
      BY <2>1, <2>2
    <2>4. s \in Int
      BY <2>1, <2>3
    <2>5. QED
      BY <2>1, <2>2, <2>3, <2>4, Zenon
  <1>2. Negated(p) = [u |-> w, v |-> p.v] /\ n.x = m.x /\ n.y = z
    BY DEF Negated
  <1> HIDE DEF u, y
  <1>3. /\ w \in Field /\ w \in Int /\ Zero(w - (0 - u)) /\ z \in Field /\ z \in Int /\ Zero(z - (0 - y))
    <2>1. 0 - u \in Int /\ 0 - y \in Int /\ Field \subseteq Int
      BY <1>1, FieldAssumption DEF Field
    <2>2. QED
      BY <2>1, Residues
  <1> HIDE DEF w, z, s
  <1>4. Zero(z * w - s)
    <2> DEFINE e1 == w - (0 - u)  e2 == z - (0 - y)  e3 == y * u - s
               c2 == 0 - u  c3 == 1  zero == 0
    <2>1. /\ e1 \in Int /\ e2 \in Int /\ e3 \in Int /\ c2 \in Int /\ c3 \in Int /\ zero \in Int
          /\ Zero(e1) /\ Zero(e2) /\ Zero(e3)
      BY <1>1, <1>3
    <2>2. z * w - s = z * e1 + c2 * e2 + c3 * e3 + zero * e3
      BY <1>1, <1>3
    <2> HIDE DEF e1, e2, e3, c2, c3, zero
    <2>3. Zero(z * e1 + c2 * e2 + c3 * e3 + zero * e3)
      BY <1>3, <2>1, Combination, Zenon
    <2>4. QED
      BY <2>2, <2>3
  <1>5. n \in [x : Field, y : Field]
    BY <1>1, <1>3 DEF z, y
  <1>6. Negated(p).u = w /\ Negated(p).v = p.v
    BY <1>2
  <1> HIDE DEF n
  <1>7. IsImage(Negated(p), n)
    BY <1>1, <1>2, <1>4, <1>5, <1>6 DEF IsImage, s
  <1>8. QED
    BY <1>7 DEF n, z, y

\* Two points whose images have one abscissa are equal or opposite.
LEMMA SameOrdinate ==
  ASSUME NEW p \in Curve, NEW q \in Curve, Zero(q.v - p.v)
  PROVE  q = p \/ q = Negated(p)
  <1> DEFINE u1 == p.u  u2 == q.u  v == p.v  d == EDWARDS_D  g == 1 + d * (v * v)
  <1>1. /\ u1 \in Int /\ v \in Int /\ d \in Int /\ u1 \in Field /\ u2 \in Int /\ u2 \in Field
        /\ Zero(Equation(u1, v)) /\ Zero(Equation(u2, v)) /\ q.v = v
        /\ p = [u |-> u1, v |-> v] /\ q = [u |-> u2, v |-> v]
    <2>1. q.v = p.v
      BY PointMeans, FieldEqual
    <2>2. QED
      BY <2>1, PointMeans, FieldAssumption DEF Field
  <1>2. ~ Zero(g)
    BY <1>1, SlopeOfPoint
  <1>3. Zero(Equation(u1, v) - Equation(u2, v))
    <2>1. Equation(u1, v) \in Int /\ Equation(u2, v) \in Int /\ 0 \in Int
      BY <1>1 DEF Equation
    <2>2. QED
      BY <1>1, <2>1, Combination2, Zenon
  <1> HIDE DEF u1, u2, v, d
  <1>4. Equation(u1, v) - Equation(u2, v) = (u2 - u1) * ((u2 - (0 - u1)) * g)
    BY <1>1 DEF Equation, d
  <1>5. u2 - u1 \in Int /\ u2 - (0 - u1) \in Int /\ g \in Int /\ (u2 - (0 - u1)) * g \in Int
    BY <1>1
  <1> HIDE DEF g
  <1>6. Zero(u2 - u1) \/ Zero(u2 - (0 - u1))
    <2>1. Zero(u2 - u1) \/ Zero((u2 - (0 - u1)) * g)
      BY <1>3, <1>4, <1>5, ZeroProduct
    <2>2. QED
      BY <1>2, <1>5, <2>1, ZeroProduct
  <1>7. CASE Zero(u2 - u1)
    <2>1. u2 = u1
      BY <1>1, <1>7, FieldEqual
    <2>2. QED
      BY <1>1, <2>1
  <1>8. CASE Zero(u2 - (0 - u1))
    <2>1. u2 % P = (0 - u1) % P /\ u2 % P = u2
      <3>1. 0 - u1 \in Int
        BY <1>1
      <3>2. u2 % P = u2
        BY <1>1, FieldAssumption DEF Field
      <3>3. QED
        BY <1>1, <1>8, <3>1, <3>2, Residues
    <2>2. q = [u |-> (0 - p.u) % P, v |-> p.v]
      BY <1>1, <2>1 DEF u1, v
    <2>3. QED
      BY <2>2 DEF Negated
  <1>9. QED
    BY <1>6, <1>7, <1>8

LEMMA SameAbscissa ==
  ASSUME NEW p \in Curve, NEW q \in Curve, NEW m, NEW n, IsImage(p, m), IsImage(q, n),
         Zero(n.x - m.x)
  PROVE  q = p \/ q = Negated(p)
  <1> DEFINE x1 == m.x  x2 == n.x  v1 == p.v  v2 == q.v
             e1 == x1 * (1 - v1) - (1 + v1)  e2 == x2 * (1 - v2) - (1 + v2)  e3 == x2 - x1
             c1 == 1 - v2  c2 == 0 - (1 - v1)  c3 == (1 - v1) * (1 - v2)  z == 0
  <1>1. v1 \in Int /\ v2 \in Int /\ x1 \in Int /\ x2 \in Int /\ Zero(e1) /\ Zero(e2) /\ Zero(e3)
    BY PointMeans, FieldAssumption DEF IsImage, Field
  <1> HIDE DEF x1, x2, v1, v2
  <1>2. /\ e1 \in Int /\ e2 \in Int /\ e3 \in Int /\ c1 \in Int /\ c2 \in Int /\ c3 \in Int /\ z \in Int
        /\ 2 * (v2 - v1) = c1 * e1 + c2 * e2 + c3 * e3 + z * e3 /\ 2 \in Int /\ v2 - v1 \in Int
    BY <1>1
  <1> HIDE DEF e1, e2, e3, c1, c2, c3, z
  <1>3. Zero(c1 * e1 + c2 * e2 + c3 * e3 + z * e3)
    BY <1>1, <1>2, Combination, Zenon
  <1>4. ~ Zero(2)
    <2>1. 2 % P = 2
      BY FieldAssumption
    <2>2. QED
      BY <2>1, Residues
  <1>5. Zero(v2 - v1)
    BY <1>2, <1>3, <1>4, ZeroProduct
  <1>6. QED
    BY <1>5, SameOrdinate DEF v1, v2

\* The constants of the Montgomery curve.
LEMMA MontgomeryConstants ==
  /\ MONTGOMERY_A \in Int /\ MONTGOMERY_SCALE \in Int /\ EDWARDS_D \in Int
  /\ Zero(MONTGOMERY_A * (EDWARDS_D + 1) + 2 * (EDWARDS_D - 1))
  /\ Zero((MONTGOMERY_SCALE * MONTGOMERY_SCALE) * (EDWARDS_D + 1) + 4)
  /\ ~ Zero(MONTGOMERY_SCALE) /\ ~ Zero(EDWARDS_D + 1) /\ ~ Zero(2)
  <1> DEFINE a == MONTGOMERY_A  s == MONTGOMERY_SCALE  d == EDWARDS_D  t == (s * s) % P
  <1>1. a \in Int /\ s \in Int /\ d \in Int /\ P \in Nat /\ P > 2
    BY CurveAssumption, FieldAssumption DEF Field
  <1>2. (a * (d + 1) + 2 * (d - 1)) % P = 0 /\ (t * (d + 1) + 4) % P = 0
    BY CurveAssumption
  <1> HIDE DEF a, s, d
  <1>3. t \in Int /\ Zero(t - s * s)
    <2>1. s * s \in Int
      BY <1>1
    <2>2. QED
      BY <1>1, <2>1, Residues DEF Field
  <1> HIDE DEF t
  <1>4. Zero(a * (d + 1) + 2 * (d - 1)) /\ Zero(t * (d + 1) + 4)
    <2>1. a * (d + 1) + 2 * (d - 1) \in Int /\ t * (d + 1) + 4 \in Int
      BY <1>1, <1>3
    <2>2. QED
      BY <1>2, <2>1, Residues
  <1>5. Zero((s * s) * (d + 1) + 4)
    <2> DEFINE x == t * (d + 1) + 4  y == (s * s) * (d + 1) + 4  e == t - s * s  g == d + 1  z == 0
    <2>1. x \in Int /\ y \in Int /\ e \in Int /\ g \in Int /\ z \in Int /\ x - y = g * e + z * e
      BY <1>1, <1>3
    <2>2. Zero(x) /\ Zero(e)
      BY <1>3, <1>4
    <2> HIDE DEF x, y, e, g, z
    <2>3. Zero(x - y)
      BY <2>1, <2>2, Combination2, Zenon
    <2>4. QED
      BY <2>1, <2>2, <2>3, ZeroTogether DEF y
  <1>6. ~ Zero(2)
    <2>1. 2 % P = 2
      BY <1>1
    <2>2. QED
      BY <2>1, Residues
  <1>7. ~ Zero(d + 1)
    <2>1. 1 + d * (1 * 1) = d + 1
      BY <1>1
    <2>2. QED
      BY <2>1, SlopeOfPoint DEF d
  <1>8. ~ Zero(s)
    <2>1. SUFFICES ASSUME Zero(s) PROVE FALSE
      OBVIOUS
    <2> DEFINE y == (s * s) * (d + 1) + 4  c == 0 - s * (d + 1)  one == 1  two == 2
    <2>2. y \in Int /\ c \in Int /\ one \in Int /\ two \in Int /\ c * s + one * y = two * two
      BY <1>1
    <2> HIDE DEF c, one, y
    <2>3. Zero(c * s + one * y)
      BY <1>1, <1>5, <2>1, <2>2, Combination2, Zenon DEF y
    <2>4. Zero(two * two)
      BY <2>2, <2>3, Zenon
    <2>5. Zero(two)
      BY <2>2, <2>4, ZeroProduct
    <2>6. QED
      BY <2>5, <1>6
  <1>9. QED
    BY <1>1, <1>4, <1>5, <1>6, <1>7, <1>8 DEF a, s, d

\* What two points and their images are, in numbers.
LEMMA ImagesMean ==
  ASSUME NEW p \in Curve, NEW m, IsImage(p, m)
  PROVE  /\ p.u \in Int /\ p.v \in Int /\ m.x \in Int /\ m.y \in Int
         /\ Zero(m.x * (1 - p.v) - (1 + p.v)) /\ Zero(m.y * p.u - MONTGOMERY_SCALE * m.x)
  <1>1. Field \subseteq Int
    BY FieldAssumption DEF Field
  <1>2. m \in [x : Field, y : Field]
    BY DEF IsImage
  <1>3. QED
    BY <1>1, <1>2, PointMeans DEF IsImage

\* l is the slope of the chord through two images, and the chord in the
\* coordinates of the points.
IsSlope(m, n, l) == l \in Int /\ Zero((n.x - m.x) * l - (n.y - m.y))
Run(p, q) == 2 * ((p.u * q.u) * (q.v - p.v))

LEMMA ChordSlope ==
  ASSUME NEW p \in Curve, NEW q \in Curve, NEW m, NEW n, IsImage(p, m), IsImage(q, n),
         NEW l, IsSlope(m, n, l)
  PROVE  Zero(Run(p, q) * l - MONTGOMERY_SCALE * Chord(p, q))
  <1> DEFINE s == MONTGOMERY_SCALE  u1 == p.u  v1 == p.v  u2 == q.u  v2 == q.v
             x1 == m.x  y1 == m.y  x2 == n.x  y2 == n.y
             a1 == 1 + v1  a2 == 1 + v2  b1 == 1 - v1  b2 == 1 - v2  w == u1 * u2
             f1 == x1 * b1 - a1  f2 == x2 * b2 - a2  f3 == y1 * u1 - s * x1  f4 == y2 * u2 - s * x2
             f5 == (x2 - x1) * l - (y2 - y1)
             c1 == w * l * b2 - u2 * b2 * s  c2 == u1 * b1 * s - w * l * b1
             c3 == 0 - u2 * (b1 * b2)  c4 == u1 * (b1 * b2)  c5 == w * (b1 * b2)  z == 0
             t == (2 * (w * (v2 - v1))) * l - s * (a2 * b1 * u1 - a1 * b2 * u2)
  <1>1. /\ u1 \in Int /\ v1 \in Int /\ u2 \in Int /\ v2 \in Int /\ s \in Int /\ l \in Int
        /\ x1 \in Int /\ y1 \in Int /\ x2 \in Int /\ y2 \in Int
        /\ Zero(f1) /\ Zero(f2) /\ Zero(f3) /\ Zero(f4) /\ Zero(f5)
    BY ImagesMean, MontgomeryConstants DEF IsSlope
  <1>2. Run(p, q) * l - MONTGOMERY_SCALE * Chord(p, q) = t
    BY Zenon DEF Run, Chord
  <1> HIDE DEF u1, v1, u2, v2, x1, y1, x2, y2, s
  <1>3. /\ a1 \in Int /\ a2 \in Int /\ b1 \in Int /\ b2 \in Int /\ w \in Int
        /\ 2 * (v2 - v1) = a2 * b1 - a1 * b2
    BY <1>1
  <1>4. t = (w * (a2 * b1 - a1 * b2)) * l - s * (a2 * b1 * u1 - a1 * b2 * u2)
    <2>1. 2 * (w * (v2 - v1)) = w * (2 * (v2 - v1))
      BY <1>1, <1>3
    <2>2. QED
      BY <1>3, <2>1, Zenon
  <1> HIDE DEF a1, a2, b1, b2, t
  <1>5. (w * (a2 * b1 - a1 * b2)) * l - s * (a2 * b1 * u1 - a1 * b2 * u2)
          = (c1 * f1 + c2 * f2 + c3 * f3 + c4 * f4) + (c5 * f5 + z * f5)
    BY <1>1, <1>3
  <1>6. /\ f1 \in Int /\ f2 \in Int /\ f3 \in Int /\ f4 \in Int /\ f5 \in Int
        /\ c1 \in Int /\ c2 \in Int /\ c3 \in Int /\ c4 \in Int /\ c5 \in Int /\ z \in Int
    BY <1>1, <1>3
  <1>7. Zero(f1) /\ Zero(f2) /\ Zero(f3) /\ Zero(f4) /\ Zero(f5)
    BY <1>1 DEF a1, a2, b1, b2
  <1> HIDE DEF f1, f2, f3, f4, f5, c1, c2, c3, c4, c5, z
  <1>8. Zero((c1 * f1 + c2 * f2 + c3 * f3 + c4 * f4) + (c5 * f5 + z * f5))
    <2> DEFINE rr == c1 * f1 + c2 * f2 + c3 * f3 + c4 * f4  ss == c5 * f5 + z * f5
    <2>1. rr \in Int /\ ss \in Int /\ 0 \in Int
      BY <1>6
    <2>2. Zero(rr)
      BY <1>6, <1>7, Combination, Zenon
    <2>3. Zero(ss)
      BY <1>6, <1>7, Combination2, Zenon
    <2> HIDE DEF rr, ss
    <2>4. Zero(rr + ss)
      BY <2>1, <2>2, <2>3, Combination2, Zenon
    <2>5. QED
      BY <2>4 DEF rr, ss
  <1>9. Zero(t)
    BY <1>4, <1>5, <1>8, Zenon
  <1>10. QED
    BY <1>2, <1>9, Zenon

\* Nothing by which the equations are multiplied is zero.
LEMMA ChordIsProper ==
  ASSUME NEW p \in Curve, NEW q \in Curve, p.u # 0, q.u # 0, q # p, q # Negated(p)
  PROVE  ~ Zero(Run(p, q)) /\ ~ Zero((1 - p.v) * (1 - q.v))
  <1> DEFINE u == p.u  v == q.u  w == q.v - p.v  a == 1 - p.v  b == 1 - q.v  k == u * v  g == k * w
  <1>1. u \in Int /\ v \in Int /\ w \in Int /\ a \in Int /\ b \in Int
    BY PointMeans
  <1>2. ~ Zero(u) /\ ~ Zero(v) /\ ~ Zero(w) /\ ~ Zero(a) /\ ~ Zero(b) /\ ~ Zero(2)
    BY NotFlat, SameOrdinate, MontgomeryConstants
  <1>3. Run(p, q) = 2 * ((u * v) * w)
    BY Zenon DEF Run
  <1> HIDE DEF u, v, w, a, b
  <1>4. k \in Int /\ ~ Zero(k) /\ ~ Zero(a * b)
    BY <1>1, <1>2, ZeroProduct
  <1> HIDE DEF k
  <1>5. g \in Int /\ ~ Zero(g)
    BY <1>1, <1>2, <1>4, ZeroProduct
  <1> HIDE DEF g
  <1>6. ~ Zero(2 * g)
    BY <1>2, <1>5, ZeroProduct
  <1>7. QED
    BY <1>3, <1>4, <1>6 DEF g, k, a, b

\* The abscissa of the chord's third point is that of the sum.
LEMMA ThirdAbscissa ==
  ASSUME NEW p \in Curve, NEW q \in Curve, p.u # 0, q.u # 0, q # p, q # Negated(p),
         NEW m, NEW n, IsImage(p, m), IsImage(q, n), NEW l, IsSlope(m, n, l),
         NEW x3 \in Int, Zero(x3 - (l * l - MONTGOMERY_A - m.x - n.x))
  PROVE  Zero(x3 * ((1 - Cross(p, q)) - SumV(p, q)) - ((1 - Cross(p, q)) + SumV(p, q)))
  <1> DEFINE u1 == p.u  v1 == p.v  u2 == q.u  v2 == q.v  d == EDWARDS_D  s == MONTGOMERY_SCALE
             A == MONTGOMERY_A  x1 == m.x  x2 == n.x  N == Chord(p, q)  Q == Run(p, q)
             a1 == 1 + v1  b1 == 1 - v1  a2 == 1 + v2  b2 == 1 - v2  dl == v2 - v1  h == u1 * u2
             c == Cross(p, q)  Y == SumV(p, q)  M == b1 * b2  E == d + 1
             C == 2 * (1 - d) * M + 2 * (d + 1) * (1 - v1 * v2)  W == h * h * (dl * dl)
             k == (1 - c) - Y  j == (1 - c) + Y
             f1 == x1 * b1 - a1  f2 == x2 * b2 - a2  f3 == Q * l - s * N
             f4 == x3 - (l * l - A - x1 - x2)  f5 == (s * s) * E + 4  f6 == A * E + 2 * (d - 1)
  <1>1. /\ u1 \in Int /\ v1 \in Int /\ u2 \in Int /\ v2 \in Int /\ d \in Int /\ s \in Int /\ A \in Int
        /\ x1 \in Int /\ x2 \in Int /\ l \in Int /\ c \in Int /\ Y \in Int
        /\ Zero(f1) /\ Zero(f2) /\ Zero(f3) /\ Zero(f4) /\ Zero(f5) /\ Zero(f6)
    BY ImagesMean, MontgomeryConstants, ChordSlope, Denominators DEF IsSlope
  <1>2. ~ Zero(Q) /\ ~ Zero(E) /\ ~ Zero(M)
    BY ChordIsProper, MontgomeryConstants
  <1>3. ChordX(p, q) = k * (N * N * M + W * C) + j * (W * (E * M)) /\ Zero(ChordX(p, q))
    <2>1. ChordX(p, q) = k * (N * N * M + W * C) + j * (W * (E * M))
      BY Zenon DEF ChordX
    <2>2. QED
      BY <2>1, ChordXMeets
  <1>4. N = a2 * b1 * u1 - a1 * b2 * u2 /\ Q = 2 * (h * dl)
    BY Zenon DEF Chord, Run
  <1> HIDE DEF u1, v1, u2, v2, d, s, A, x1, x2, c, Y, N, Q
  <1>5. /\ a1 \in Int /\ b1 \in Int /\ a2 \in Int /\ b2 \in Int /\ dl \in Int /\ h \in Int
        /\ M \in Int /\ E \in Int
    BY <1>1
  <1>6. N \in Int /\ Q \in Int /\ W \in Int /\ k \in Int /\ j \in Int /\ C \in Int
    BY <1>1, <1>4, <1>5
  <1>7. Q * Q = 4 * W
    <2> HIDE DEF dl, h
    <2>1. (2 * (h * dl)) * (2 * (h * dl)) = 4 * (h * h * (dl * dl))
      BY <1>5
    <2>2. QED
      BY <1>4, <2>1, Zenon
  <1>8. C = 2 * (1 - d) * M + E * (a1 * b2 + a2 * b1) /\ 2 * (d - 1) = 0 - 2 * (1 - d)
    BY <1>1
  <1> HIDE DEF W, C
  <1> DEFINE t == (Q * Q * (E * M)) * x3 + (4 * (N * N * M) + Q * Q * C)
             c1 == 0 - Q * Q * E * b2  c2 == 0 - Q * Q * E * b1  c3 == E * M * (Q * l + s * N)
             c4 == Q * Q * E * M  c5 == M * (N * N)  c6 == 0 - Q * Q * M
  <1>9. t = (c1 * f1 + c2 * f2 + c3 * f3 + c4 * f4) + (c5 * f5 + c6 * f6)
    <2> DEFINE D == 1 - d
    <2>1. D \in Int /\ f6 = A * E + (0 - 2 * D) /\ C = 2 * D * M + E * (a1 * b2 + a2 * b1)
      BY <1>1, <1>8
    <2> HIDE DEF a1, b1, a2, b2, E, D, f6
    <2>2. t = (c1 * f1 + c2 * f2 + c3 * f3 + c4 * f4) + (c5 * f5 + c6 * (A * E + (0 - 2 * D)))
      BY <1>1, <1>5, <1>6, <2>1
    <2>3. QED
      BY <2>1, <2>2, Zenon
  <1>10. /\ f1 \in Int /\ f2 \in Int /\ f3 \in Int /\ f4 \in Int /\ f5 \in Int /\ f6 \in Int
        /\ c1 \in Int /\ c2 \in Int /\ c3 \in Int /\ c4 \in Int /\ c5 \in Int /\ c6 \in Int
    BY <1>1, <1>5, <1>6
  <1>11. Zero(t)
    <2>1. Zero(f1) /\ Zero(f2) /\ Zero(f3) /\ Zero(f4) /\ Zero(f5) /\ Zero(f6)
      BY <1>1
    <2> HIDE DEF f1, f2, f3, f4, f5, f6, c1, c2, c3, c4, c5, c6
    <2> DEFINE rr == c1 * f1 + c2 * f2 + c3 * f3 + c4 * f4  ss == c5 * f5 + c6 * f6
    <2>2. rr \in Int /\ ss \in Int /\ 0 \in Int
      BY <1>10
    <2>3. Zero(rr)
      BY <1>10, <2>1, Combination, Zenon
    <2>4. Zero(ss)
      BY <1>10, <2>1, Combination2, Zenon
    <2>5. t = rr + ss
      BY <1>9, Zenon
    <2> HIDE DEF rr, ss, t
    <2>6. Zero(rr + ss)
      BY <2>2, <2>3, <2>4, Combination2, Zenon
    <2>7. QED
      BY <2>5, <2>6
  <1> DEFINE I == k * (N * N * M + W * C) + j * (W * (E * M))
             minus == -4  x == x3 * k - j  G == Q * (Q * (E * M))
  <1> HIDE DEF k, j, E, M
  <1>12. t \in Int /\ I \in Int /\ minus \in Int /\ x \in Int /\ E * M \in Int /\ Q * (E * M) \in Int /\ G \in Int
    BY <1>5, <1>6
  <1>13. G * x = k * t + minus * I
    <2> DEFINE R == Q * Q
    <2>1. G = R * (E * M) /\ R = 4 * W /\ R \in Int
      BY <1>5, <1>6, <1>7
    <2>2. (4 * W * (E * M)) * x = k * ((4 * W * (E * M)) * x3 + (4 * (N * N * M) + 4 * W * C)) + minus * I
      BY <1>5, <1>6
    <2> HIDE DEF G, x, I, minus
    <2>3. QED
      BY <2>1, <2>2, Zenon
  <1>14. ~ Zero(G)
    <2>1. ~ Zero(E * M)
      BY <1>2, <1>5, ZeroProduct
    <2>2. ~ Zero(Q * (E * M))
      BY <1>2, <1>6, <1>12, <2>1, ZeroProduct
    <2>3. QED
      BY <1>2, <1>6, <1>12, <2>2, ZeroProduct
  <1>15. Zero(I)
    BY <1>3, Zenon
  <1> HIDE DEF t, I, minus, x, G
  <1>16. Zero(k * t + minus * I)
    BY <1>6, <1>11, <1>12, <1>15, Combination2, Zenon
  <1>17. Zero(x)
    BY <1>12, <1>13, <1>14, <1>16, ZeroProduct
  <1>18. QED
    BY <1>17 DEF x, k, j, c, Y

\* And its ordinate is the opposite of the sum's.
LEMMA ThirdOrdinate ==
  ASSUME NEW p \in Curve, NEW q \in Curve, p.u # 0, q.u # 0, q # p, q # Negated(p),
         NEW m, NEW n, IsImage(p, m), IsImage(q, n), NEW l, IsSlope(m, n, l),
         NEW x3 \in Int, Zero(x3 - (l * l - MONTGOMERY_A - m.x - n.x)),
         NEW y3 \in Int, Zero(y3 - (l * (m.x - x3) - m.y)), ~ Zero((1 - Cross(p, q)) - SumV(p, q))
  PROVE  Zero(y3 * SumU(p, q) - MONTGOMERY_SCALE * x3 * (1 + Cross(p, q)))
  <1> DEFINE u1 == p.u  v1 == p.v  u2 == q.u  v2 == q.v  s == MONTGOMERY_SCALE
             x1 == m.x  y1 == m.y  N == Chord(p, q)  Q == Run(p, q)
             a1 == 1 + v1  b1 == 1 - v1  dl == v2 - v1
             c == Cross(p, q)  X == SumU(p, q)  Y == SumV(p, q)
             k == (1 - c) - Y  j == (1 - c) + Y  o == v1 * (1 - c) - Y  A == 1 + c
             f1 == x1 * b1 - a1  f2 == y1 * u1 - s * x1  f3 == Q * l - s * N
             f4 == y3 - (l * (x1 - x3) - y1)  f5 == x3 * k - j
             f6 == N * X * o - u2 * X * dl * a1 * k - u1 * u2 * dl * b1 * A * j
  <1>1. /\ u1 \in Int /\ v1 \in Int /\ u2 \in Int /\ v2 \in Int /\ s \in Int
        /\ x1 \in Int /\ y1 \in Int /\ l \in Int /\ c \in Int /\ X \in Int /\ Y \in Int
        /\ Zero(f1) /\ Zero(f2) /\ Zero(f3) /\ Zero(f4) /\ Zero(f5)
    BY ImagesMean, MontgomeryConstants, ChordSlope, Denominators, ThirdAbscissa DEF IsSlope
  <1>2. ~ Zero(Q) /\ ~ Zero(b1) /\ ~ Zero(k)
    BY ChordIsProper, NotFlat
  <1>3. Zero(f6)
    <2>1. ChordY(p, q) = f6
      BY Zenon DEF ChordY
    <2>2. QED
      BY <2>1, ChordYMeets
  <1>4. N = (1 + v2) * b1 * u1 - a1 * (1 - v2) * u2 /\ Q = 2 * ((u1 * u2) * dl)
    BY Zenon DEF Chord, Run
  <1> HIDE DEF u1, v1, u2, v2, s, x1, y1, c, X, Y, N, Q
  <1>5. /\ a1 \in Int /\ b1 \in Int /\ dl \in Int /\ k \in Int /\ j \in Int /\ o \in Int /\ A \in Int
        /\ a1 * k - b1 * j = 2 * o
    BY <1>1
  <1>6. N \in Int /\ Q \in Int
    BY <1>1, <1>4, <1>5
  <1> HIDE DEF a1, b1, dl, k, j, o, A
  <1> DEFINE c1 == X * k * s * N - 2 * (X * k * u2 * dl * s)  c2 == 0 - 2 * (X * k * u2 * dl * b1)
             c3 == X * k * b1 * (x1 - x3)  c4 == Q * X * b1 * k
             c5 == 0 - X * s * N * b1 - Q * b1 * s * A  c6 == 2 * s
             t == y3 * X - s * x3 * A  G == Q * (b1 * k)
  <1>7. /\ f1 \in Int /\ f2 \in Int /\ f3 \in Int /\ f4 \in Int /\ f5 \in Int /\ f6 \in Int
        /\ c1 \in Int /\ c2 \in Int /\ c3 \in Int /\ c4 \in Int /\ c5 \in Int /\ c6 \in Int
        /\ t \in Int /\ G \in Int
    BY <1>1, <1>5, <1>6
  <1>8. c6 * f6 = s * X * N * (a1 * k - b1 * j) - 2 * (s * u2 * X * dl * a1 * k) - s * Q * b1 * A * j
    <2>1. c6 * f6 = s * X * N * (2 * o) - 2 * (s * u2 * X * dl * a1 * k)
                      - s * (2 * ((u1 * u2) * dl)) * b1 * A * j
      BY <1>1, <1>5, <1>6
    <2>2. QED
      BY <2>1, <1>4, <1>5, Zenon
  <1>9. G * t = (c1 * f1 + c2 * f2 + c3 * f3 + c4 * f4)
                + (c5 * f5 + (s * X * N * (a1 * k - b1 * j) - 2 * (s * u2 * X * dl * a1 * k)
                    - s * Q * b1 * A * j))
    <2> DEFINE R == u1 * y1
    <2>1. R \in Int /\ f2 = R - s * x1 /\ Q * y1 = 2 * (u2 * dl * R)
      <3>1. (2 * ((u1 * u2) * dl)) * y1 = 2 * (u2 * dl * R)
        BY <1>1, <1>5
      <3>2. R \in Int /\ f2 = R - s * x1
        BY <1>1
      <3>3. QED
        BY <3>1, <3>2, <1>4, Zenon
    <2> HIDE DEF R, f2
    <2>2. c4 * f4 = X * b1 * k * (Q * y3 - Q * l * (x1 - x3) + 2 * (u2 * dl * R))
      <3>1. c4 * f4 = X * b1 * k * (Q * y3 - Q * l * (x1 - x3) + Q * y1)
        BY <1>1, <1>5, <1>6
      <3>2. QED
        BY <3>1, <2>1, Zenon
    <2>3. G * t = (c1 * f1 + c2 * (R - s * x1) + c3 * f3
                     + X * b1 * k * (Q * y3 - Q * l * (x1 - x3) + 2 * (u2 * dl * R)))
                + (c5 * f5 + (s * X * N * (a1 * k - b1 * j) - 2 * (s * u2 * X * dl * a1 * k)
                    - s * Q * b1 * A * j))
      BY <1>1, <1>5, <1>6, <2>1
    <2>4. QED
      BY <2>1, <2>2, <2>3, Zenon
  <1>10. ~ Zero(G)
    <2>1. b1 * k \in Int /\ ~ Zero(b1 * k)
      BY <1>2, <1>5, ZeroProduct
    <2>2. QED
      BY <1>2, <1>6, <2>1, ZeroProduct
  <1>11. Zero(f1) /\ Zero(f2) /\ Zero(f3) /\ Zero(f4) /\ Zero(f5) /\ Zero(f6)
    BY <1>1, <1>3
  <1> DEFINE rr == c1 * f1 + c2 * f2 + c3 * f3 + c4 * f4  ss == c5 * f5 + c6 * f6
  <1>12. G * t = rr + ss
    BY <1>8, <1>9, Zenon
  <1> HIDE DEF f1, f2, f3, f4, f5, f6, c1, c2, c3, c4, c5, c6, t, G
  <1>13. rr \in Int /\ ss \in Int /\ 0 \in Int
    BY <1>7
  <1>14. Zero(rr)
    BY <1>7, <1>11, Combination, Zenon
  <1>15. Zero(ss)
    BY <1>7, <1>11, Combination2, Zenon
  <1> HIDE DEF rr, ss
  <1>16. Zero(rr + ss)
    BY <1>13, <1>14, <1>15, Combination2, Zenon
  <1>17. Zero(t)
    BY <1>7, <1>10, <1>12, <1>16, ZeroProduct
  <1>18. QED
    BY <1>17 DEF t, s, X, A, c

\* So the third point, turned over, is the image of the sum.
LEMMA ThirdPoint ==
  ASSUME NEW p \in Curve, NEW q \in Curve, p.u # 0, q.u # 0, q # p, q # Negated(p),
         HostAdd(p, q).u # 0, NEW m, NEW n, IsImage(p, m), IsImage(q, n),
         NEW l, IsSlope(m, n, l),
         NEW x3 \in Field, Zero(x3 - (l * l - MONTGOMERY_A - m.x - n.x)),
         NEW y3 \in Field, Zero(y3 - (l * (m.x - x3) - m.y))
  PROVE  IsImage(HostAdd(p, q), [x |-> x3, y |-> y3])
  <1> DEFINE r == HostAdd(p, q)  c == Cross(p, q)  X == SumU(p, q)  Y == SumV(p, q)
             u == r.u  v == r.v  s == MONTGOMERY_SCALE  B == 1 - c  A == 1 + c
             x == x3 * (1 - v) - (1 + v)  y == y3 * u - s * x3
             f1 == A * u - X  f2 == B * v - Y
  <1>1. /\ u \in Int /\ v \in Int /\ ~ Zero(1 - v) /\ c \in Int /\ X \in Int /\ Y \in Int
        /\ Zero(f1) /\ Zero(f2) /\ ~ Zero(A) /\ ~ Zero(B) /\ s \in Int /\ x3 \in Int /\ y3 \in Int
    <2>1. r \in Curve
      BY SumOnCurve
    <2>2. Field \subseteq Int
      BY FieldAssumption DEF Field
    <2>3. QED
      BY <2>1, <2>2, PointMeans, NotFlat, HostAddMeans, Denominators, MontgomeryConstants DEF IsSum
  <1>2. Zero(x3 * (B - Y) - (B + Y))
    BY <1>1, ThirdAbscissa
  <1>3. ASSUME ~ Zero(B - Y)  PROVE Zero(y3 * X - s * x3 * A)
    BY <1>1, <1>3, ThirdOrdinate
  <1> HIDE DEF c, X, Y, u, v, s
  <1> DEFINE one == 1  minus == -1  k == B - Y  w == B * (1 - v)  g == x3 * k - (B + Y)
             e == 0 - (x3 + 1)  h == y3 * X - s * x3 * A
  <1>4. /\ B \in Int /\ A \in Int /\ f1 \in Int /\ f2 \in Int /\ one \in Int /\ minus \in Int
        /\ k \in Int /\ w \in Int /\ g \in Int /\ e \in Int /\ x \in Int /\ y \in Int /\ h \in Int
        /\ 1 - v \in Int
    BY <1>1
  <1>5. w - k = minus * f2 + minus * 0 /\ B * x = one * g + e * f2 /\ A * y = one * h + y3 * f1
    BY <1>1, <1>4
  <1>6. ~ Zero(w)
    BY <1>1, <1>4, ZeroProduct
  <1> HIDE DEF B, A, f1, f2, one, minus, k, w, g, e, x, y, h
  <1>7. ~ Zero(k)
    <2>1. Zero(minus * f2)
      BY <1>1, <1>4, Combination2, Zenon
    <2>2. w - k = minus * f2
      BY <1>4, <1>5
    <2>3. QED
      BY <1>4, <1>6, <2>1, <2>2, ZeroTogether
  <1>8. Zero(x)
    <2>1. Zero(one * g + e * f2)
      <3>1. Zero(g)
        BY <1>2 DEF g, k
      <3>2. QED
        BY <3>1, <1>1, <1>4, Combination2, Zenon
    <2>2. QED
      BY <2>1, <1>1, <1>4, <1>5, ZeroProduct
  <1>9. Zero(y)
    <2>1. Zero(one * h + y3 * f1)
      <3>1. Zero(h)
        BY <1>3, <1>7 DEF h, k
      <3>2. QED
        BY <3>1, <1>1, <1>4, Combination2, Zenon
    <2>2. QED
      BY <2>1, <1>1, <1>4, <1>5, ZeroProduct
  <1>10. /\ [x |-> x3, y |-> y3] \in [x : Field, y : Field]
         /\ [x |-> x3, y |-> y3].x = x3 /\ [x |-> x3, y |-> y3].y = y3
    OBVIOUS
  <1>11. QED
    BY <1>8, <1>9, <1>10, Zenon DEF x, y, u, v, r, s, IsImage

\* The incomplete addition of the circuit: on images of points that are neither
\* equal nor opposite, and whose sum has an image, it leaves one result.
LEMMA MontgomeryAddMeans ==
  ASSUME NEW p \in Curve, NEW q \in Curve, p.u # 0, q.u # 0, q # p, q # Negated(p),
         HostAdd(p, q).u # 0, NEW m, NEW n, IsImage(p, m), IsImage(q, n)
  PROVE  \E k : MontgomeryAdd(m, n) = {k} /\ IsImage(HostAdd(p, q), k)
  <1> DEFINE dx == n.x - m.x  dy == n.y - m.y  l == Times(invert[dx % P], dy % P)
             X == l * l - MONTGOMERY_A - m.x - n.x  x == X % P
             g == m.x - x  t == Times(l, g)  Y == t - m.y  y == Y % P
             k == [x |-> x, y |-> y]
  <1>1. /\ m.x \in Int /\ m.y \in Int /\ n.x \in Int /\ n.y \in Int /\ dx \in Int /\ dy \in Int
        /\ MONTGOMERY_A \in Int /\ Field \subseteq Int
    BY ImagesMean, MontgomeryConstants, FieldAssumption DEF Field
  <1>2. ~ Zero(dx)
    BY SameAbscissa
  <1> HIDE DEF dx, dy
  <1>3. l \in Field /\ l \in Int /\ Zero(dx * l - dy) /\ Solve(dx, dy) = {l}
    BY <1>1, <1>2, SolveMeans
  <1> HIDE DEF l
  <1>4. X \in Int /\ x \in Field /\ x \in Int /\ Zero(x - X)
    <2>1. X \in Int
      BY <1>1, <1>3
    <2> HIDE DEF X
    <2>2. x \in Field /\ Zero(x - X)
      BY <2>1, Residues
    <2>3. QED
      BY <1>1, <2>1, <2>2
  <1>5. MontgomeryAdd(m, n) = {k}
    <2>1. MontgomeryAdd(m, n) = {LET w == (j * j - MONTGOMERY_A - m.x - n.x) % P
                                  IN [x |-> w, y |-> (Times(j, m.x - w) - m.y) % P] : j \in {l}}
      BY <1>3, Zenon DEF MontgomeryAdd, dx, dy
    <2>2. QED
      BY <2>1, Zenon
  <1>6. IsSlope(m, n, l)
    BY <1>3 DEF IsSlope, dx, dy
  <1>7. Zero(x - (l * l - MONTGOMERY_A - m.x - n.x))
    BY <1>4
  <1> HIDE DEF x
  <1>8. g \in Int
    BY <1>1, <1>4
  <1> HIDE DEF g
  <1>9. t \in Int /\ Zero(t - l * g)
    BY <1>3, <1>8, TimesMeans
  <1> HIDE DEF t
  <1>10. Y \in Int /\ y \in Field /\ y \in Int /\ Zero(y - Y)
    <2>1. Y \in Int
      BY <1>1, <1>9
    <2> HIDE DEF Y
    <2>2. y \in Field /\ Zero(y - Y)
      BY <2>1, Residues
    <2>3. QED
      BY <1>1, <2>1, <2>2
  <1>11. Zero(y - (l * g - m.y))
    <2> DEFINE a == y - Y  b == t - l * g
    <2>1. a \in Int /\ b \in Int /\ a + b = y - (l * g - m.y)
      BY <1>1, <1>3, <1>8, <1>9, <1>10
    <2>2. Zero(a) /\ Zero(b)
      BY <1>9, <1>10
    <2> HIDE DEF a, b
    <2>3. Zero(a + b)
      BY <2>1, <2>2, Combination2, Zenon
    <2>4. QED
      BY <2>1, <2>3
  <1> HIDE DEF y
  <1>12. IsImage(HostAdd(p, q), [x |-> x, y |-> y])
    <2>1. Zero(y - (l * (m.x - x) - m.y))
      BY <1>11 DEF g
    <2>2. QED
      BY <1>3, <1>4, <1>6, <1>7, <1>10, <2>1, ThirdPoint
  <1>13. QED
    BY <1>5, <1>12

\* The way back: one point has a given image.
LEMMA IntoEdwardsMeans ==
  ASSUME NEW p \in Curve, p.u # 0, NEW m, IsImage(p, m)
  PROVE  into_edwards(m) = {p}
  <1> DEFINE u == p.u  v == p.v  x == m.x  y == m.y  s == MONTGOMERY_SCALE
             a == x + 1  b == x - 1  k == s * x  t == Times(s, x)
             e1 == x * (1 - v) - (1 + v)  e2 == y * u - s * x
  <1>1. /\ u \in Int /\ v \in Int /\ x \in Int /\ y \in Int /\ s \in Int /\ u \in Field /\ v \in Field
        /\ Zero(e1) /\ Zero(e2) /\ ~ Zero(u) /\ ~ Zero(1 - v) /\ ~ Zero(1 + v)
        /\ p = [u |-> u, v |-> v] /\ ~ Zero(2) /\ ~ Zero(s)
    BY PointMeans, ImagesMean, MontgomeryConstants, NotFlat
  <1>2. into_edwards(m) = {[u |-> i, v |-> j] : i \in Solve(y, t), j \in Solve(a, b)}
    BY DEF into_edwards
  <1> HIDE DEF u, v, x, y, s
  <1> DEFINE one == 1  minus == -1
  <1>3. /\ a \in Int /\ b \in Int /\ k \in Int /\ e1 \in Int /\ e2 \in Int /\ one \in Int /\ minus \in Int
        /\ 1 - v \in Int /\ 1 + v \in Int /\ 0 \in Int
        /\ a * (1 - v) - 2 = e1 /\ x * (1 - v) - (1 + v) = e1
        /\ a * v - b = minus * e1 + minus * 0 /\ y * u - k = e2
    BY <1>1
  <1>4. ~ Zero(a)
    <2>1. ASSUME Zero(a)  PROVE FALSE
      <3>1. Zero((1 - v) * a)
        BY <1>3, <2>1, Combination2, Zenon
      <3>2. (1 - v) * a = a * (1 - v)
        BY <1>1, <1>3
      <3>3. a * (1 - v) \in Int /\ 2 \in Int
        BY <1>3
      <3>4. QED
        BY <3>1, <3>2, <3>3, <1>1, <1>3, ZeroTogether
    <2>2. QED
      BY <2>1
  <1>5. ~ Zero(y)
    <2>1. ~ Zero(x)
      <3>1. ASSUME Zero(x)  PROVE FALSE
        <4> DEFINE c == x * (1 - v)
        <4>1. c \in Int /\ c = (1 - v) * x
          BY <1>1, <1>3
        <4>2. Zero(c)
          <5>1. Zero((1 - v) * x)
            BY <1>1, <1>3, <3>1, Combination2, Zenon
          <5>2. QED
            BY <4>1, <5>1
        <4>3. Zero(c - (1 + v))
          BY <1>1
        <4> HIDE DEF c
        <4>4. QED
          BY <4>1, <4>2, <4>3, <1>1, <1>3, ZeroTogether
      <3>2. QED
        BY <3>1
    <2>2. ~ Zero(k)
      BY <1>1, <2>1, ZeroProduct
    <2>3. ASSUME Zero(y)  PROVE FALSE
      <3> DEFINE c == y * u
      <3>1. c \in Int /\ c = u * y
        BY <1>1
      <3>2. Zero(c)
        <4>1. Zero(u * y)
          BY <1>1, <2>3, Combination2, Zenon
        <4>2. QED
          BY <3>1, <4>1
      <3>3. Zero(c - k)
        BY <1>1
      <3> HIDE DEF c
      <3>4. QED
        BY <3>1, <3>2, <3>3, <2>2, <1>3, ZeroTogether
    <2>4. QED
      BY <2>3
  <1>6. t \in Int /\ Zero(t - k)
    BY <1>1, TimesMeans
  <1> HIDE DEF a, b, k, e1, e2, t, minus
  <1>7. Zero(a * v - b)
    <2>1. Zero(minus * e1)
      BY <1>1, <1>3, Combination2, Zenon
    <2>2. a * v - b = minus * e1
      BY <1>3
    <2>3. QED
      BY <2>1, <2>2
  <1>8. Zero(y * u - t)
    <2>1. Zero(k - t)
      BY <1>3, <1>6, Opposite
    <2> DEFINE c == k - t
    <2>2. c \in Int /\ e2 + c = y * u - t
      BY <1>1, <1>3, <1>6
    <2>3. Zero(c) /\ Zero(e2)
      BY <1>1, <2>1
    <2> HIDE DEF c
    <2>4. Zero(e2 + c)
      BY <1>3, <2>2, <2>3, Combination2, Zenon
    <2>5. QED
      BY <2>2, <2>4
  <1>9. Solve(a, b) = {v}
    <2> DEFINE w == Times(invert[a % P], b % P)
    <2>1. Solve(a, b) = {w} /\ v = w
      BY <1>1, <1>3, <1>4, <1>7, SolveMeans
    <2>2. QED
      BY <2>1
  <1>10. Solve(y, t) = {u}
    <2> DEFINE w == Times(invert[y % P], t % P)
    <2>1. Solve(y, t) = {w} /\ u = w
      BY <1>1, <1>5, <1>6, <1>8, SolveMeans
    <2>2. QED
      BY <2>1
  <1>11. into_edwards(m) = {[u |-> i, v |-> j] : i \in {u}, j \in {v}}
    BY <1>2, <1>9, <1>10
  <1>12. QED
    BY <1>1, <1>11

------------------------------------------------------------------------------
(* The Pedersen hash: windows and their sums. *)

Window == [1..3 -> Bit]
Digit(seg, i) == Encoded(seg[i]) * Weight(i)
PartialSums(seg) ==
  CHOOSE f : f = [i \in 0..Len(seg) |-> IF i = 0 THEN 0 ELSE f[i - 1] + Encoded(seg[i]) * Weight(i)]

LEMMA WeightPositive ==
  ASSUME NEW i \in Nat \ {0}
  PROVE  Weight(i) \in Nat \ {0} /\ Weight(1) = 1 /\ Weight(i + 1) = 16 * Weight(i)
  <1> DEFINE k == 4 * (i - 1)
  <1>1. k \in Nat /\ k + 1 \in Nat /\ k + 2 \in Nat /\ k + 3 \in Nat
        /\ 4 * ((i + 1) - 1) = k + 4 /\ 4 * (1 - 1) = 0
    OBVIOUS
  <1>2. Weight(1) = 1
    BY <1>1, PowerZero DEF Weight
  <1>3. Weight(i) = 2^k /\ Weight(i + 1) = 2^(k + 4)
    BY <1>1, Zenon DEF Weight
  <1> HIDE DEF k
  <1>4. /\ 2^k \in Nat \ {0} /\ 2^(k + 1) = 2 * 2^k /\ 2^((k + 1) + 1) = 2 * 2^(k + 1)
        /\ 2^((k + 2) + 1) = 2 * 2^(k + 2) /\ 2^((k + 3) + 1) = 2 * 2^(k + 3)
    BY <1>1, PowerPositive, PowerDoubles
  <1>5. (k + 1) + 1 = k + 2 /\ (k + 2) + 1 = k + 3 /\ (k + 3) + 1 = k + 4
    BY <1>1
  <1>6. 2^(k + 4) = 2 * 2^(k + 3) /\ 2^(k + 3) = 2 * 2^(k + 2) /\ 2^(k + 2) = 2 * 2^(k + 1)
    BY <1>4, <1>5, Zenon
  <1>7. QED
    BY <1>2, <1>3, <1>4, <1>6

\* The magnitude and the sign of a window.
LEMMA EncodedMeans ==
  ASSUME NEW w \in Window
  PROVE  LET c == 1 + w[1] + 2 * w[2]
         IN  /\ c \in 1..4 /\ w[3] \in Bit
             /\ Encoded(w) = (IF w[3] = 1 THEN 0 - c ELSE c) /\ Encoded(w) \in Int
  <1>1. w[1] \in {0, 1} /\ w[2] \in {0, 1} /\ w[3] \in {0, 1}
    BY DEF Window, Bit
  <1>2. QED
    BY <1>1 DEF Encoded, Bit

LEMMA PartialSumsMean ==
  ASSUME NEW seg \in Seq(Window)
  PROVE  /\ PartialSums(seg)[0] = 0 /\ SegmentSum(seg) = PartialSums(seg)[Len(seg)]
         /\ \A i \in 0..Len(seg) : PartialSums(seg)[i] \in Int
         /\ \A i \in 1..Len(seg) : /\ Digit(seg, i) \in Int /\ seg[i] \in Window
                                   /\ PartialSums(seg)[i] = PartialSums(seg)[i - 1] + Digit(seg, i)
  <1> DEFINE n == Len(seg)
             step == [i \in 1..n |-> [x \in Int |-> x + Digit(seg, i)]]
             Row(f, i) == IF i = 0 THEN 0 ELSE f[i - 1] + Digit(seg, i)
             t == PartialSums(seg)
  <1>1. n \in Nat
    BY LenProperties
  <1>2. ASSUME NEW i \in 1..n  PROVE Digit(seg, i) \in Int /\ seg[i] \in Window
    <2>1. seg[i] \in Window
      BY ElementOfSeq
    <2>2. Encoded(seg[i]) \in Int /\ Weight(i) \in Int
      <3>1. i \in Nat \ {0}
        BY <1>1
      <3>2. Weight(i) \in Int
        BY <3>1, WeightPositive
      <3>3. QED
        BY <2>1, <3>2, EncodedMeans
    <2>3. QED
      BY <2>1, <2>2 DEF Digit
  <1>3. \E f \in [0..n -> Int] : f = [i \in 0..n |-> Row(f, i)]
    <2>1. step \in [1..n -> [Int -> Int]]
      BY <1>2
    <2> DEFINE first == 0
    <2>2. PICK f \in [0..n -> Int] : IsTable(f, n, first, step)
      <3>1. first \in Int
        OBVIOUS
      <3> HIDE DEF step, first
      <3>2. QED
        BY <1>1, <2>1, <3>1, Iterates
    <2>3. ASSUME NEW i \in 0..n  PROVE (IF i = 0 THEN 0 ELSE step[i][f[i - 1]]) = Row(f, i)
      <3>1. CASE i = 0
        BY <3>1
      <3>2. CASE i # 0
        <4>1. i - 1 \in 0..n /\ i \in 1..n
          BY <1>1, <3>2
        <4>2. f[i - 1] \in Int
          BY <4>1
        <4>3. QED
          BY <3>2, <4>1, <4>2
      <3>3. QED
        BY <3>1, <3>2
    <2> HIDE DEF step
    <2>4. f = [i \in 0..n |-> Row(f, i)]
      BY <2>2, <2>3, Zenon DEF IsTable, first
    <2>5. QED
      BY <2>4
  <1>4. t = CHOOSE f : f = [i \in 0..n |-> Row(f, i)]
    BY Zenon DEF PartialSums, Digit
  <1>5. t = [i \in 0..n |-> Row(t, i)]
    <2> HIDE DEF t
    <2>1. QED
      BY <1>3, <1>4, Zenon
  <1>6. SegmentSum(seg) = t[n]
    BY Zenon DEF SegmentSum, PartialSums
  <1> HIDE DEF t
  <1>7. ASSUME NEW i \in 0..n  PROVE t[i] = Row(t, i)
    BY <1>5, Zenon
  <1>8. t[0] = 0
    <2>1. 0 \in 0..n
      BY <1>1
    <2>2. QED
      BY <1>7, <2>1
  <1>9. ASSUME NEW i \in 1..n  PROVE t[i] = t[i - 1] + Digit(seg, i)
    <2>1. i \in 0..n /\ i # 0
      BY <1>1
    <2>2. QED
      BY <1>7, <2>1
  <1>10. \A i \in 0..n : t[i] \in Int
    <2> DEFINE S == {i \in Nat : i <= n => t[i] \in Int}
    <2>1. 0 \in S
      BY <1>8
    <2>2. ASSUME NEW i \in Nat, i \in S  PROVE i + 1 \in S
      <3>1. SUFFICES ASSUME i + 1 <= n  PROVE t[i + 1] \in Int
        OBVIOUS
      <3>2. i + 1 \in 1..n /\ (i + 1) - 1 = i /\ t[i] \in Int
        BY <1>1, <2>2, <3>1
      <3>3. t[i + 1] = t[i] + Digit(seg, i + 1) /\ Digit(seg, i + 1) \in Int
        BY <1>2, <1>9, <3>2
      <3>4. QED
        BY <3>2, <3>3
    <2> HIDE DEF S
    <2>3. Nat \subseteq S
      BY <2>1, <2>2, SetInduction
    <2>4. QED
      BY <1>1, <2>3 DEF S
  <1>11. QED
    BY <1>2, <1>6, <1>8, <1>9, <1>10 DEF t

\* Sums depend on the windows they add up only.
LEMMA SumsOfPrefix ==
  ASSUME NEW seg \in Seq(Window), NEW short \in Seq(Window), Len(short) <= Len(seg),
         \A i \in 1..Len(short) : short[i] = seg[i]
  PROVE  \A i \in 0..Len(short) : PartialSums(short)[i] = PartialSums(seg)[i]
  <1> DEFINE n == Len(short)  S == {i \in Nat : i <= n => PartialSums(short)[i] = PartialSums(seg)[i]}
  <1>1. n \in Nat /\ Len(seg) \in Nat
    BY LenProperties
  <1>2. 0 \in S
    BY PartialSumsMean
  <1>3. ASSUME NEW i \in Nat, i \in S  PROVE i + 1 \in S
    <2>1. SUFFICES ASSUME i + 1 <= n  PROVE PartialSums(short)[i + 1] = PartialSums(seg)[i + 1]
      OBVIOUS
    <2>2. i + 1 \in 1..n /\ i + 1 \in 1..Len(seg) /\ (i + 1) - 1 = i
          /\ PartialSums(short)[i] = PartialSums(seg)[i]
      BY <1>1, <1>3, <2>1
    <2>3. /\ PartialSums(short)[i + 1] = PartialSums(short)[i] + Digit(short, i + 1)
          /\ PartialSums(seg)[i + 1] = PartialSums(seg)[i] + Digit(seg, i + 1)
      BY <2>2, PartialSumsMean
    <2>4. Digit(short, i + 1) = Digit(seg, i + 1)
      BY <2>2 DEF Digit
    <2>5. QED
      BY <2>2, <2>3, <2>4
  <1> HIDE DEF S
  <1>4. Nat \subseteq S
    BY <1>2, <1>3, SetInduction
  <1>5. QED
    BY <1>1, <1>4 DEF S

\* The last part of PedersenAssumption, for the code's sizes and any like them: the
\* digits of n windows cannot cancel, and they stay below m.
THEOREM SegmentsDoNotVanish ==
  \A m, n \in Nat \ {0} : 4 * Weight(n + 1) <= 15 * m =>
    \A seg \in [1..n -> Window] : SegmentSum(seg) % m # 0
  <1> SUFFICES ASSUME NEW m \in Nat \ {0}, NEW n \in Nat \ {0}, 4 * Weight(n + 1) <= 15 * m,
                      NEW seg \in [1..n -> Window]
               PROVE  SegmentSum(seg) % m # 0
    OBVIOUS
  <1> DEFINE t == PartialSums(seg)
             Bounded(i) == LET w == Weight(i + 1) IN 15 * t[i] <= 4 * (w - 1) /\ 0 - 15 * t[i] <= 4 * (w - 1)
             S == {i \in Nat : i <= n => Bounded(i)}
  <1>1. seg \in Seq(Window) /\ Len(seg) = n
    BY IsASeq
  <1>2. /\ SegmentSum(seg) = t[n] /\ t[0] = 0 /\ \A i \in 0..n : t[i] \in Int
        /\ \A i \in 1..n : seg[i] \in Window /\ t[i] = t[i - 1] + Digit(seg, i)
    BY <1>1, PartialSumsMean
  <1> HIDE DEF t
  <1>3. ASSUME NEW i \in Nat \ {0}
        PROVE  Weight(i) \in Nat \ {0} /\ Weight(i + 1) = 16 * Weight(i)
    BY WeightPositive
  <1>4. ASSUME NEW i \in 1..n
        PROVE  LET d == Digit(seg, i)  w == Weight(i)
               IN  d \in Int /\ ((w <= d /\ d <= 4 * w) \/ (w <= 0 - d /\ 0 - d <= 4 * w))
    <2> DEFINE c == 1 + seg[i][1] + 2 * seg[i][2]  w == Weight(i)  d == Digit(seg, i)  k == c * w
    <2>1. c \in 1..4 /\ (Encoded(seg[i]) = 0 - c \/ Encoded(seg[i]) = c)
      BY <1>2, EncodedMeans
    <2>2. i \in Nat \ {0}
      OBVIOUS
    <2>3. w \in Nat
      BY <1>3, <2>2
    <2>4. d = (0 - c) * w \/ d = k
      BY <2>1, Zenon DEF Digit
    <2> HIDE DEF c, w, d
    <2>5. k \in Int /\ w <= k /\ k <= 4 * w /\ (0 - c) * w = 0 - k
      <3>1. c = 1 \/ c = 2 \/ c = 3 \/ c = 4
        BY <2>1
      <3>2. 1 * w = w /\ (0 - 1) * w = 0 - w /\ (0 - 2) * w = 0 - 2 * w
            /\ (0 - 3) * w = 0 - 3 * w /\ (0 - 4) * w = 0 - 4 * w
        BY <2>3
      <3>3. CASE c = 1
        BY <2>3, <3>2, <3>3
      <3>4. CASE c = 2
        BY <2>3, <3>2, <3>4
      <3>5. CASE c = 3
        BY <2>3, <3>2, <3>5
      <3>6. CASE c = 4
        BY <2>3, <3>2, <3>6
      <3>7. QED
        BY <3>1, <3>3, <3>4, <3>5, <3>6
    <2> HIDE DEF k
    <2>6. d \in Int /\ ((w <= d /\ d <= 4 * w) \/ (w <= 0 - d /\ 0 - d <= 4 * w))
      BY <2>3, <2>4, <2>5
    <2>7. QED
      BY <2>6 DEF d, w
  <1>5. 0 \in S
    <2>1. Weight(0 + 1) = 1
      <3>1. 1 \in Nat \ {0} /\ 0 + 1 = 1
        OBVIOUS
      <3>2. QED
        BY <3>1, WeightPositive
    <2>2. QED
      BY <1>2, <2>1
  <1>6. ASSUME NEW i \in Nat, i \in S  PROVE i + 1 \in S
    <2>1. SUFFICES ASSUME i + 1 <= n  PROVE Bounded(i + 1)
      OBVIOUS
    <2> DEFINE k == i + 1  w == Weight(k)  d == Digit(seg, k)  x == t[i]  y == t[k]
    <2>2. k \in 1..n /\ k \in Nat \ {0} /\ k - 1 = i /\ i \in 0..n
      BY <2>1
    <2>3. w \in Nat \ {0} /\ Weight(k + 1) = 16 * w /\ x \in Int /\ y = x + d
      BY <1>2, <1>3, <2>2
    <2>4. d \in Int /\ ((w <= d /\ d <= 4 * w) \/ (w <= 0 - d /\ 0 - d <= 4 * w))
      BY <1>4, <2>2
    <2>5. 15 * x <= 4 * (w - 1) /\ 0 - 15 * x <= 4 * (w - 1)
      BY <1>6, <2>2
    <2> HIDE DEF k, w, d, x, y
    <2>6. 15 * y <= 4 * (16 * w - 1) /\ 0 - 15 * y <= 4 * (16 * w - 1)
      BY <2>3, <2>4, <2>5
    <2>7. QED
      BY <2>3, <2>6 DEF k, y
  <1>7. Nat \subseteq S
    <2> HIDE DEF S
    <2>1. QED
      BY <1>5, <1>6, SetInduction
  <1> DEFINE j == n - 1  w == Weight(n)  d == Digit(seg, n)  x == t[j]  y == t[n]
  <1>8. j \in Nat /\ j + 1 = n /\ n \in 1..n /\ j \in 0..n /\ n \in 0..n
    OBVIOUS
  <1>9. 15 * x <= 4 * (w - 1) /\ 0 - 15 * x <= 4 * (w - 1)
    <2>1. j \in S /\ j <= n
      BY <1>7, <1>8
    <2>2. QED
      BY <1>8, <2>1
  <1>10. y = x + d /\ x \in Int /\ w \in Nat \ {0} /\ Weight(n + 1) = 16 * w
    BY <1>2, <1>3, <1>8
  <1>11. d \in Int /\ ((w <= d /\ d <= 4 * w) \/ (w <= 0 - d /\ 0 - d <= 4 * w))
    BY <1>4, <1>8
  <1>12. 64 * w <= 15 * m
    BY <1>10
  <1> HIDE DEF j, w, d, x, y
  <1>13. y \in Int /\ y # 0 /\ y < m /\ 0 - y < m
    BY <1>9, <1>10, <1>11, <1>12
  <1>14. y % m # 0
    <2>1. CASE y > 0
      BY <1>13, <2>1
    <2>2. CASE y < 0
      <3>1. y = m * (-1) + (y + m) /\ y + m \in 1..(m - 1)
        BY <1>13, <2>2
      <3>2. QED
        BY <1>13, <3>1
    <2>3. QED
      BY <1>13, <2>1, <2>2
  <1>15. QED
    BY <1>2, <1>14 DEF y

------------------------------------------------------------------------------
(* Multiples by numbers of either sign, as the windows encode them. *)

Multiple(e, g) == HostMul(e % Order, g)

LEMMA Multiples ==
  ASSUME NEW g \in Subgroup, NEW a \in Int, NEW b \in Int
  PROVE  /\ Multiple(a, g) \in Subgroup
         /\ Multiple(a + b, g) = HostAdd(Multiple(a, g), Multiple(b, g))
         /\ Multiple(0 - a, g) = Negated(Multiple(a, g))
         /\ a \in Nat => Multiple(a, g) = HostMul(a, g)
         /\ g # Neutral /\ a % Order # 0 => Multiple(a, g) # Neutral
  <1>1. Order \in Nat \ {0} /\ g \in Curve
    BY OrderAssumption DEF Subgroup
  <1>2. ASSUME NEW x \in Int  PROVE x % Order \in 0..(Order - 1) /\ x % Order \in Nat
    <2>1. x % Order \in 0..(Order - 1)
      BY <1>1, SameResidue
    <2>2. QED
      BY <1>1, <2>1
  <1>3. ASSUME NEW x \in Int  PROVE Multiple(x, g) \in Subgroup /\ Multiple(x, g) \in Curve
    BY <1>2, SubgroupMultiples DEF Multiple, Subgroup
  <1>4. ASSUME NEW x \in Int, NEW y \in Int
        PROVE  Multiple(x + y, g) = HostAdd(Multiple(x, g), Multiple(y, g))
    <2> DEFINE i == x % Order  j == y % Order  k == i + j
    <2>1. i \in Nat /\ j \in Nat /\ i \in Int /\ j \in Int
      BY <1>2
    <2>2. Divides(Order, x - i) /\ Divides(Order, y - j)
      BY <1>1, SameResidue
    <2> HIDE DEF i, j
    <2>3. x - i \in Int /\ y - j \in Int /\ (x - i) + (y - j) = (x + y) - k /\ k \in Nat /\ x + y \in Int
      BY <2>1
    <2>4. Divides(Order, (x - i) + (y - j))
      BY <1>1, <2>2, <2>3, DividesSums
    <2>5. (x + y) % Order = k % Order
      <3> DEFINE z == x + y
      <3>1. z \in Int /\ k \in Int /\ Divides(Order, z - k)
        BY <2>3, <2>4
      <3> HIDE DEF z, k
      <3>2. z % Order = k % Order
        BY <1>1, <3>1, SameResidue
      <3>3. QED
        BY <3>2 DEF z
    <2>6. HostMul(k % Order, g) = HostMul(k, g)
      BY <2>3, SubgroupMultiples
    <2>7. HostMul(i + j, g) = HostAdd(HostMul(i, g), HostMul(j, g))
      BY <1>1, <2>1, HostMulSum
    <2>8. QED
      BY <2>5, <2>6, <2>7 DEF Multiple, i, j
  <1>5. Multiple(0 - a, g) = Negated(Multiple(a, g))
    <2> DEFINE m == Multiple(a, g)  n == Multiple(0 - a, g)
    <2>1. m \in Curve /\ n \in Curve
      BY <1>3
    <2>2. HostAdd(n, m) = Neutral
      <3>1. 0 - a \in Int /\ (0 - a) + a = 0
        OBVIOUS
      <3>2. HostAdd(n, m) = Multiple(0, g)
        BY <1>4, <3>1
      <3>3. 0 % Order = 0
        BY <1>1
      <3>4. QED
        BY <3>2, <3>3, HostMulRows DEF Multiple
    <2> HIDE DEF m, n
    <2>3. n = HostAdd(HostAdd(n, m), Negated(m)) /\ Negated(m) \in Curve
      BY <2>1, Difference, NeutralAndOpposite
    <2>4. QED
      BY <2>2, <2>3, NeutralAndOpposite DEF m, n
  <1>6. a \in Nat => Multiple(a, g) = HostMul(a, g)
    BY SubgroupMultiples DEF Multiple
  <1>7. ASSUME g # Neutral, a % Order # 0  PROVE Multiple(a, g) # Neutral
    <2>1. a % Order \in 1..(Order - 1) /\ a % Order \in Nat
      BY <1>1, <1>2, <1>7
    <2>2. QED
      BY <1>7, <2>1, SubgroupMultiples DEF Multiple
  <1>8. QED
    BY <1>3, <1>4, <1>5, <1>6, <1>7

\* A number has residue zero with its opposite.
LEMMA OppositeResidue ==
  ASSUME NEW a \in Int
  PROVE  (0 - a) % Order = 0 <=> a % Order = 0
  <1>1. Order \in Nat \ {0}
    BY OrderAssumption
  <1>2. ASSUME NEW x \in Int, x % Order = 0  PROVE (0 - x) % Order = 0
    <2>1. Divides(Order, x)
      BY <1>1, <1>2, DividesMeansZero
    <2>2. 0 \in Int /\ 0 - x \in Int
      OBVIOUS
    <2>3. Divides(Order, 0 - x)
      BY <1>1, <2>1, <2>2, DividesSums
    <2>4. QED
      BY <1>1, <2>2, <2>3, DividesMeansZero
  <1>3. 0 - a \in Int /\ 0 - (0 - a) = a
    OBVIOUS
  <1>4. QED
    BY <1>2, <1>3

------------------------------------------------------------------------------
(* No digit and no sum of digits of a segment vanishes. *)

LEMMA PartialSumsVanishNowhere ==
  ASSUME NEW seg \in Seq(Window), Len(seg) <= Chunks, NEW i \in 1..Len(seg)
  PROVE  PartialSums(seg)[i] % Order # 0
  <1> DEFINE short == [j \in 1..i |-> seg[j]]
  <1>1. Len(seg) \in Nat /\ \A j \in 1..Len(seg) : seg[j] \in Window
    BY LenProperties, ElementOfSeq
  <1>2. short \in [1..i -> Window] /\ i \in Nat
    BY <1>1
  <1>3. short \in Seq(Window) /\ Len(short) = i /\ \A j \in 1..i : short[j] = seg[j]
    BY <1>2, IsASeq
  <1> HIDE DEF short
  <1>4. SegmentSum(short) = PartialSums(seg)[i]
    <2>1. Len(short) <= Len(seg) /\ i \in 0..Len(short)
      BY <1>1, <1>2, <1>3
    <2>2. PartialSums(short)[i] = PartialSums(seg)[i]
      BY <1>3, <2>1, SumsOfPrefix
    <2>3. QED
      BY <1>3, <2>2, PartialSumsMean
  <1>5. i \in 1..Chunks
    BY <1>1, PedersenAssumption
  <1>6. QED
    BY <1>2, <1>4, <1>5, PedersenAssumption DEF Window

Flipped(w) == [k \in 1..3 |-> IF k = 3 THEN 1 - w[3] ELSE w[k]]

LEMMA FlippedMeans ==
  ASSUME NEW w \in Window
  PROVE  Flipped(w) \in Window /\ Encoded(Flipped(w)) = 0 - Encoded(w)
  <1>1. w[1] \in {0, 1} /\ w[2] \in {0, 1} /\ w[3] \in {0, 1}
    BY DEF Window, Bit
  <1>2. Flipped(w)[1] = w[1] /\ Flipped(w)[2] = w[2] /\ Flipped(w)[3] = 1 - w[3]
    BY DEF Flipped
  <1>3. Encoded(Flipped(w)) = (1 + w[1] + 2 * w[2]) * (1 - 2 * (1 - w[3]))
    BY <1>2, Zenon DEF Encoded
  <1>4. (1 + w[1] + 2 * w[2]) * (1 - 2 * (1 - w[3])) = 0 - (1 + w[1] + 2 * w[2]) * (1 - 2 * w[3])
    BY <1>1
  <1>5. Flipped(w) \in Window
    BY <1>1 DEF Flipped, Window, Bit
  <1>6. QED
    BY <1>3, <1>4, <1>5, Zenon DEF Encoded

\* A sum is neither the next digit nor its opposite.
LEMMA DigitsDiffer ==
  ASSUME NEW seg \in Seq(Window), Len(seg) <= Chunks, NEW i \in 1..Len(seg)
  PROVE  (PartialSums(seg)[i - 1] - Digit(seg, i)) % Order # 0
  <1> DEFINE n == Len(seg)
             other == [j \in 1..n |-> IF j = i THEN Flipped(seg[i]) ELSE seg[j]]
             short == [j \in 1..(i - 1) |-> seg[j]]
  <1>1. n \in Nat /\ i - 1 \in Nat /\ \A j \in 1..n : seg[j] \in Window
    BY LenProperties, ElementOfSeq
  <1>2. other \in [1..n -> Window]
    BY <1>1, FlippedMeans
  <1>3. other \in Seq(Window) /\ Len(other) = n /\ other[i] = Flipped(seg[i])
    BY <1>1, <1>2, IsASeq
  <1>4. short \in [1..(i - 1) -> Window]
    BY <1>1
  <1>5. short \in Seq(Window) /\ Len(short) = i - 1
    BY <1>1, <1>4, IsASeq
  <1>6. \A j \in 1..(i - 1) : short[j] = seg[j] /\ short[j] = other[j]
    BY <1>1
  <1> HIDE DEF short, other
  <1>7. PartialSums(other)[i - 1] = PartialSums(seg)[i - 1]
    <2>1. Len(short) <= Len(seg) /\ Len(short) <= Len(other) /\ i - 1 \in 0..Len(short)
      BY <1>1, <1>3, <1>5
    <2>2. PartialSums(short)[i - 1] = PartialSums(seg)[i - 1]
      BY <1>5, <1>6, <2>1, SumsOfPrefix
    <2>3. PartialSums(short)[i - 1] = PartialSums(other)[i - 1]
      BY <1>3, <1>5, <1>6, <2>1, SumsOfPrefix
    <2>4. QED
      BY <2>2, <2>3
  <1>8. Digit(other, i) = 0 - Digit(seg, i) /\ Digit(seg, i) \in Int
    <2> DEFINE a == Encoded(seg[i])  w == Weight(i)
    <2>1. a \in Int /\ w \in Int
      <3>1. i \in Nat \ {0}
        BY <1>1
      <3>2. w \in Int
        BY <3>1, WeightPositive
      <3>3. QED
        BY <1>1, <3>2, EncodedMeans
    <2>2. Digit(other, i) = (0 - a) * w /\ Digit(seg, i) = a * w
      BY <1>1, <1>3, FlippedMeans DEF Digit
    <2> HIDE DEF a, w
    <2>3. QED
      BY <2>1, <2>2
  <1>9. PartialSums(other)[i] = PartialSums(other)[i - 1] + Digit(other, i)
    BY <1>3, PartialSumsMean
  <1>10. PartialSums(other)[i] % Order # 0
    BY <1>3, PartialSumsVanishNowhere
  <1>11. PartialSums(seg)[i - 1] \in Int
    BY <1>1, PartialSumsMean
  <1>12. PartialSums(other)[i] = PartialSums(seg)[i - 1] - Digit(seg, i)
    BY <1>7, <1>8, <1>9, <1>11
  <1>13. QED
    BY <1>10, <1>12

LEMMA DigitsVanishNowhere ==
  ASSUME NEW w \in Window, NEW i \in Nat \ {0}
  PROVE  (Encoded(w) * Weight(i)) % Order # 0
  <1> DEFINE a == Encoded(w)
  <1>1. a \in Int /\ Order \in Nat \ {0} /\ Order > 2
        /\ \A b, c \in 0..(Order - 1) : (b * c) % Order = 0 => b = 0 \/ c = 0
    BY EncodedMeans, OrderAssumption
  <1>2. a % Order # 0
    <2> DEFINE one == <<w>>
    <2>1. one \in Seq(Window) /\ Len(one) = 1 /\ one[1] = w
      OBVIOUS
    <2> HIDE DEF one
    <2>2. 1 <= Chunks /\ 1 \in 1..Len(one) /\ 1 - 1 = 0
      BY <2>1, PedersenAssumption
    <2>3. PartialSums(one)[1] = PartialSums(one)[0] + Digit(one, 1) /\ PartialSums(one)[0] = 0
      BY <2>1, <2>2, PartialSumsMean
    <2>4. Digit(one, 1) = a
      <3>1. Weight(1) = 1
        BY WeightPositive
      <3>2. Digit(one, 1) = a * 1
        BY <2>1, <3>1 DEF Digit
      <3>3. QED
        BY <1>1, <3>2
    <2>5. PartialSums(one)[1] = a
      BY <1>1, <2>3, <2>4
    <2>6. PartialSums(one)[1] % Order # 0
      BY <2>1, <2>2, PartialSumsVanishNowhere
    <2>7. QED
      BY <2>5, <2>6
  <1>3. ASSUME NEW k \in Nat  PROVE 2^k % Order # 0
    <2> DEFINE S == {j \in Nat : 2^j % Order # 0}
    <2>1. 0 \in S
      <3>1. 1 % Order # 0
        BY <1>1
      <3>2. QED
        BY <3>1, PowerZero
    <2>2. ASSUME NEW j \in Nat, j \in S  PROVE j + 1 \in S
      <3> DEFINE x == 2^j  two == 2
      <3>1. x \in Int /\ 2^(j + 1) = two * x /\ two \in Int
        BY PowerDoubles
      <3>2. two % Order # 0 /\ x % Order # 0
        BY <1>1, <2>2
      <3> HIDE DEF x, two
      <3>3. (two * x) % Order # 0
        BY <1>1, <3>1, <3>2, PrimeDivides
      <3>4. QED
        BY <3>1, <3>3
    <2> HIDE DEF S
    <2>3. k \in S
      BY <2>1, <2>2, SetInduction
    <2>4. QED
      BY <2>3 DEF S
  <1> DEFINE x == Weight(i)
  <1>4. x \in Int /\ x % Order # 0
    <2>1. 4 * (i - 1) \in Nat
      OBVIOUS
    <2>2. x \in Int
      BY WeightPositive
    <2>3. QED
      BY <1>3, <2>1, <2>2 DEF Weight
  <1> HIDE DEF a, x
  <1>5. (a * x) % Order # 0
    BY <1>1, <1>2, <1>4, PrimeDivides
  <1>6. QED
    BY <1>5 DEF a, x

------------------------------------------------------------------------------
(* The segments of the hash in the circuit, and the hash. *)

\* Every table holds the images of what a window may select, and the conditional
\* negation turns the image over.
LEMMA LookupMeans ==
  ASSUME NEW s \in 1..Len(Segments), NEW i \in 1..Chunks, NEW w \in Window
  PROVE  IsImage(Multiple(Encoded(w) * Weight(i), Segments[s]),
                 Lookup(w, generate_pedersen_circuit_generators[s][i]))
  <1> DEFINE g == Segments[s]  c == 1 + w[1] + 2 * w[2]  k == c * Weight(i)  p == HostMul(k, g)
             t == to_montgomery_coords(p)  d == Encoded(w) * Weight(i)
  <1>1. g \in Subgroup \ {Neutral} /\ g \in Subgroup
    BY PedersenAssumption, ElementOfSeq
  <1>2. /\ c \in 1..4 /\ w[3] \in Bit /\ Encoded(w) = (IF w[3] = 1 THEN 0 - c ELSE c)
        /\ i \in Nat \ {0} /\ Weight(i) \in Nat
    <2>1. i \in Nat \ {0}
      BY PedersenAssumption
    <2>2. QED
      BY <2>1, EncodedMeans, WeightPositive
  <1>3. Lookup(w, generate_pedersen_circuit_generators[s][i])
        = [x |-> t.x, y |-> IF w[3] = 1 THEN (0 - t.y) % P ELSE t.y]
    <2>1. generate_pedersen_circuit_generators[s][i][c] = t
      BY <1>2, Zenon DEF generate_pedersen_circuit_generators
    <2> HIDE DEF t
    <2>2. QED
      BY <2>1 DEF Lookup
  <1> HIDE DEF g, c
  <1>4. k \in Nat /\ k \in Int /\ d = (IF w[3] = 1 THEN 0 - k ELSE k)
    BY <1>2
  <1>5. k % Order # 0
    <2>1. d % Order # 0
      BY <1>2, DigitsVanishNowhere
    <2> HIDE DEF k, d
    <2>2. QED
      BY <1>4, <2>1, OppositeResidue
  <1> HIDE DEF k, d
  <1>6. p = Multiple(k, g) /\ p \in Subgroup \ {Neutral}
    BY <1>1, <1>4, <1>5, Multiples
  <1>7. Multiple(d, g) = IF w[3] = 1 THEN Negated(p) ELSE p
    BY <1>1, <1>4, <1>6, Multiples
  <1> HIDE DEF p
  <1>8. p \in Curve /\ p.u # 0
    BY <1>6, SubgroupNotFlat
  <1>9. IsImage(p, t)
    BY <1>8, HostImage
  <1> HIDE DEF t
  <1>10. IsImage(Negated(p), [x |-> t.x, y |-> (0 - t.y) % P])
    BY <1>8, <1>9, OppositeImage
  <1>11. t = [x |-> t.x, y |-> t.y]
    BY <1>9 DEF IsImage
  <1>12. IsImage(Multiple(d, g), Lookup(w, generate_pedersen_circuit_generators[s][i]))
    <2>1. CASE w[3] = 1
      BY <1>3, <1>7, <1>10, <2>1
    <2>2. CASE w[3] # 1
      BY <1>3, <1>7, <1>9, <1>11, <2>2
    <2>3. QED
      BY <2>1, <2>2
  <1>13. QED
    BY <1>12 DEF d, g

\* What the circuit holds after i windows of a segment.
Selected(seg, s, i) == Lookup(seg[i], generate_pedersen_circuit_generators[s][i])
Accumulated(seg, s, i) == to_montgomery_coords(Multiple(PartialSums(seg)[i], Segments[s]))

LEMMA AccumulatedIsImage ==
  ASSUME NEW s \in 1..Len(Segments), NEW seg \in Seq(Window), Len(seg) <= Chunks, NEW i \in 1..Len(seg)
  PROVE  LET p == Multiple(PartialSums(seg)[i], Segments[s])
         IN  /\ p \in Subgroup \ {Neutral} /\ p \in Curve /\ p.u # 0
             /\ IsImage(p, Accumulated(seg, s, i))
             /\ \A m : IsImage(p, m) => m = Accumulated(seg, s, i)
  <1> DEFINE e == PartialSums(seg)[i]  g == Segments[s]  p == Multiple(e, g)
  <1>1. g \in Subgroup \ {Neutral} /\ g \in Subgroup
    BY PedersenAssumption, ElementOfSeq
  <1>2. e \in Int /\ e % Order # 0
    <2>1. i \in 0..Len(seg)
      BY LenProperties
    <2>2. QED
      BY <2>1, PartialSumsMean, PartialSumsVanishNowhere
  <1>3. Accumulated(seg, s, i) = to_montgomery_coords(p)
    BY Zenon DEF Accumulated
  <1> HIDE DEF e, g
  <1>4. p \in Subgroup \ {Neutral}
    BY <1>1, <1>2, Multiples
  <1> HIDE DEF p
  <1>5. p \in Curve /\ p.u # 0
    BY <1>4, SubgroupNotFlat
  <1>6. IsImage(p, Accumulated(seg, s, i))
    BY <1>3, <1>5, HostImage
  <1>7. \A m : IsImage(p, m) => m = Accumulated(seg, s, i)
    BY <1>5, <1>6, ImageIsUnique
  <1>8. QED
    BY <1>4, <1>5, <1>6, <1>7 DEF p, e, g

\* The first window, and each addition: never of equal or opposite points.
LEMMA FirstWindow ==
  ASSUME NEW s \in 1..Len(Segments), NEW seg \in Seq(Window), Len(seg) <= Chunks, 1 <= Len(seg)
  PROVE  Selected(seg, s, 1) = Accumulated(seg, s, 1)
  <1>1. 1 \in 1..Len(seg) /\ 1 \in 1..Chunks /\ 1 - 1 = 0
    BY LenProperties, PedersenAssumption
  <1>2. seg[1] \in Window /\ Digit(seg, 1) \in Int /\ PartialSums(seg)[1] = 0 + Digit(seg, 1)
    BY <1>1, PartialSumsMean
  <1>3. IsImage(Multiple(Digit(seg, 1), Segments[s]), Selected(seg, s, 1))
    BY <1>1, <1>2, LookupMeans, Zenon DEF Digit, Selected
  <1>4. PartialSums(seg)[1] = Digit(seg, 1)
    BY <1>2
  <1>5. QED
    BY <1>1, <1>3, <1>4, AccumulatedIsImage

LEMMA NextWindow ==
  ASSUME NEW s \in 1..Len(Segments), NEW seg \in Seq(Window), Len(seg) <= Chunks,
         NEW i \in 2..Len(seg)
  PROVE  MontgomeryAdd(Selected(seg, s, i), Accumulated(seg, s, i - 1)) = {Accumulated(seg, s, i)}
  <1> DEFINE g == Segments[s]  d == Digit(seg, i)  e == PartialSums(seg)[i - 1]  f == PartialSums(seg)[i]
             p == Multiple(d, g)  q == Multiple(e, g)  r == Multiple(f, g)
             m == Selected(seg, s, i)  n == Accumulated(seg, s, i - 1)  k == Accumulated(seg, s, i)
  <1>1. Len(seg) \in Nat /\ i \in 1..Len(seg) /\ i - 1 \in 1..Len(seg) /\ i - 1 \in 0..Len(seg) /\ i \in 1..Chunks
        /\ i \in Nat \ {0}
    BY LenProperties, PedersenAssumption
  <1>2. g \in Subgroup \ {Neutral} /\ g \in Subgroup
    BY PedersenAssumption, ElementOfSeq
  <1>3. seg[i] \in Window /\ d \in Int /\ e \in Int /\ f = e + d
    BY <1>1, PartialSumsMean
  <1>4. d % Order # 0 /\ (e - d) % Order # 0 /\ f % Order # 0
    <2>1. d % Order # 0
      BY <1>1, <1>3, DigitsVanishNowhere DEF Digit
    <2>2. QED
      BY <1>1, <2>1, DigitsDiffer, PartialSumsVanishNowhere
  <1>5. IsImage(p, m)
    BY <1>1, <1>3, LookupMeans, Zenon DEF Digit, Selected
  <1>6. IsImage(q, n) /\ q \in Curve /\ q.u # 0
    BY <1>1, AccumulatedIsImage
  <1>7. r \in Curve /\ r.u # 0 /\ \A j : IsImage(r, j) => j = k
    BY <1>1, AccumulatedIsImage
  <1> HIDE DEF g, d, e, f, m, n, k
  <1>8. p \in Subgroup \ {Neutral} /\ r # Neutral
    BY <1>2, <1>3, <1>4, Multiples
  <1>9. p \in Curve /\ p.u # 0
    BY <1>8, SubgroupNotFlat
  <1>10. HostAdd(p, q) = r
    <2>1. d + e = f
      BY <1>3
    <2>2. Multiple(d + e, g) = HostAdd(p, q)
      BY <1>2, <1>3, Multiples
    <2>3. QED
      BY <2>1, <2>2
  <1>11. q # Negated(p)
    BY <1>8, <1>9, <1>10, NeutralAndOpposite
  <1>12. q # p
    <2>1. 0 - d \in Int /\ e + (0 - d) = e - d /\ e - d \in Int
      BY <1>3
    <2>2. Multiple(e + (0 - d), g) = HostAdd(q, Multiple(0 - d, g))
      BY <1>2, <1>3, <2>1, Multiples
    <2>3. Multiple(0 - d, g) = Negated(p)
      BY <1>2, <1>3, Multiples
    <2>4. Multiple(e - d, g) # Neutral
      BY <1>2, <1>4, <2>1, Multiples
    <2>5. HostAdd(q, Negated(p)) # Neutral
      BY <2>1, <2>2, <2>3, <2>4
    <2>6. QED
      BY <2>5, <1>9, NeutralAndOpposite
  <1> HIDE DEF p, q, r
  <1>13. \E j : MontgomeryAdd(m, n) = {j} /\ IsImage(HostAdd(p, q), j)
    BY <1>5, <1>6, <1>7, <1>9, <1>10, <1>11, <1>12, MontgomeryAddMeans
  <1>14. MontgomeryAdd(m, n) = {k}
    BY <1>7, <1>10, <1>13
  <1>15. QED
    BY <1>14 DEF m, n, k

\* Segments are runs of at most Chunks windows, and none is empty.
LEMMA SegmentsMean ==
  ASSUME NEW windows \in Seq(Window), NEW s \in 1..SegmentCount(windows)
  PROVE  SegmentOf(windows, s) \in Seq(Window) /\ Len(SegmentOf(windows, s)) \in 1..Chunks
  <1> DEFINE C == Chunks  W == Len(windows)  K == (W + C - 1) \div C  a == C * (s - 1) + 1  b == C * s
             e == IF b < W THEN b ELSE W
  <1>1. C \in Nat \ {0} /\ W \in Nat
    BY PedersenAssumption, LenProperties
  <1>2. s \in 1..K /\ SegmentOf(windows, s) = SubSeq(windows, a, e)
    BY Zenon DEF SegmentCount, SegmentOf
  <1> HIDE DEF C, W
  <1>3. K \in Nat /\ C * K <= W + C - 1 /\ s \in Nat
    <2>1. K \in Int /\ K >= 0 /\ C * K <= W + C - 1
      BY <1>1
    <2>2. QED
      BY <1>2, <2>1
  <1> HIDE DEF K
  <1>4. a \in Nat \ {0} /\ b \in Nat /\ b - a + 1 = C /\ a <= W /\ a <= b
    <2>1. s - 1 \in Nat /\ s - 1 <= K - 1
      BY <1>2, <1>3
    <2>2. C * (s - 1) <= C * (K - 1)
      BY <1>1, <1>3, <2>1
    <2>3. C * (K - 1) = C * K - C /\ C * s = C * (s - 1) + C
      BY <1>1, <1>3
    <2>4. C * (s - 1) \in Nat
      BY <1>1, <2>1
    <2>5. QED
      BY <1>1, <1>3, <2>2, <2>3, <2>4
  <1> HIDE DEF a, b
  <1>5. e \in Nat /\ e - a + 1 \in 1..C /\ e <= W /\ a <= e
    BY <1>1, <1>4
  <1> HIDE DEF e
  <1>6. \A i \in a..e : windows[i] \in Window
    <2>1. \A i \in a..e : i \in 1..W
      BY <1>1, <1>4, <1>5
    <2>2. QED
      BY <2>1, ElementOfSeq DEF W
  <1>7. SubSeq(windows, a, e) \in Seq(Window) /\ Len(SubSeq(windows, a, e)) = e - a + 1
    <2>1. a \in Int /\ e \in Int
      BY <1>4, <1>5
    <2>2. QED
      BY <1>5, <1>6, <2>1, SubSeqProperties
  <1>8. QED
    BY <1>2, <1>5, <1>7 DEF C

\* The circuit's loop over the windows of a segment.
AccRow(acc, seg, s, i) ==
  IF i = 1 THEN {Selected(seg, s, 1)} ELSE UNION {MontgomeryAdd(Selected(seg, s, i), p) : p \in acc[i - 1]}
AccTable(seg, s) == CHOOSE acc : acc = [i \in 1..Len(seg) |-> AccRow(acc, seg, s, i)]

LEMMA AccTableMeans ==
  ASSUME NEW s \in 1..Len(Segments), NEW seg \in Seq(Window), Len(seg) <= Chunks
  PROVE  \A i \in 1..Len(seg) : AccTable(seg, s)[i] = {Accumulated(seg, s, i)}
  <1> DEFINE n == Len(seg)  Row(acc, i) == AccRow(acc, seg, s, i)  t == AccTable(seg, s)
             g == [i \in 1..n |-> {Accumulated(seg, s, i)}]
  <1>1. n \in Nat
    BY LenProperties
  <1>2. ASSUME NEW acc, NEW i \in 1..n, i > 1 => acc[i - 1] = {Accumulated(seg, s, i - 1)}
        PROVE  Row(acc, i) = {Accumulated(seg, s, i)}
    <2>1. CASE i = 1
      <3>1. Selected(seg, s, 1) = Accumulated(seg, s, 1)
        BY <1>1, FirstWindow
      <3>2. QED
        BY <2>1, <3>1 DEF AccRow
    <2>2. CASE i # 1
      <3>1. i \in 2..n /\ i > 1
        BY <1>1, <2>2
      <3>2. MontgomeryAdd(Selected(seg, s, i), Accumulated(seg, s, i - 1)) = {Accumulated(seg, s, i)}
        BY <3>1, NextWindow
      <3>3. Row(acc, i) = UNION {MontgomeryAdd(Selected(seg, s, i), p) : p \in {Accumulated(seg, s, i - 1)}}
        BY <1>2, <2>2, <3>1, Zenon DEF AccRow
      <3>4. QED
        BY <3>2, <3>3
    <2>3. QED
      BY <2>1, <2>2
  <1>3. g = [i \in 1..n |-> Row(g, i)]
    <2>1. ASSUME NEW i \in 1..n  PROVE Row(g, i) = {Accumulated(seg, s, i)}
      <3>1. i > 1 => i - 1 \in 1..n
        BY <1>1
      <3>2. i > 1 => g[i - 1] = {Accumulated(seg, s, i - 1)}
        BY <3>1, Zenon
      <3> HIDE DEF g
      <3>3. QED
        BY <1>2, <3>2
    <2>2. QED
      BY <2>1, Zenon
  <1>4. t = [i \in 1..n |-> Row(t, i)]
    <2>1. \E acc : acc = [i \in 1..n |-> Row(acc, i)]
      <3> HIDE DEF g
      <3>1. QED
        BY <1>3
    <2>2. QED
      BY <2>1, Zenon DEF AccTable
  <1> HIDE DEF t
  <1>5. \A i \in 1..n : t[i] = Row(t, i)
    BY <1>4, Zenon
  <1> DEFINE S == {i \in Nat : i + 1 <= n => t[i + 1] = {Accumulated(seg, s, i + 1)}}
  <1>6. 0 \in S
    <2>1. SUFFICES ASSUME 0 + 1 <= n  PROVE t[0 + 1] = {Accumulated(seg, s, 0 + 1)}
      OBVIOUS
    <2>2. 0 + 1 \in 1..n /\ 0 + 1 = 1 /\ ~ (1 > 1)
      BY <1>1, <2>1
    <2>3. QED
      BY <1>2, <1>5, <2>2
  <1>7. ASSUME NEW i \in Nat, i \in S  PROVE i + 1 \in S
    <2>1. SUFFICES ASSUME (i + 1) + 1 <= n  PROVE t[(i + 1) + 1] = {Accumulated(seg, s, (i + 1) + 1)}
      OBVIOUS
    <2> DEFINE j == (i + 1) + 1
    <2>2. j \in 1..n /\ j - 1 = i + 1 /\ i + 1 <= n
      BY <1>1, <2>1
    <2>3. t[i + 1] = {Accumulated(seg, s, i + 1)}
      BY <1>7, <2>2
    <2>4. t[j - 1] = {Accumulated(seg, s, j - 1)}
      BY <2>2, <2>3, Zenon
    <2> HIDE DEF j
    <2>5. t[j] = {Accumulated(seg, s, j)}
      BY <1>2, <1>5, <2>2, <2>4
    <2>6. QED
      BY <2>5 DEF j
  <1> HIDE DEF S
  <1>8. Nat \subseteq S
    BY <1>6, <1>7, SetInduction
  <1>9. ASSUME NEW i \in 1..n  PROVE t[i] = {Accumulated(seg, s, i)}
    <2>1. i - 1 \in S /\ (i - 1) + 1 = i /\ i <= n
      BY <1>1, <1>8
    <2>2. QED
      BY <2>1 DEF S
  <1>10. QED
    BY <1>9 DEF t

\* One segment in the circuit: the host's multiple of its generator.
LEMMA SegmentResultsMean ==
  ASSUME NEW windows \in Seq(Window), NEW s \in 1..SegmentCount(windows), s <= Len(Segments)
  PROVE  LET p == HostMul(SegmentSum(SegmentOf(windows, s)) % Order, Segments[s])
         IN  SegmentResults(windows, s) = {p} /\ p \in Curve
  <1> DEFINE seg == SegmentOf(windows, s)  n == Len(seg)  p == Multiple(PartialSums(seg)[n], Segments[s])
  <1>1. seg \in Seq(Window) /\ n \in 1..Chunks
    BY SegmentsMean
  <1>2. s \in 1..Len(Segments) /\ n <= Chunks /\ n \in 1..n
    <2>1. s \in Nat /\ Len(Segments) \in Nat /\ Chunks \in Nat
      BY PedersenAssumption, LenProperties
    <2>2. QED
      BY <1>1, <2>1
  <1>3. SegmentResults(windows, s) = UNION {into_edwards(m) : m \in AccTable(seg, s)[n]}
    BY Zenon DEF SegmentResults, AccTable, AccRow, Selected
  <1> HIDE DEF seg
  <1>4. AccTable(seg, s)[n] = {Accumulated(seg, s, n)}
    BY <1>1, <1>2, AccTableMeans
  <1>5. p \in Curve /\ p.u # 0 /\ IsImage(p, Accumulated(seg, s, n))
    BY <1>1, <1>2, AccumulatedIsImage
  <1>6. SegmentSum(seg) = PartialSums(seg)[n]
    BY <1>1, PartialSumsMean
  <1> HIDE DEF n
  <1>7. p = HostMul(SegmentSum(seg) % Order, Segments[s])
    BY <1>6 DEF Multiple
  <1> HIDE DEF p
  <1>8. into_edwards(Accumulated(seg, s, n)) = {p}
    BY <1>5, IntoEdwardsMeans
  <1>9. SegmentResults(windows, s) = {p}
    BY <1>3, <1>4, <1>8
  <1>10. QED
    BY <1>5, <1>7, <1>9 DEF seg

\* What the generators can take falls into windows, at least one and at most as
\* many segments of them as there are generators.
LEMMA WindowsMean ==
  ASSUME NEW bits \in Seq(Bit), Len(bits) >= 1, Len(bits) <= 3 * (Chunks * Len(Segments))
  PROVE  Windows(bits) \in Seq(Window) /\ SegmentCount(Windows(bits)) \in 1..Len(Segments)
  <1> DEFINE n == Len(bits)  W == (n + 2) \div 3  C == Chunks  G == Len(Segments)  M == C * G
             K == (W + C - 1) \div C
  <1>1. n \in Nat /\ n >= 1 /\ C \in Nat \ {0} /\ G \in Nat
    BY PedersenAssumption, LenProperties
  <1>2. M \in Nat /\ n <= 3 * M
    BY <1>1
  <1> HIDE DEF M
  <1>3. W \in Nat /\ W >= 1 /\ W <= M
    BY <1>1, <1>2
  <1>4. Windows(bits) \in [1..W -> Window]
    <2>1. ASSUME NEW w \in 1..W, NEW i \in 1..3
          PROVE  (IF 3 * (w - 1) + i <= n THEN bits[3 * (w - 1) + i] ELSE 0) \in Bit
      <3>1. 3 * (w - 1) + i \in Nat \ {0}
        BY <1>3
      <3>2. 3 * (w - 1) + i <= n => 3 * (w - 1) + i \in 1..n
        BY <1>1, <3>1
      <3>3. \A j \in 1..n : bits[j] \in Bit
        BY ElementOfSeq
      <3>4. QED
        BY <3>2, <3>3 DEF Bit
    <2> HIDE DEF W
    <2>2. [w \in 1..W |-> [i \in 1..3 |-> IF 3 * (w - 1) + i <= n THEN bits[3 * (w - 1) + i] ELSE 0]]
          \in [1..W -> [1..3 -> Bit]]
      BY <2>1
    <2>3. QED
      BY <2>2, Zenon DEF Windows, Window, W
  <1>5. Windows(bits) \in Seq(Window) /\ Len(Windows(bits)) = W
    BY <1>3, <1>4, IsASeq
  <1> HIDE DEF n, W
  <1>6. SegmentCount(Windows(bits)) = K
    BY <1>5, Zenon DEF SegmentCount
  <1> HIDE DEF C, G
  <1>7. K \in Int /\ C * K <= W + C - 1 /\ W + C - 1 < C * K + C
    <2> DEFINE V == W + C - 1
    <2>1. V \in Nat
      BY <1>1, <1>3
    <2> HIDE DEF V
    <2>2. V \div C \in Int /\ C * (V \div C) <= V /\ V < C * (V \div C) + C
      BY <1>1, <2>1
    <2>3. QED
      BY <2>2 DEF V
  <1> HIDE DEF K
  <1>8. K >= 1
    <2>1. C * K + C = C * (K + 1)
      BY <1>1, <1>7
    <2>2. C < C * (K + 1)
      BY <1>1, <1>3, <1>7, <2>1
    <2>3. ASSUME K + 1 <= 1  PROVE C * (K + 1) <= C
      BY <1>1, <1>7, <2>3
    <2>4. QED
      BY <1>1, <1>7, <2>2, <2>3
  <1>9. K <= G
    <2>1. ASSUME G + 1 <= K  PROVE C * (G + 1) <= C * K
      BY <1>1, <1>7, <2>1
    <2>2. C * (G + 1) = M + C
      BY <1>1 DEF M
    <2>3. QED
      BY <1>1, <1>2, <1>3, <1>7, <2>1, <2>2
  <1>10. QED
    BY <1>5, <1>6, <1>7, <1>8, <1>9 DEF G

\* The loops over the segments, on the host and in the circuit.
Part(windows, s) == HostMul(SegmentSum(SegmentOf(windows, s)) % Order, Segments[s])
HostRow(sum, windows, s) == IF s = 0 THEN Neutral ELSE HostAdd(sum[s - 1], Part(windows, s))
HostTable(windows) == CHOOSE sum : sum = [s \in 0..SegmentCount(windows) |-> HostRow(sum, windows, s)]
CircuitRow(acc, windows, s) ==
  IF s > Len(Segments) THEN {}
  ELSE IF s = 1 THEN SegmentResults(windows, 1)
  ELSE UNION {Add(p, q) : p \in SegmentResults(windows, s), q \in acc[s - 1]}
CircuitTable(windows) ==
  CHOOSE acc : acc = [s \in 1..SegmentCount(windows) |-> CircuitRow(acc, windows, s)]

LEMMA HostTableMeans ==
  ASSUME NEW windows \in Seq(Window), SegmentCount(windows) \in 1..Len(Segments)
  PROVE  /\ HostTable(windows)[0] = Neutral
         /\ \A s \in 0..SegmentCount(windows) : HostTable(windows)[s] \in Curve
         /\ \A s \in 1..SegmentCount(windows) :
              /\ SegmentResults(windows, s) = {Part(windows, s)} /\ Part(windows, s) \in Curve
              /\ HostTable(windows)[s] = HostAdd(HostTable(windows)[s - 1], Part(windows, s))
  <1> DEFINE n == SegmentCount(windows)  t == HostTable(windows)
             step == [s \in 1..n |-> [p \in Curve |-> HostAdd(p, Part(windows, s))]]
  <1>1. n \in Nat /\ n <= Len(Segments) /\ Len(Segments) \in Nat
    BY PedersenAssumption, LenProperties
  <1>2. ASSUME NEW s \in 1..n
        PROVE  SegmentResults(windows, s) = {Part(windows, s)} /\ Part(windows, s) \in Curve
    <2>1. s <= Len(Segments)
      BY <1>1
    <2>2. QED
      BY <2>1, SegmentResultsMean DEF Part
  <1> HIDE DEF n
  <1>3. step \in [1..n -> [Curve -> Curve]]
    <2>1. \A s \in 1..n : \A p \in Curve : HostAdd(p, Part(windows, s)) \in Curve
      BY <1>2, SumOnCurve
    <2>2. QED
      BY <2>1
  <1>4. PICK f \in [0..n -> Curve] : IsTable(f, n, Neutral, step)
    <2> HIDE DEF step
    <2>1. QED
      BY <1>1, <1>3, NeutralOnCurve, Iterates
  <1>5. ASSUME NEW s \in 0..n
        PROVE  (IF s = 0 THEN Neutral ELSE step[s][f[s - 1]]) = HostRow(f, windows, s)
    <2>1. CASE s = 0
      BY <2>1 DEF HostRow
    <2>2. CASE s # 0
      <3>1. s \in 1..n /\ s - 1 \in 0..n
        BY <1>1, <2>2
      <3>2. f[s - 1] \in Curve
        BY <3>1
      <3>3. step[s][f[s - 1]] = HostAdd(f[s - 1], Part(windows, s))
        BY <3>1, <3>2
      <3> HIDE DEF step
      <3>4. QED
        BY <2>2, <3>3 DEF HostRow
    <2>3. QED
      BY <2>1, <2>2
  <1> HIDE DEF step
  <1>6. f = [s \in 0..n |-> HostRow(f, windows, s)]
    BY <1>4, <1>5, Zenon DEF IsTable
  <1>7. t = [s \in 0..n |-> HostRow(t, windows, s)]
    BY <1>6, Zenon DEF HostTable, n
  <1> HIDE DEF t
  <1>8. \A s \in 0..n : t[s] = HostRow(t, windows, s)
    BY <1>7, Zenon
  <1>9. t[0] = Neutral
    <2>1. 0 \in 0..n
      BY <1>1
    <2>2. QED
      BY <1>8, <2>1 DEF HostRow
  <1>10. ASSUME NEW s \in 1..n  PROVE t[s] = HostAdd(t[s - 1], Part(windows, s))
    <2>1. s \in 0..n /\ s # 0
      BY <1>1
    <2>2. QED
      BY <1>8, <2>1 DEF HostRow
  <1> DEFINE S == {s \in Nat : s <= n => t[s] \in Curve}
  <1>11. 0 \in S
    BY <1>9, NeutralOnCurve
  <1>12. ASSUME NEW s \in Nat, s \in S  PROVE s + 1 \in S
    <2>1. SUFFICES ASSUME s + 1 <= n  PROVE t[s + 1] \in Curve
      OBVIOUS
    <2>2. s + 1 \in 1..n /\ (s + 1) - 1 = s /\ t[s] \in Curve
      BY <1>1, <1>12, <2>1
    <2>3. t[s + 1] = HostAdd(t[s], Part(windows, s + 1))
      BY <1>10, <2>2
    <2>4. QED
      BY <1>2, <2>2, <2>3, SumOnCurve
  <1> HIDE DEF S
  <1>13. Nat \subseteq S
    BY <1>11, <1>12, SetInduction
  <1>14. \A s \in 0..n : t[s] \in Curve
    BY <1>1, <1>13 DEF S
  <1>15. QED
    BY <1>2, <1>9, <1>10, <1>14 DEF t, n

\* The circuit holds after every segment what the host holds, and nothing else.
LEMMA CircuitTableMeans ==
  ASSUME NEW windows \in Seq(Window), SegmentCount(windows) \in 1..Len(Segments)
  PROVE  \A s \in 1..SegmentCount(windows) : CircuitTable(windows)[s] = {HostTable(windows)[s]}
  <1> DEFINE n == SegmentCount(windows)  h == HostTable(windows)  t == CircuitTable(windows)
             g == [s \in 1..n |-> {h[s]}]
  <1>1. n \in Nat /\ n <= Len(Segments) /\ Len(Segments) \in Nat
    BY PedersenAssumption, LenProperties
  <1>2. /\ h[0] = Neutral
        /\ \A s \in 0..n : h[s] \in Curve
        /\ \A s \in 1..n : /\ SegmentResults(windows, s) = {Part(windows, s)} /\ Part(windows, s) \in Curve
                           /\ h[s] = HostAdd(h[s - 1], Part(windows, s))
    BY HostTableMeans
  <1>3. t = CHOOSE acc : acc = [s \in 1..n |-> CircuitRow(acc, windows, s)]
    BY Zenon DEF CircuitTable
  <1> HIDE DEF n, h, t
  <1>4. ASSUME NEW acc, NEW s \in 1..n, s > 1 => acc[s - 1] = {h[s - 1]}
        PROVE  CircuitRow(acc, windows, s) = {h[s]}
    <2> DEFINE p == Part(windows, s)
    <2>1. ~ (s > Len(Segments)) /\ s - 1 \in 0..n
      BY <1>1
    <2>2. SegmentResults(windows, s) = {p} /\ p \in Curve /\ h[s] = HostAdd(h[s - 1], p) /\ h[s - 1] \in Curve
      BY <1>2, <2>1
    <2> HIDE DEF p
    <2>3. CASE s = 1
      <3>1. h[s - 1] = Neutral
        BY <1>2, <2>3
      <3>2. h[s] = p
        <4>1. HostAdd(Neutral, p) = HostAdd(p, Neutral)
          BY <2>2, NeutralOnCurve, SumCommutes
        <4>2. QED
          BY <2>2, <3>1, <4>1, NeutralAndOpposite
      <3>3. QED
        BY <2>1, <2>2, <2>3, <3>2 DEF CircuitRow
    <2>4. CASE s # 1
      <3>1. s > 1
        BY <2>4, <1>1
      <3>2. Add(p, h[s - 1]) = {h[s]}
        BY <2>2, AddMeans, SumCommutes
      <3>3. CircuitRow(acc, windows, s) = UNION {Add(i, j) : i \in {p}, j \in {h[s - 1]}}
        BY <1>4, <2>1, <2>2, <2>4, <3>1 DEF CircuitRow
      <3>4. QED
        BY <3>2, <3>3
    <2>5. QED
      BY <2>3, <2>4
  <1>5. g = [s \in 1..n |-> CircuitRow(g, windows, s)]
    <2>1. ASSUME NEW s \in 1..n  PROVE CircuitRow(g, windows, s) = {h[s]}
      <3>1. s > 1 => s - 1 \in 1..n
        BY <1>1
      <3>2. s > 1 => g[s - 1] = {h[s - 1]}
        BY <3>1, Zenon
      <3> HIDE DEF g
      <3>3. QED
        BY <1>4, <3>2
    <2>2. QED
      BY <2>1, Zenon
  <1>6. t = [s \in 1..n |-> CircuitRow(t, windows, s)]
    <2>1. \E acc : acc = [s \in 1..n |-> CircuitRow(acc, windows, s)]
      <3> HIDE DEF g
      <3>1. QED
        BY <1>5
    <2>2. QED
      BY <1>3, <2>1, Zenon
  <1>7. \A s \in 1..n : t[s] = CircuitRow(t, windows, s)
    BY <1>6, Zenon
  <1> DEFINE S == {s \in Nat : s # 0 /\ s <= n => t[s] = {h[s]}}
  <1>8. 0 \in S
    OBVIOUS
  <1>9. ASSUME NEW s \in Nat, s \in S  PROVE s + 1 \in S
    <2> DEFINE k == s + 1
    <2>1. SUFFICES ASSUME k <= n  PROVE t[k] = {h[k]}
      OBVIOUS
    <2>2. k \in 1..n /\ k - 1 = s /\ (k > 1 => s # 0 /\ s <= n)
      BY <1>1, <2>1
    <2>3. k > 1 => t[k - 1] = {h[k - 1]}
      BY <1>9, <2>2
    <2> HIDE DEF k
    <2>4. QED
      BY <1>4, <1>7, <2>2, <2>3
  <1> HIDE DEF S
  <1>10. Nat \subseteq S
    BY <1>8, <1>9, SetInduction
  <1>11. \A s \in 1..n : t[s] = {h[s]}
    BY <1>1, <1>10 DEF S
  <1>12. QED
    BY <1>11 DEF t, h, n

\* The Pedersen hash in the circuit leaves a prover the host's result and no other,
\* and the honest prover never meets an exceptional case of the incomplete addition,
\* for every input the generators can take.
THEOREM PedersenHashIsForced ==
  \A person, bits \in Seq(Bit) :
    LET n == Len(person) + Len(bits)
    IN  1 <= n /\ n <= 3 * (Chunks * Len(Segments)) =>
          /\ pedersen_hash(person, bits) = {HostPedersen(person, bits)}
          /\ HostPedersen(person, bits) \in Curve
  <1> SUFFICES ASSUME NEW person \in Seq(Bit), NEW bits \in Seq(Bit),
                      1 <= Len(person) + Len(bits),
                      Len(person) + Len(bits) <= 3 * (Chunks * Len(Segments))
               PROVE  /\ pedersen_hash(person, bits) = {HostPedersen(person, bits)}
                      /\ HostPedersen(person, bits) \in Curve
    OBVIOUS
  <1> DEFINE all == person \o bits  windows == Windows(all)  n == SegmentCount(windows)
  <1>1. all \in Seq(Bit) /\ Len(all) = Len(person) + Len(bits)
    BY ConcatProperties
  <1>2. windows \in Seq(Window) /\ n \in 1..Len(Segments)
    <2> HIDE DEF all
    <2>1. Len(all) >= 1 /\ Len(all) <= 3 * (Chunks * Len(Segments))
      BY <1>1, LenProperties
    <2>2. QED
      BY <1>1, <2>1, WindowsMean
  <1>3. HostPedersen(person, bits) = HostTable(windows)[n]
    BY Zenon DEF HostPedersen, HostTable, HostRow, Part
  <1>4. pedersen_hash(person, bits) = CircuitTable(windows)[n]
    BY DEF pedersen_hash, CircuitTable, CircuitRow
  <1> HIDE DEF windows
  <1>5. n \in 0..n /\ n \in 1..n
    BY <1>2, LenProperties, PedersenAssumption
  <1>6. HostTable(windows)[n] \in Curve
    BY <1>2, <1>5, HostTableMeans
  <1>7. CircuitTable(windows)[n] = {HostTable(windows)[n]}
    BY <1>2, <1>5, CircuitTableMeans
  <1>8. QED
    BY <1>3, <1>4, <1>6, <1>7

------------------------------------------------------------------------------
(* Commitments, nullifiers and types. *)

\* The strict decomposition of the circuit leaves one encoding of a point, the
\* host's.
LEMMA ReprMeans ==
  ASSUME NEW p \in Curve
  PROVE  repr(p) = {ToBytes(p)} /\ ToBytes(p) \in Bytes
  <1> DEFINE u == p.u  v == p.v
  <1>1. P \in Nat /\ P > 2 /\ u \in Field /\ v \in Field /\ FieldBits \in Nat /\ P <= 2^FieldBits
    BY PointMeans, FieldAssumption, CurveAssumption
  <1>2. FieldBits >= 1
    <2>1. ASSUME FieldBits = 0  PROVE FALSE
      <3>1. 2^FieldBits = 1
        BY <2>1, PowerZero
      <3>2. QED
        BY <1>1, <3>1
    <2>2. QED
      BY <1>1, <2>1
  <1>3. ASSUME NEW x \in Field
        PROVE  /\ to_bits_le_strict(x) = {BitsOf(x, FieldBits)} /\ x \in Nat
               /\ BitsOf(x, FieldBits) \in Seq(Bit) /\ Len(BitsOf(x, FieldBits)) = FieldBits
               /\ BitsOf(x, FieldBits)[1] = x % 2 /\ x % 2 \in Bit
    <2>1. x \in Nat /\ x < P /\ ~ (x + P < P)
      BY <1>1 DEF Field
    <2>2. {z \in {x, x + P} : z < P} = {x}
      BY <2>1
    <2>3. to_bits_le_strict(x) = {BitsOf(x, FieldBits)}
      BY <2>2 DEF to_bits_le_strict
    <2>4. /\ Len(BitsOf(x, FieldBits)) = FieldBits /\ BitsOf(x, FieldBits) \in Seq(Bit)
          /\ \A i \in 1..FieldBits : BitsOf(x, FieldBits)[i] = (x \div 2^(i - 1)) % 2
      BY <1>1, <2>1, BitsMean DEF Bit
    <2>5. BitsOf(x, FieldBits)[1] = x % 2
      <3>1. 1 \in 1..FieldBits /\ 1 - 1 = 0 /\ x \div 1 = x
        BY <1>1, <1>2, <2>1
      <3>2. BitsOf(x, FieldBits)[1] = (x \div 2^0) % 2
        BY <2>4, <3>1
      <3>3. QED
        BY <3>1, <3>2, PowerZero
    <2>6. x % 2 \in Bit
      BY <2>1 DEF Bit
    <2>7. QED
      BY <2>1, <2>3, <2>4, <2>5, <2>6
  <1> HIDE DEF u, v
  <1>4. repr(p) = {Append(BitsOf(v, FieldBits), u % 2)}
    <2>1. repr(p) = {Append(i, j[1]) : i \in to_bits_le_strict(v), j \in to_bits_le_strict(u)}
      BY DEF repr, u, v
    <2>2. repr(p) = {Append(i, j[1]) : i \in {BitsOf(v, FieldBits)}, j \in {BitsOf(u, FieldBits)}}
      BY <1>1, <1>3, <2>1
    <2>3. QED
      BY <1>1, <1>3, <2>2
  <1>5. ToBytes(p) = Append(BitsOf(v, FieldBits), u % 2)
    BY DEF ToBytes, u, v
  <1>6. Append(BitsOf(v, FieldBits), u % 2) \in [1..(FieldBits + 1) -> Bit]
    <2> DEFINE s == BitsOf(v, FieldBits)  b == u % 2
    <2>1. s \in Seq(Bit) /\ b \in Bit /\ Len(s) = FieldBits
      BY <1>1, <1>3
    <2> HIDE DEF s, b
    <2>2. Append(s, b) \in Seq(Bit) /\ Len(Append(s, b)) = FieldBits + 1
      BY <2>1, AppendProperties
    <2>3. Append(s, b) \in [1..Len(Append(s, b)) -> Bit]
      BY <2>2, LenProperties
    <2>4. QED
      BY <2>2, <2>3 DEF s, b
  <1>7. QED
    BY <1>4, <1>5, <1>6 DEF Bytes

\* What the host commits to and what it nullifies fits the generators.
LEMMA CommitmentsMean ==
  ASSUME NEW dob \in 0..(2^DobBits - 1), NEW r \in Seq(Bit), IsOk(pedersen_commit_dob_validated(dob, r))
  PROVE  /\ CircuitCommit(BitsOf(dob, DobBits), r) = {pedersen_commit_dob_validated(dob, r).ok}
         /\ pedersen_commit_dob_validated(dob, r).ok \in Bytes
  <1> DEFINE bits == BitsOf(dob, DobBits) \o r  p == HostPedersen(NoteCommitment, bits)
  <1>1. /\ Len(r) \in Nat /\ Len(r) <= MAX_PEDERSEN_RANDOMNESS_BITS
        /\ pedersen_commit_dob_validated(dob, r) = Ok(ToBytes(p))
    BY LenProperties DEF pedersen_commit_dob_validated, IsOk, Err
  <1>2. DobBits \in Nat /\ MAX_PEDERSEN_RANDOMNESS_BITS \in Nat
        /\ 6 + DobBits + MAX_PEDERSEN_RANDOMNESS_BITS <= 3 * (Chunks * Len(Segments))
        /\ 3 * (Chunks * Len(Segments)) \in Nat
    BY PedersenAssumption, LenProperties
  <1>3. dob \in Nat
    BY <1>2, PowerDoubles
  <1>4. BitsOf(dob, DobBits) \in Seq(Bit) /\ Len(BitsOf(dob, DobBits)) = DobBits
    BY <1>2, <1>3, BitsMean DEF Bit
  <1>5. bits \in Seq(Bit) /\ Len(bits) = DobBits + Len(r)
    BY <1>4, ConcatProperties
  <1>6. NoteCommitment \in Seq(Bit) /\ Len(NoteCommitment) = 6
    BY DEF NoteCommitment, Bit
  <1> DEFINE n == Len(NoteCommitment) + Len(bits)  m == 3 * (Chunks * Len(Segments))
  <1>7. 1 <= n /\ n <= m
    <2> HIDE DEF m, bits
    <2>1. QED
      BY <1>1, <1>2, <1>5, <1>6 DEF m
  <1> HIDE DEF bits
  <1>8. pedersen_hash(NoteCommitment, bits) = {p} /\ p \in Curve
    BY <1>5, <1>6, <1>7, PedersenHashIsForced
  <1> HIDE DEF p
  <1>9. repr(p) = {ToBytes(p)} /\ ToBytes(p) \in Bytes
    BY <1>8, ReprMeans
  <1>10. CircuitCommit(BitsOf(dob, DobBits), r) = UNION {repr(q) : q \in {p}}
    BY <1>8 DEF CircuitCommit, bits
  <1>11. QED
    BY <1>1, <1>9, <1>10 DEF Ok

LEMMA NullifiersMean ==
  ASSUME NEW c \in Bytes
  PROVE  CircuitNullifier(c) = {HostNullifier(c)} /\ HostNullifier(c) \in Bytes
  <1> DEFINE bits == NULLIFIER_DST \o c  p == HostPedersen(MerkleTree0, bits)
  <1>1. /\ FieldBits \in Nat /\ NULLIFIER_DST \in Seq(Bit) /\ Len(NULLIFIER_DST) \in Nat
        /\ 6 + Len(NULLIFIER_DST) + FieldBits + 1 <= 3 * (Chunks * Len(Segments))
        /\ 3 * (Chunks * Len(Segments)) \in Nat
    BY PedersenAssumption, FieldAssumption, LenProperties
  <1>2. c \in Seq(Bit) /\ Len(c) = FieldBits + 1
    BY <1>1, IsASeq DEF Bytes
  <1>3. bits \in Seq(Bit) /\ Len(bits) = Len(NULLIFIER_DST) + (FieldBits + 1)
    <2>1. bits \in Seq(Bit) /\ Len(bits) = Len(NULLIFIER_DST) + Len(c)
      BY <1>1, <1>2, ConcatProperties, Zenon
    <2>2. QED
      BY <1>2, <2>1, Zenon
  <1>4. MerkleTree0 \in Seq(Bit) /\ Len(MerkleTree0) = 6
    BY DEF MerkleTree0, Bit
  <1>5. 1 <= Len(MerkleTree0) + Len(bits) /\ Len(MerkleTree0) + Len(bits) <= 3 * (Chunks * Len(Segments))
    BY <1>1, <1>3, <1>4
  <1> HIDE DEF bits
  <1>6. pedersen_hash(MerkleTree0, bits) = {p} /\ p \in Curve
    BY <1>3, <1>4, <1>5, PedersenHashIsForced
  <1>7. HostNullifier(c) = ToBytes(p)
    BY DEF HostNullifier, bits
  <1> HIDE DEF p
  <1>8. repr(p) = {ToBytes(p)} /\ ToBytes(p) \in Bytes
    BY <1>6, ReprMeans
  <1>9. CircuitNullifier(c) = UNION {repr(q) : q \in {p}}
    BY <1>6 DEF CircuitNullifier, bits
  <1>10. QED
    BY <1>7, <1>8, <1>9

------------------------------------------------------------------------------
(* Signatures. *)

\* An encoded scalar has bits.
LEMMA ScalarsHaveBits == ScalarBits \in Nat \ {0} /\ 2^ScalarBits \in Nat
  <1>1. ScalarBits \in Nat /\ Order <= 2^ScalarBits /\ Order > 2 /\ Order \in Nat
    BY KeyAssumption, OrderAssumption
  <1>2. 2^ScalarBits \in Nat
    BY <1>1, PowerDoubles
  <1>3. ASSUME ScalarBits = 0  PROVE FALSE
    <2>1. 2^ScalarBits = 1
      BY <1>3, PowerZero
    <2>2. QED
      BY <1>1, <2>1
  <1>4. QED
    BY <1>1, <1>2, <1>3

\* The circuit's constraints for a key that parses are the host's, but that the
\* challenge is not reduced; R is driven into the subgroup by the equation.
LEMMA CircuitVerifiesMeans ==
  ASSUME NEW vk \in Subgroup \ {Neutral}, NEW r \in Curve, NEW s \in Encoding, NEW hash \in Encoding
  PROVE  CircuitVerifies(vk, r, s, hash)
         <=> /\ r \in Subgroup \ {Neutral}
             /\ HostMul(s, Base) = HostAdd(r, HostMul(Reduced(hash), vk))
  <1>1. /\ Base \in Subgroup /\ Base \in Curve /\ vk \in Subgroup /\ vk \in Curve
        /\ s \in Nat /\ hash \in Nat /\ s < 2^ScalarBits /\ hash < 2^ScalarBits
        /\ ScalarBits \in Nat \ {0}
    <2>1. ScalarBits \in Nat \ {0} /\ 2^ScalarBits \in Nat
      BY ScalarsHaveBits
    <2>2. s \in Nat /\ hash \in Nat /\ s < 2^ScalarBits /\ hash < 2^ScalarBits
      BY <2>1 DEF Encoding
    <2>3. QED
      BY <2>1, <2>2, KeyAssumption, SubgroupMultiples
  <1> DEFINE x == HostMul(s, Base)  y == HostMul(hash, vk)
  <1>2. x \in Subgroup /\ y \in Subgroup /\ x \in Curve /\ y \in Curve /\ y = HostMul(Reduced(hash), vk)
    BY <1>1, SubgroupMultiples DEF Reduced
  <1>3. EquationHolds(vk, r, s, hash) <=> x = HostAdd(r, y)
    <2>1. mul(Base, BitsOf(s, ScalarBits)) = {x} /\ mul(vk, BitsOf(hash, ScalarBits)) = {y}
      BY <1>1, MulMeans
    <2>2. Add(r, y) = {HostAdd(r, y)}
      BY <1>2, AddMeans
    <2> HIDE DEF x, y
    <2>3. QED
      BY <2>1, <2>2 DEF EquationHolds
  <1>4. alloc_vk(vk)
    BY <1>1, NotSmallOrder DEF alloc_vk, Curve
  <1>5. x = HostAdd(r, y) => r \in Subgroup
    <2>1. r = HostAdd(HostAdd(r, y), Negated(y)) /\ Negated(y) \in Subgroup
      BY <1>2, Difference, SubgroupSums
    <2> HIDE DEF x, y
    <2>2. QED
      BY <1>2, <2>1, SubgroupSums
  <1>6. r \in Subgroup => (alloc_sig(r) <=> r # Neutral)
    BY NotSmallOrder DEF alloc_sig, Curve
  <1>7. QED
    BY <1>2, <1>3, <1>4, <1>5, <1>6 DEF CircuitVerifies

------------------------------------------------------------------------------
(* The invariants. *)

\* Init and every step keep the origins of what the state holds.
LEMMA OriginsInit == Init => Origins
  BY DEF Init, Origins

LEMMA OriginsStep == Origins /\ [Next]_vars => Origins'
  <1> SUFFICES ASSUME Origins, [Next]_vars PROVE Origins'
    OBVIOUS
  <1>1. CASE Commit
    <2>1. PICK dob \in 0..(2^DobBits - 1), n \in Lengths : \E r \in [1..n -> Bit] :
            Done("committed", [dob |-> dob, r |-> r], pedersen_commit_dob_validated(dob, r))
      BY <1>1 DEF Commit
    <2>2. PICK r \in [1..n -> Bit] :
            Done("committed", [dob |-> dob, r |-> r], pedersen_commit_dob_validated(dob, r))
      BY <2>1
    <2>3. r \in Seq(Bit)
      BY PedersenAssumption, IsASeq
    <2>4. /\ stage' = "committed" /\ input' = [dob |-> dob, r |-> r]
          /\ host' = pedersen_commit_dob_validated(dob, r)
      BY <2>2 DEF Done
    <2>5. input'.dob = dob /\ input'.r = r
      BY <2>4
    <2>6. QED
      BY <2>3, <2>4, <2>5 DEF Origins
  <1>2. CASE Nullify
    <2>1. /\ stage = "committed" /\ IsOk(host) /\ stage' = "nullified" /\ input' = host.ok
          /\ host' = Ok(HostNullifier(host.ok))
      BY <1>2 DEF Nullify, Done
    <2>2. host.ok \in Bytes
      BY <2>1, CommitmentsMean DEF Origins
    <2>3. QED
      BY <2>1, <2>2 DEF Origins
  <1>3. CASE GenerateKeypair
    <2>1. PICK sk \in Secrets : Done("keyed", sk, Ok(HostMul(sk, Base)))
      BY <1>3 DEF GenerateKeypair
    <2>2. sk \in 0..(Order - 1)
      BY KeyAssumption
    <2>3. QED
      BY <2>1, <2>2 DEF Done, Origins
  <1>4. CASE Sign
    <2>1. PICK nonce \in 0..(Order - 1), hash \in Encoding :
            Done("signed", [vk |-> host.ok, hash |-> hash], sign_cred_v2(input, nonce, hash))
      BY <1>4 DEF Sign
    <2>2. stage = "keyed" /\ input \in 0..(Order - 1) /\ host.ok = HostMul(input, Base)
      BY <1>4 DEF Sign, Origins, Ok
    <2> DEFINE answer == sign_cred_v2(input, nonce, hash)
    <2>3. ASSUME IsOk(answer)
          PROVE  /\ input # 0 /\ nonce # 0
                 /\ answer.ok.r = HostMul(nonce, Base)
                 /\ answer.ok.s = (nonce + Reduced(hash) * input) % Order
      BY <2>3 DEF sign_cred_v2, SigningKeyFromBytes, IsOk, Err, Ok
    <2>4. input \in 1..(Order - 1) \/ input = 0
      BY <2>2, OrderAssumption
    <2>5. nonce \in 1..(Order - 1) \/ nonce = 0
      BY OrderAssumption
    <2>6. stage' = "signed" /\ input' = [vk |-> host.ok, hash |-> hash] /\ host' = answer
      BY <2>1 DEF Done
    <2> HIDE DEF answer
    <2>7. input'.vk = host.ok /\ input'.hash = hash
      BY <2>6
    <2>8. ASSUME IsOk(host')
          PROVE  \E sk, k \in 1..(Order - 1) :
                   /\ input'.vk = HostMul(sk, Base) /\ host'.ok.r = HostMul(k, Base)
                   /\ host'.ok.s = (k + Reduced(input'.hash) * sk) % Order
      BY <2>2, <2>3, <2>4, <2>5, <2>6, <2>7, <2>8, Zenon
    <2>9. QED
      BY <2>6, <2>7, <2>8 DEF Origins
  <1>5. CASE Claim
    <2>1. PICK vk \in (IF stage = "keyed" THEN {host.ok} ELSE Foreign), s \in Encoding, hash \in Encoding,
               t \in Torsion :
            LET r == HostAdd(HostMul(s, Base), Negated(HostMul(hash, vk)))
            IN Done("claimed", [vk |-> vk, s |-> s, hash |-> hash, r |-> HostAdd(r, t)], Ok(<<>>))
      BY <1>5, Zenon DEF Claim
    <2> DEFINE r == HostAdd(HostMul(s, Base), Negated(HostMul(hash, vk)))
    <2>2. Base \in Curve /\ Foreign \subseteq Curve /\ Torsion \subseteq Curve
          /\ Encoding \subseteq Nat /\ 0..(Order - 1) \subseteq Nat
      BY KeyAssumption, OrderAssumption, PowerDoubles DEF Subgroup, Encoding
    <2>3. vk \in Curve
      <3>1. CASE stage = "keyed"
        <4>1. input \in 0..(Order - 1) /\ vk = HostMul(input, Base)
          BY <3>1 DEF Origins, Ok
        <4>2. QED
          BY <2>2, <4>1, HostMulNext
      <3>2. CASE stage # "keyed"
        BY <2>2, <3>2
      <3>3. QED
        BY <3>1, <3>2
    <2>4. HostMul(s, Base) \in Curve /\ HostMul(hash, vk) \in Curve
      BY <2>2, <2>3, HostMulNext
    <2>5. Negated(HostMul(hash, vk)) \in Curve
      BY <2>4, NeutralAndOpposite
    <2>6. r \in Curve
      BY <2>4, <2>5, SumOnCurve
    <2> HIDE DEF r
    <2>7. HostAdd(r, t) \in Curve
      BY <2>2, <2>6, SumOnCurve
    <2>8. stage' = "claimed" /\ input' = [vk |-> vk, s |-> s, hash |-> hash, r |-> HostAdd(r, t)]
      BY <2>1 DEF Done, r
    <2>9. QED
      BY <2>3, <2>7, <2>8 DEF Origins
  <1>6. CASE Finished \/ UNCHANGED vars
    BY <1>6 DEF Finished, vars, Origins
  <1>7. QED
    BY <1>1, <1>2, <1>3, <1>4, <1>5, <1>6 DEF Next

\* Every commitment, nullifier, key, signature and claim the state holds comes from
\* where the code takes it: commitments are of dates and bits, keys are multiples
\* of the generator, signatures are made with a key and a nonce that are not zero.
THEOREM OriginsTheorem == Spec => []Origins
  BY OriginsInit, OriginsStep, PTL DEF Spec

\* The bits of a scalar leave a prover no freedom in mul, for any point of the
\* curve and any scalar the bits can hold.
THEOREM MulIsForcedTheorem == Spec => []MulIsForced
  <1>1. Origins => MulIsForced
    <2>1. ScalarBits \in Nat \ {0} /\ 2^ScalarBits \in Nat
      BY ScalarsHaveBits
    <2>2. \A k \in Encoding : k \in Nat /\ k < 2^ScalarBits
      BY <2>1 DEF Encoding
    <2>3. QED
      BY <2>1, <2>2, MulMeans DEF Origins, MulIsForced
  <1>2. QED
    BY <1>1, OriginsTheorem, PTL

\* The circuit accepts exactly the signatures the host accepts, for a key the host
\* would load.
THEOREM CircuitAgreesOnSignaturesTheorem == Spec => []CircuitAgreesOnSignatures
  <1>1. Origins => CircuitAgreesOnSignatures
    <2>1. SUFFICES ASSUME Origins, stage = "claimed", VerificationKeyParses(input.vk), Reduced(input.s) # 0
                   PROVE  CircuitVerifies(input.vk, input.r, input.s, input.hash)
                          <=> verify_cred_v2(input.vk, input.r, Reduced(input.s), input.hash)
      BY DEF CircuitAgreesOnSignatures
    <2> DEFINE vk == input.vk  r == input.r  s == input.s  hash == input.hash
    <2>2. /\ vk \in Subgroup \ {Neutral} /\ r \in Curve /\ s \in Encoding /\ hash \in Encoding
      BY <2>1 DEF Origins, VerificationKeyParses
    <2>3. CircuitVerifies(vk, r, s, hash)
          <=> /\ r \in Subgroup \ {Neutral}
              /\ HostMul(s, Base) = HostAdd(r, HostMul(Reduced(hash), vk))
      BY <2>2, CircuitVerifiesMeans
    <2>4. s \in Nat /\ Reduced(s) < Order
      BY <2>2, KeyAssumption, OrderAssumption, PowerDoubles DEF Encoding, Reduced
    <2>5. HostMul(Reduced(s), Base) = HostMul(s, Base)
      BY <2>4, KeyAssumption, SubgroupMultiples DEF Reduced
    <2>6. QED
      BY <2>1, <2>3, <2>4, <2>5 DEF verify_cred_v2, SignatureParses
  <1>2. QED
    BY <1>1, OriginsTheorem, PTL

\* What a loaded key signs, the circuit accepts under the key's own encoding, and
\* the host as well unless s is zero.
THEOREM SignedIsAcceptedTheorem == Spec => []SignedIsAccepted
  <1>1. Origins => SignedIsAccepted
    <2>1. SUFFICES ASSUME Origins, stage = "signed", IsOk(host)
                   PROVE  /\ CircuitVerifies(input.vk, host.ok.r, host.ok.s, input.hash)
                          /\ host.ok.s # 0 => verify_cred_v2(input.vk, host.ok.r, host.ok.s, input.hash)
      BY DEF SignedIsAccepted
    <2> DEFINE vk == input.vk  r == host.ok.r  s == host.ok.s  hash == input.hash  c == Reduced(hash)
    <2>2. PICK sk \in 1..(Order - 1), nonce \in 1..(Order - 1) :
            vk = HostMul(sk, Base) /\ r = HostMul(nonce, Base) /\ s = (nonce + c * sk) % Order
      BY <2>1 DEF Origins
    <2>3. hash \in Encoding
      BY <2>1 DEF Origins
    <2>4. /\ Order \in Nat \ {0} /\ 2^ScalarBits \in Nat /\ Order <= 2^ScalarBits
          /\ Base \in Subgroup \ {Neutral} /\ Base \in Curve /\ sk \in Nat /\ nonce \in Nat
      BY KeyAssumption, OrderAssumption, PowerDoubles DEF Subgroup
    <2>5. hash \in Nat /\ c \in Nat
      BY <2>3, <2>4 DEF Encoding, Reduced
    <2> HIDE DEF vk, r, s, hash, c
    <2>6. vk \in Subgroup \ {Neutral} /\ r \in Subgroup \ {Neutral} /\ r \in Curve
      BY <2>2, <2>4, SubgroupMultiples
    <2> DEFINE m == c * sk
    <2>7. m \in Nat /\ nonce + m \in Nat /\ (nonce + m) % Order \in 0..(Order - 1)
      <3>1. m \in Nat
        BY <2>4, <2>5
      <3> HIDE DEF m
      <3>2. QED
        BY <2>4, <3>1
    <2>8. s \in Encoding /\ s < Order
      BY <2>2, <2>4, <2>7 DEF Encoding
    <2>9. HostMul(s, Base) = HostAdd(r, HostMul(c, vk))
      <3>1. HostMul(m, Base) = HostMul(c, vk)
        BY <2>2, <2>4, <2>5, HostMulProduct
      <3> HIDE DEF m
      <3>2. HostMul((nonce + m) % Order, Base) = HostMul(nonce + m, Base)
        BY <2>4, <2>7, SubgroupMultiples
      <3>3. HostMul(nonce + m, Base) = HostAdd(r, HostMul(m, Base))
        BY <2>2, <2>4, <2>7, HostMulSum
      <3>4. QED
        BY <2>2, <3>1, <3>2, <3>3 DEF m
    <2>10. CircuitVerifies(vk, r, s, hash)
      BY <2>3, <2>6, <2>8, <2>9, CircuitVerifiesMeans DEF c
    <2>11. s # 0 => verify_cred_v2(vk, r, s, hash)
      BY <2>6, <2>8, <2>9 DEF verify_cred_v2, VerificationKeyParses, SignatureParses, c
    <2>12. QED
      BY <2>10, <2>11 DEF vk, r, s, hash
  <1>2. QED
    BY <1>1, OriginsTheorem, PTL

\* Whatever the host commits to opens in the circuit, to the host's commitment and
\* to no other value, for every date and every randomness the host accepts.
THEOREM CommitmentAgreesTheorem == Spec => []CommitmentAgrees
  <1>1. Origins => CommitmentAgrees
    BY CommitmentsMean DEF Origins, CommitmentAgrees
  <1>2. QED
    BY <1>1, OriginsTheorem, PTL

\* And the circuit derives the host's nullifier from it and no other value.
THEOREM NullifierAgreesTheorem == Spec => []NullifierAgrees
  <1>1. Origins => NullifierAgrees
    BY NullifiersMean DEF Origins, NullifierAgrees, Ok
  <1>2. QED
    BY <1>1, OriginsTheorem, PTL

\* The invariant of the run: values come from where the code takes them, and so
\* encodings have their bits, points lie on the curve and scalars are reduced.
THEOREM Inductive == Spec => []IInv
  <1>1. Origins => TypeOK
    <2>1. SUFFICES ASSUME Origins  PROVE TypeOK
      OBVIOUS
    <2>2. CASE stage = "committed"
      BY <2>1, <2>2, CommitmentsMean DEF Origins, TypeOK
    <2>3. CASE stage = "nullified"
      BY <2>1, <2>3, NullifiersMean DEF Origins, TypeOK, Ok
    <2>4. CASE stage = "keyed"
      <3>1. input \in 0..(Order - 1) /\ host.ok = HostMul(input, Base)
        BY <2>1, <2>4 DEF Origins, Ok
      <3>2. input \in Nat /\ Base \in Curve
        BY <3>1, OrderAssumption, KeyAssumption DEF Subgroup
      <3>3. host.ok \in Curve
        BY <3>1, <3>2, HostMulNext
      <3>4. QED
        BY <2>4, <3>1, <3>3 DEF TypeOK, Curve
    <2>5. CASE stage = "signed"
      <3>1. ASSUME IsOk(host)  PROVE host.ok.s \in 0..(Order - 1)
        <4>1. PICK sk \in 1..(Order - 1), nonce \in 1..(Order - 1) :
                host.ok.s = (nonce + Reduced(input.hash) * sk) % Order
          BY <2>1, <2>5, <3>1 DEF Origins
        <4>2. input.hash \in Nat /\ Order \in Nat \ {0}
          BY <2>1, <2>5, KeyAssumption, OrderAssumption, PowerDoubles DEF Origins, Encoding
        <4> DEFINE h == input.hash % Order  m == h * sk  k == nonce + m
        <4>3. h \in Nat /\ sk \in Nat /\ nonce \in Nat
          BY <4>2
        <4> HIDE DEF h
        <4>4. k \in Int
          BY <4>3
        <4>5. host.ok.s = k % Order
          BY <4>1 DEF Reduced, h
        <4> HIDE DEF k
        <4>6. QED
          BY <4>2, <4>4, <4>5, SameResidue
      <3>2. QED
        BY <2>5, <3>1 DEF TypeOK
    <2>6. CASE stage = "claimed"
      BY <2>1, <2>6 DEF Origins, TypeOK, Curve
    <2>7. QED
      BY <2>1, <2>2, <2>3, <2>4, <2>5, <2>6 DEF Origins, TypeOK
  <1>2. Origins => IInv
    BY <1>1 DEF IInv
  <1>3. QED
    BY <1>2, OriginsTheorem, PTL
=============================================================================
