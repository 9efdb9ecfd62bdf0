---------------------------- MODULE SharedLemmas -----------------------------
(* What more than one of the proofs needs: induction over the naturals,      *)
(* powers of two, residues, and what a concatenation determines.  A theorem  *)
(* of induction that takes a predicate cannot be instantiated here; one that *)
(* takes the SET of the numbers that satisfy it can.                         *)
EXTENDS Integers, Sequences, FiniteSetTheorems, SequenceTheorems, TLAPS

------------------------------------------------------------------------------
(* Induction, and powers of two. *)

\* A set that holds zero and with every number the next one holds them all: were
\* N missing, subtracting one would map the missing numbers up to N into
\* themselves, one to one, and never reach N.
LEMMA SetInduction ==
  ASSUME NEW S, 0 \in S, \A n \in Nat : n \in S => n + 1 \in S
  PROVE  Nat \subseteq S
  <1>1. SUFFICES ASSUME NEW N \in Nat, N \notin S PROVE FALSE
    OBVIOUS
  <1> DEFINE Missing == (0..N) \ S
             down == [x \in Missing |-> x - 1]
  <1>2. /\ IsFiniteSet(Missing \ {N}) /\ Cardinality(Missing) \in Nat
        /\ Cardinality(Missing \ {N}) = Cardinality(Missing) - 1
    <2>1. IsFiniteSet(0..N)
      BY FS_Interval
    <2>2. IsFiniteSet(Missing)
      BY <2>1, FS_Subset
    <2>3. N \in Missing
      BY <1>1
    <2>4. QED
      BY <2>2, <2>3, FS_RemoveElement, FS_CardinalityType
  <1>3. ASSUME NEW x \in Missing  PROVE x - 1 \in Missing \ {N}
    <2>1. x # 0 /\ x \in 0..N /\ x \notin S
      BY <1>1
    <2>2. x - 1 \in Nat /\ x - 1 \in 0..N /\ x - 1 # N /\ (x - 1) + 1 = x
      BY <2>1
    <2>3. QED
      BY <2>1, <2>2
  <1>4. down \in Injection(Missing, Missing \ {N})
    <2>1. down \in [Missing -> Missing \ {N}]
      BY <1>3
    <2>2. \A x, y \in Missing : down[x] = down[y] => x = y
      OBVIOUS
    <2>3. QED
      BY <2>1, <2>2 DEF Injection, IsInjective
  <1>5. Cardinality(Missing) <= Cardinality(Missing \ {N})
    BY <1>2, <1>4, FS_Injection
  <1>6. QED
    BY <1>2, <1>5

\* And a set that holds every number whose predecessors it holds.
LEMMA StrongInduction ==
  ASSUME NEW S, \A n \in Nat : 0..(n - 1) \subseteq S => n \in S
  PROVE  Nat \subseteq S
  <1> DEFINE T == {n \in Nat : 0..n \subseteq S}
  <1>1. 0 \in T
    <2>1. 0..(0 - 1) \subseteq S /\ 0 \in Nat
      OBVIOUS
    <2>2. 0 \in S
      BY <2>1
    <2>3. 0..0 = {0}
      OBVIOUS
    <2>4. QED
      BY <2>2, <2>3
  <1>2. ASSUME NEW n \in Nat, n \in T  PROVE n + 1 \in T
    <2>1. 0..((n + 1) - 1) \subseteq S /\ n + 1 \in Nat
      BY <1>2
    <2>2. n + 1 \in S
      BY <2>1
    <2>3. 0..(n + 1) = (0..n) \cup {n + 1}
      OBVIOUS
    <2>4. QED
      BY <1>2, <2>2, <2>3
  <1> HIDE DEF T
  <1>3. Nat \subseteq T
    BY <1>1, <1>2, SetInduction
  <1>4. QED
    BY <1>3 DEF T

\* Powers of two double: the subsets of 1..(n + 1) are those without n + 1 and
\* as many with it.
LEMMA PowerDoubles ==
  ASSUME NEW n \in Nat
  PROVE  2^n \in Nat /\ 2^(n + 1) = 2 * 2^n
  <1> DEFINE A == SUBSET (1..n)
             with == [T \in A |-> T \cup {n + 1}]
             B == {with[T] : T \in A}
  <1>1. /\ IsFiniteSet(1..n) /\ Cardinality(1..n) = n
        /\ IsFiniteSet(1..(n + 1)) /\ Cardinality(1..(n + 1)) = n + 1
    BY FS_Interval
  <1>2. IsFiniteSet(A) /\ Cardinality(A) = 2^n
    BY <1>1, FS_SUBSET
  <1>3. Cardinality(SUBSET (1..(n + 1))) = 2^(n + 1)
    BY <1>1, FS_SUBSET
  <1>4. with \in Bijection(A, B)
    <2>1. \A S, T \in A : with[S] = with[T] => S = T
      <3>1. SUFFICES ASSUME NEW S \in A, NEW T \in A, with[S] = with[T] PROVE S = T
        OBVIOUS
      <3>2. n + 1 \notin S /\ n + 1 \notin T
        OBVIOUS
      <3>3. S \cup {n + 1} = T \cup {n + 1}
        BY <3>1
      <3>4. QED
        BY <3>2, <3>3
    <2>2. with \in [A -> B] /\ \A y \in B : \E T \in A : with[T] = y
      OBVIOUS
    <2>3. QED
      BY <2>1, <2>2 DEF Bijection, Injection, Surjection, IsInjective
  <1>5. IsFiniteSet(B) /\ Cardinality(B) = Cardinality(A)
    <2>1. ExistsBijection(A, B)
      BY <1>4 DEF ExistsBijection
    <2>2. QED
      BY <1>2, <2>1, FS_Bijection
  <1>6. A \cap B = {}
    <2>1. ASSUME NEW T \in B PROVE n + 1 \in T
      OBVIOUS
    <2>2. ASSUME NEW T \in A PROVE n + 1 \notin T
      OBVIOUS
    <2>3. QED
      BY <2>1, <2>2
  <1>7. SUBSET (1..(n + 1)) = A \cup B
    <2>1. ASSUME NEW T \in SUBSET (1..(n + 1)), n + 1 \in T  PROVE T \in B
      <3>1. T \ {n + 1} \in A
        BY <2>1
      <3>2. with[T \ {n + 1}] = T
        BY <2>1, <3>1
      <3>3. QED
        BY <3>1, <3>2
    <2>2. ASSUME NEW T \in SUBSET (1..(n + 1)), n + 1 \notin T  PROVE T \in A
      BY <2>2
    <2>3. ASSUME NEW T \in A  PROVE T \in SUBSET (1..(n + 1)) /\ with[T] \in SUBSET (1..(n + 1))
      OBVIOUS
    <2> HIDE DEF A, with
    <2>4. QED
      BY <2>1, <2>2, <2>3
  <1> HIDE DEF A, B
  <1>8. Cardinality(A \cup B) = Cardinality(A) + Cardinality(B) - Cardinality(A \cap B)
    BY <1>2, <1>5, FS_Union
  <1>9. Cardinality(A \cap B) = 0 /\ Cardinality(A) \in Nat
    BY <1>2, <1>6, FS_EmptySet, FS_CardinalityType
  <1>10. Cardinality(A \cup B) = 2^(n + 1)
    BY <1>3, <1>7
  <1>11. QED
    BY <1>2, <1>5, <1>8, <1>9, <1>10

\* They start at one and are never zero.
LEMMA PowerZero == 2^0 = 1
  <1>1. IsFiniteSet({}) /\ Cardinality({}) = 0
    BY FS_EmptySet
  <1>2. Cardinality(SUBSET {}) = 2^0
    BY <1>1, FS_SUBSET
  <1>3. SUBSET {} = {{}} /\ Cardinality({{}}) = 1
    BY FS_Singleton
  <1>4. QED
    BY <1>2, <1>3

LEMMA PowerPositive ==
  ASSUME NEW n \in Nat
  PROVE  2^n \in Nat \ {0}
  <1> DEFINE S == {i \in Nat : 2^i # 0}
  <1>1. 0 \in S
    BY PowerZero
  <1>2. ASSUME NEW i \in Nat, i \in S  PROVE i + 1 \in S
    <2> DEFINE x == 2^i  y == 2^(i + 1)
    <2>1. x \in Nat /\ x # 0 /\ y = 2 * x
      BY <1>2, PowerDoubles
    <2> HIDE DEF x, y
    <2>2. y # 0
      BY <2>1
    <2>3. QED
      BY <2>2 DEF y
  <1> HIDE DEF S
  <1>3. n \in S
    BY <1>1, <1>2, SetInduction
  <1>4. QED
    BY <1>3, PowerDoubles DEF S

\* A loop computes a table: the first row, then each from the one before.
IsTable(f, n, a, step) == f = [i \in 0..n |-> IF i = 0 THEN a ELSE step[i][f[i - 1]]]

LEMMA Iterates ==
  ASSUME NEW D, NEW a \in D, NEW n \in Nat, NEW step \in [1..n -> [D -> D]]
  PROVE  \E f \in [0..n -> D] : IsTable(f, n, a, step)
  <1> DEFINE Row(f, i) == IF i = 0 THEN a ELSE step[i][f[i - 1]]
             S == {m \in Nat : m <= n => \E f \in [0..m -> D] : f = [i \in 0..m |-> Row(f, i)]}
  <1>1. 0 \in S
    <2> DEFINE f == [i \in 0..0 |-> a]
    <2>1. f = [i \in 0..0 |-> Row(f, i)] /\ f \in [0..0 -> D]
      OBVIOUS
    <2> HIDE DEF f
    <2>2. QED
      BY <2>1
  <1>2. ASSUME NEW m \in Nat, m \in S  PROVE m + 1 \in S
    <2>1. SUFFICES ASSUME m + 1 <= n
                   PROVE  \E f \in [0..(m + 1) -> D] : f = [i \in 0..(m + 1) |-> Row(f, i)]
      OBVIOUS
    <2>2. PICK f \in [0..m -> D] : f = [i \in 0..m |-> Row(f, i)]
      BY <1>2, <2>1
    <2> DEFINE g == [i \in 0..(m + 1) |-> Row(f, i)]
    <2>3. ASSUME NEW i \in 0..m  PROVE g[i] = f[i]
      <3>1. i \in 0..(m + 1)
        OBVIOUS
      <3>2. f[i] = Row(f, i)
        BY <2>2, Zenon
      <3>3. QED
        BY <3>1, <3>2, Zenon
    <2>4. ASSUME NEW i \in 0..(m + 1)  PROVE Row(g, i) = Row(f, i) /\ Row(f, i) \in D
      <3>1. CASE i = 0
        BY <3>1
      <3>2. CASE i # 0
        <4>1. i - 1 \in 0..m /\ i \in 1..n
          BY <2>1, <3>2
        <4>2. g[i - 1] = f[i - 1] /\ f[i - 1] \in D
          BY <2>2, <2>3, <4>1
        <4>3. step[i][f[i - 1]] \in D
          BY <4>1, <4>2
        <4> HIDE DEF g
        <4>4. QED
          BY <3>2, <4>2, <4>3
      <3>3. QED
        BY <3>1, <3>2
    <2>5. g = [i \in 0..(m + 1) |-> Row(g, i)]
      BY <2>4, Zenon
    <2>6. g \in [0..(m + 1) -> D]
      BY <2>4
    <2> HIDE DEF g
    <2>7. QED
      BY <2>5, <2>6
  <1> HIDE DEF S
  <1>3. n \in S
    BY <1>1, <1>2, SetInduction
  <1>4. \E f \in [0..n -> D] : f = [i \in 0..n |-> Row(f, i)]
    BY <1>3 DEF S
  <1>5. QED
    BY <1>4, Zenon DEF IsTable

------------------------------------------------------------------------------
(* Residues. *)

Divides(m, x) == \E k \in Int : x = m * k

\* What a modulus divides has residue zero.
LEMMA DividesMeansZero ==
  ASSUME NEW m \in Nat \ {0}, NEW x \in Int
  PROVE  Divides(m, x) <=> x % m = 0
  <1>1. x = m * (x \div m) + (x % m) /\ x \div m \in Int /\ x % m \in 0..(m - 1)
    OBVIOUS
  <1>2. ASSUME NEW k \in Int, x = m * k  PROVE x % m = 0
    BY <1>2
  <1>3. x % m = 0 => x = m * (x \div m)
    BY <1>1
  <1>4. QED
    BY <1>1, <1>2, <1>3 DEF Divides

\* Multiples are closed under sums, differences and products.
LEMMA DividesSums ==
  ASSUME NEW m \in Nat \ {0}, NEW x \in Int, NEW y \in Int, Divides(m, x)
  PROVE  /\ Divides(m, y) => Divides(m, x + y) /\ Divides(m, x - y)
         /\ Divides(m, x * y) /\ Divides(m, y * x) /\ Divides(m, 0 - x)
  <1>1. PICK k \in Int : x = m * k
    BY DEF Divides
  <1>2. ASSUME NEW l \in Int, y = m * l
        PROVE  x + y = m * (k + l) /\ x - y = m * (k - l) /\ k + l \in Int /\ k - l \in Int
    BY <1>1, <1>2
  <1>3. x * y = m * (k * y) /\ y * x = m * (k * y) /\ 0 - x = m * (0 - k)
        /\ k * y \in Int /\ 0 - k \in Int
    BY <1>1
  <1>4. QED
    BY <1>2, <1>3 DEF Divides

\* A number and its residue differ by a multiple, and two numbers that differ by
\* a multiple have one residue.
LEMMA SameResidue ==
  ASSUME NEW m \in Nat \ {0}, NEW x \in Int, NEW y \in Int
  PROVE  /\ x % m \in 0..(m - 1) /\ Divides(m, x - (x % m)) /\ Divides(m, (x % m) - x)
         /\ Divides(m, x - y) <=> x % m = y % m
  <1>1. x = m * (x \div m) + (x % m) /\ x \div m \in Int /\ x % m \in 0..(m - 1)
    OBVIOUS
  <1>2. y = m * (y \div m) + (y % m) /\ y \div m \in Int /\ y % m \in 0..(m - 1)
    OBVIOUS
  <1>3. x - (x % m) = m * (x \div m) /\ (x % m) - x = m * (0 - (x \div m))
    BY <1>1
  <1>4. ASSUME NEW k \in Int, x - y = m * k  PROVE x % m = y % m
    <2> DEFINE q == (y \div m) + k  r == y % m
    <2>1. x = m * q + r /\ q \in Int /\ r \in 0..(m - 1)
      BY <1>2, <1>4
    <2> HIDE DEF q, r
    <2>2. x % m = r
      BY <2>1
    <2>3. QED
      BY <2>2 DEF r
  <1>5. x % m = y % m => x - y = m * ((x \div m) - (y \div m))
    BY <1>1, <1>2
  <1>6. x \div m \in Int /\ 0 - (x \div m) \in Int /\ (x \div m) - (y \div m) \in Int
    BY <1>1, <1>2
  <1>7. Divides(m, x - (x % m)) /\ Divides(m, (x % m) - x)
    BY <1>3, <1>6 DEF Divides
  <1>8. Divides(m, x - y) <=> x % m = y % m
    BY <1>4, <1>5, <1>6 DEF Divides
  <1>9. QED
    BY <1>1, <1>7, <1>8

\* One more bit of a word than its low ones.
LEMMA LowBits ==
  ASSUME NEW x \in Nat, NEW w \in Nat \ {0}
  PROVE  /\ (x \div w) % 2 \in {0, 1}
         /\ x % (2 * w) = (IF (x \div w) % 2 = 1 THEN (x % w) + w ELSE x % w)
  <1> DEFINE q == x \div w  h == q \div 2  b == q % 2  r == x % w
  <1>1. x = w * q + r /\ r \in 0..(w - 1) /\ q \in Nat
    OBVIOUS
  <1>2. q = 2 * h + b /\ b \in {0, 1} /\ h \in Nat
    BY <1>1
  <1> HIDE DEF q, h, b, r
  <1>3. x = (2 * w) * h + (w * b + r)
    BY <1>1, <1>2
  <1>4. w * b + r \in 0..(2 * w - 1)
    BY <1>1, <1>2
  <1>5. x % (2 * w) = w * b + r
    <2> DEFINE m == 2 * w  y == w * b + r
    <2>1. m \in Nat \ {0} /\ y \in 0..(m - 1) /\ x = m * h + y /\ h \in Nat
      BY <1>2, <1>3, <1>4
    <2> HIDE DEF m, y
    <2>2. x % m = y
      BY <2>1
    <2>3. QED
      BY <2>2 DEF m, y
  <1>6. QED
    BY <1>1, <1>2, <1>5 DEF b, q, r

\* Modulo a prime every number but zero has an inverse: multiplying by it is one
\* to one.
LEMMA PrimeInverts ==
  ASSUME NEW m \in Nat, m > 1, \A a, b \in 0..(m - 1) : (a * b) % m = 0 => a = 0 \/ b = 0,
         NEW a \in 1..(m - 1)
  PROVE  \E x \in 0..(m - 1) : (a * x) % m = 1
  <1> DEFINE R == 0..(m - 1)  f == [x \in R |-> (a * x) % m]
  <1>1. IsFiniteSet(R)
    BY FS_Interval
  <1>2. ASSUME NEW x \in R, NEW y \in R, y <= x, f[x] = f[y]  PROVE x = y
    <2>1. a * x \in Int /\ a * y \in Int /\ a * x - a * y = a * (x - y) /\ x - y \in R /\ m \in Nat \ {0}
      BY <1>2
    <2>2. Divides(m, a * x - a * y)
      BY <1>2, <2>1, SameResidue
    <2>3. (a * (x - y)) % m = 0
      BY <2>1, <2>2, DividesMeansZero
    <2>4. a \in R /\ a # 0
      OBVIOUS
    <2>5. x - y = 0
      BY <2>1, <2>3, <2>4
    <2>6. QED
      BY <1>2, <2>5
  <1>3. f \in Injection(R, R)
    <2>1. f \in [R -> R]
      <3>1. \A x \in R : (a * x) % m \in R
        BY SameResidue
      <3>2. QED
        BY <3>1
    <2>2. ASSUME NEW x \in R, NEW y \in R, f[x] = f[y]  PROVE x = y
      <3>1. x <= y \/ y <= x
        OBVIOUS
      <3> HIDE DEF f, R
      <3>2. QED
        BY <1>2, <2>2, <3>1
    <2>3. QED
      BY <2>1, <2>2 DEF Injection, IsInjective
  <1>4. f \in Surjection(R, R)
    BY <1>1, <1>3, FS_Injection
  <1>5. 1 \in R
    OBVIOUS
  <1>6. QED
    BY <1>4, <1>5 DEF Surjection

\* A prime divides a product only with a factor.
LEMMA PrimeDivides ==
  ASSUME NEW m \in Nat \ {0}, \A a, b \in 0..(m - 1) : (a * b) % m = 0 => a = 0 \/ b = 0,
         NEW x \in Int, NEW y \in Int, (x * y) % m = 0
  PROVE  x % m = 0 \/ y % m = 0
  <1> DEFINE a == x % m  b == y % m  k == x - a  l == y - b  z == x * y
  <1>1. a \in 0..(m - 1) /\ b \in 0..(m - 1) /\ a \in Int /\ b \in Int
        /\ Divides(m, k) /\ Divides(m, l)
    <2>1. a \in 0..(m - 1) /\ b \in 0..(m - 1) /\ Divides(m, k) /\ Divides(m, l)
      BY SameResidue
    <2>2. QED
      BY <2>1
  <1> HIDE DEF a, b
  <1>2. k \in Int /\ l \in Int /\ z \in Int /\ a * b = (z - k * y) - l * a
    BY <1>1
  <1> HIDE DEF k, l
  <1>3. Divides(m, z)
    BY <1>2, DividesMeansZero
  <1> HIDE DEF z
  <1> DEFINE s == k * y  t == l * a
  <1>4. Divides(m, s) /\ Divides(m, t) /\ s \in Int /\ t \in Int
    <2>1. Divides(m, s)
      BY <1>1, <1>2, DividesSums
    <2>2. Divides(m, t)
      BY <1>1, <1>2, DividesSums
    <2>3. QED
      BY <1>1, <1>2, <2>1, <2>2
  <1> HIDE DEF s, t
  <1>5. Divides(m, z - s) /\ z - s \in Int
    BY <1>2, <1>3, <1>4, DividesSums
  <1> DEFINE r == z - s
  <1>6. Divides(m, r - t) /\ r - t \in Int
    <2>1. r \in Int /\ Divides(m, r)
      BY <1>5
    <2> HIDE DEF r
    <2>2. QED
      BY <1>4, <2>1, DividesSums
  <1>7. (a * b) % m = 0
    <2>1. a * b = r - t
      BY <1>2 DEF s, t, r
    <2>2. QED
      BY <1>6, <2>1, DividesMeansZero
  <1>8. QED
    BY <1>1, <1>7 DEF a, b

------------------------------------------------------------------------------
(* Concatenations: parts of known length, and parts behind their length, as the *)
(* code signs and hashes fields together.                                       *)

\* Two concatenations are equal only part by part if the first parts are as long.
LEMMA SplitConcat ==
  ASSUME NEW S, NEW s \in Seq(S), NEW t \in Seq(S), NEW u \in Seq(S), NEW v \in Seq(S),
         Len(s) = Len(t), s \o u = t \o v
  PROVE  s = t /\ u = v
  <1>1. /\ s \o u \in Seq(S) /\ Len(s \o u) = Len(s) + Len(u)
        /\ \A i \in 1..(Len(s) + Len(u)) :
             (s \o u)[i] = IF i <= Len(s) THEN s[i] ELSE u[i - Len(s)]
    BY ConcatProperties
  <1>2. /\ t \o v \in Seq(S) /\ Len(t \o v) = Len(t) + Len(v)
        /\ \A i \in 1..(Len(t) + Len(v)) :
             (t \o v)[i] = IF i <= Len(t) THEN t[i] ELSE v[i - Len(t)]
    BY ConcatProperties
  <1>3. Len(s) \in Nat /\ Len(u) \in Nat /\ Len(v) \in Nat
    BY LenProperties
  <1>4. Len(u) = Len(v)
    BY <1>1, <1>2, <1>3
  <1>5. ASSUME NEW i \in 1..Len(s)  PROVE s[i] = t[i]
    <2>1. i \in 1..(Len(s) + Len(u)) /\ i <= Len(s)
      BY <1>3
    <2>2. (s \o u)[i] = s[i] /\ (t \o v)[i] = t[i]
      BY <2>1, <1>1, <1>2, <1>4
    <2>3. QED
      BY <2>2
  <1>6. ASSUME NEW i \in 1..Len(u)  PROVE u[i] = v[i]
    <2> DEFINE j == i + Len(s)
    <2>1. j \in 1..(Len(s) + Len(u)) /\ ~(j <= Len(s)) /\ j - Len(s) = i
      BY <1>3
    <2>2. (s \o u)[j] = u[i] /\ (t \o v)[j] = v[i]
      BY <2>1, <1>1, <1>2, <1>4
    <2>3. QED
      BY <2>2
  <1>7. s = t
    BY <1>5, SeqEqual
  <1>8. QED
    BY <1>4, <1>6, <1>7, SeqEqual

\* An identifier in front of the rest of a message.
Front(id, rest) == (<<Len(id)>> \o id) \o rest

\* A length prefix makes an identifier self-delimiting, whatever its bytes are.
LEMMA SplitFront ==
  ASSUME NEW S, Nat \subseteq S,
         NEW s \in Seq(S), NEW t \in Seq(S), NEW u \in Seq(S), NEW v \in Seq(S),
         Front(s, u) = Front(t, v)
  PROVE  s = t /\ u = v
  <1>1. /\ Len(s) \in Nat /\ Len(t) \in Nat
        /\ <<Len(s)>> \in Seq(S) /\ <<Len(t)>> \in Seq(S)
        /\ Len(<<Len(s)>>) = 1 /\ Len(<<Len(t)>>) = 1
    BY LenProperties
  <1>2. s \o u \in Seq(S) /\ t \o v \in Seq(S)
    BY ConcatProperties
  <1>3. <<Len(s)>> \o (s \o u) = <<Len(t)>> \o (t \o v)
    <2>1. (<<Len(s)>> \o s) \o u = <<Len(s)>> \o (s \o u)
      BY <1>1, ConcatAssociative
    <2>2. (<<Len(t)>> \o t) \o v = <<Len(t)>> \o (t \o v)
      BY <1>1, ConcatAssociative
    <2>3. QED
      BY <2>1, <2>2, Zenon DEF Front
  <1>4. <<Len(s)>> = <<Len(t)>> /\ s \o u = t \o v
    <2> DEFINE p == <<Len(s)>>  q == <<Len(t)>>  x == s \o u  y == t \o v
    <2>1. /\ p \in Seq(S) /\ q \in Seq(S) /\ x \in Seq(S) /\ y \in Seq(S)
          /\ Len(p) = Len(q) /\ p \o x = q \o y
      BY <1>1, <1>2, <1>3
    <2> HIDE DEF p, q, x, y
    <2>2. p = q /\ x = y
      BY <2>1, SplitConcat
    <2>3. QED
      BY <2>2 DEF p, q, x, y
  <1>5. Len(s) = Len(t)
    BY <1>4
  <1>6. QED
    BY <1>4, <1>5, SplitConcat

\* A sequence over a set is one over every larger set.
LEMMA SeqGrows ==
  ASSUME NEW S, NEW T, S \subseteq T, NEW s \in Seq(S)  PROVE s \in Seq(T)
  <1>1. Len(s) \in Nat /\ s \in [1..Len(s) -> S]
    BY LenProperties
  <1>2. s \in [1..Len(s) -> T]
    BY <1>1
  <1>3. QED
    BY <1>1, <1>2, IsASeq
=============================================================================
