--------------------------- MODULE AgeCheckProofs ----------------------------
(* Proofs about AgeCheck, for every width: the bias and the soundness of the *)
(* comparison.                                                               *)
EXTENDS AgeCheck, SharedLemmas

\* The bias shifts a day by half the range, so it is a word.
LEMMA BiasShifts ==
  ASSUME NEW d \in Day
  PROVE  bias_for_circuit(d) = d + Half /\ bias_for_circuit(d) \in Word
  BY HalfAssumption DEF Day, Word, bias_for_circuit, FlipTop, AsUnsigned

\* The bias keeps the order of days: the circuit may compare words.
THEOREM BiasKeepsOrder ==
  ASSUME NEW d \in Day, NEW e \in Day
  PROVE  d <= e <=> bias_for_circuit(d) <= bias_for_circuit(e)
  BY HalfAssumption, BiasShifts DEF Day

\* unbias_from_circuit undoes bias_for_circuit, in both directions.
THEOREM BiasIsInvertible ==
  /\ \A d \in Day : unbias_from_circuit(bias_for_circuit(d)) = d
  /\ \A u \in Word : /\ unbias_from_circuit(u) \in Day
                      /\ bias_for_circuit(unbias_from_circuit(u)) = u
  BY HalfAssumption
  DEF Day, Word, bias_for_circuit, unbias_from_circuit, FlipTop, AsUnsigned, AsSigned

\* A selector and four bits that satisfy the mux constraints: the outputs are the
\* operands in the order the selector asks for.
LEMMA MuxSelects ==
  ASSUME NEW s \in Bit, NEW a \in Bit, NEW b \in Bit, NEW l \in Bit, NEW r \in Bit,
         MuxHolds(s, a, b, l, r)
  PROVE  /\ s = 1 => l = a /\ r = b
         /\ s = 0 => l = b /\ r = a
  BY DEF MuxHolds, Bit

\* The borrow constraint has one solution: the borrow of the subtraction.
LEMMA BorrowIsForced ==
  ASSUME NEW l \in Bit, NEW r \in Bit, NEW bw \in Bit, NEW nb \in Bit, NEW df \in Bit,
         BorrowHolds(l, r, bw, nb, df)
  PROVE  nb = NextBorrow(l, r, bw)
  BY DEF BorrowHolds, NextBorrow, Bit

\* The initial states of the comparison satisfy the invariant.
LEMMA InitInv == Init => IInv
  <1>1. SUFFICES ASSUME Init PROVE IInv
    OBVIOUS
  <1>2. TypeOK /\ BorrowInv /\ AgeSound /\ HonestComplete
    BY <1>1, BitsAssumption
    DEF Init, TypeOK, BorrowInv, AgeSound, HonestComplete, Left, Right, Bit
  <1>3. DirectionWord(stmt) % 1 = 0
    BY DEF DirectionWord
  <1>4. bias_for_circuit(stmt.cutoff) % 1 = 0 /\ bias_for_circuit(stmt.dob) % 1 = 0
    BY <1>2, BiasShifts DEF TypeOK, Statement, Word
  <1>5. HonestInv
    BY <1>1, <1>3, <1>4, BitsAssumption DEF Init, HonestInv
  <1>6. QED
    BY <1>2, <1>5 DEF IInv

\* Assigning one more bit to each word keeps the words below the weight and the
\* direction's low bit in the selector.
LEMMA AssignInv ==
  ASSUME TypeOK, BorrowInv, n < Bits,
         NEW d \in Bit, NEW a \in Bit, NEW b \in Bit, Assign(d, a, b, Selector(d))
  PROVE  /\ n' \in 1..Bits /\ weight' \in Nat /\ weight' >= 2
         /\ dir' \in Nat /\ cutoff' \in Nat /\ dob' \in Nat /\ sel' \in Bit
         /\ dir' < weight' /\ cutoff' < weight' /\ dob' < weight'
         /\ dir' = sel' \/ dir' >= 2
  <1>1. n' \in 1..Bits /\ weight' \in Nat /\ weight' >= 2
    BY BitsAssumption DEF TypeOK, Assign
  <1>2. dir' \in Nat /\ cutoff' \in Nat /\ dob' \in Nat /\ sel' \in Bit
    BY DEF TypeOK, Assign, Add, Selector
  <1>3. dir' < weight' /\ cutoff' < weight' /\ dob' < weight'
    BY DEF TypeOK, BorrowInv, Assign, Add
  <1>4. dir' = sel' \/ dir' >= 2
    <2>1. CASE n = 0
      BY <2>1 DEF TypeOK, BorrowInv, Assign, Add, Selector, Bit
    <2>2. CASE n # 0
      BY <2>2 DEF TypeOK, BorrowInv, Assign, Add, Selector
    <2>3. QED
      BY <2>1, <2>2
  <1>5. QED
    BY <1>1, <1>2, <1>3, <1>4

\* ... and keeps the borrow in step with the comparison of the selected words.
LEMMA CompareInv ==
  ASSUME TypeOK, BorrowInv, verdict = "open",
         NEW d \in Bit, NEW a \in Bit, NEW b \in Bit, NEW l \in Bit, NEW r \in Bit,
         Assign(d, a, b, Selector(d)), MuxHolds(Selector(d), a, b, l, r)
  PROVE  NextBorrow(l, r, borrow) = 1 <=> Left' < Right'
  <1> DEFINE s == Selector(d)
             x == IF s = 1 THEN cutoff ELSE dob
             y == IF s = 1 THEN dob ELSE cutoff
  <1>1. s \in Bit /\ sel' = s
    BY DEF Selector, Assign, TypeOK
  <1>2. borrow = 1 <=> x < y
    BY DEF BorrowInv, TypeOK, Left, Right, Selector, Bit
  <1>3. x \in Nat /\ y \in Nat /\ x < weight /\ y < weight /\ weight \in Nat /\ borrow \in Bit
    BY DEF TypeOK, BorrowInv
  <1> HIDE DEF x, y
  <1>4. NextBorrow(l, r, borrow) = 1 <=>
          (IF l = 1 THEN x + weight ELSE x) < (IF r = 1 THEN y + weight ELSE y)
    BY <1>2, <1>3 DEF NextBorrow, Bit
  <1>5. CASE s = 1
    <2>1. l = a /\ r = b
      BY <1>1, <1>5, MuxSelects
    <2>2. QED
      BY <1>1, <1>4, <1>5, <2>1 DEF x, y, Left, Right, Assign, Add
  <1>6. CASE s = 0
    <2>1. l = b /\ r = a
      BY <1>1, <1>6, MuxSelects
    <2>2. QED
      BY <1>1, <1>4, <1>6, <2>1 DEF x, y, Left, Right, Assign, Add
  <1>7. QED
    BY <1>1, <1>5, <1>6 DEF Bit

\* What the code assigns satisfies the constraints of a position.
LEMMA HonestSatisfies ==
  ASSUME NEW s \in Bit, NEW a \in Bit, NEW b \in Bit, NEW l \in Bit, NEW r \in Bit,
         NEW bw \in Bit, l = (IF s = 1 THEN a ELSE b), r = (IF s = 1 THEN b ELSE a)
  PROVE  /\ MuxHolds(s, a, b, l, r)
         /\ BorrowHolds(l, r, bw, NextBorrow(l, r, bw), Diff(l, r, bw, NextBorrow(l, r, bw)))
  <1>1. MuxHolds(s, a, b, l, r)
    BY DEF MuxHolds, Bit
  <1>2. BorrowHolds(l, r, bw, NextBorrow(l, r, bw), Diff(l, r, bw, NextBorrow(l, r, bw)))
    BY DEF BorrowHolds, NextBorrow, Diff, Bit
  <1>3. QED
    BY <1>1, <1>2

\* An honest prover's words grow by the true bits.
LEMMA HonestAssignInv ==
  ASSUME TypeOK, HonestInv, honest, n < Bits,
         NEW d \in Bit, NEW a \in Bit, NEW b \in Bit, NEW l \in Bit, NEW r \in Bit,
         Assign(d, a, b, Selector(d)), HonestBits(d, a, b, l, r, Selector(d))
  PROVE  /\ weight' = 2^(n')
         /\ dir' = DirectionWord(stmt) % weight'
         /\ cutoff' = bias_for_circuit(stmt.cutoff) % weight'
         /\ dob' = bias_for_circuit(stmt.dob) % weight'
  <1>1. weight' = 2^(n')
    BY PowerDoubles DEF TypeOK, HonestInv, Assign
  <1>2. ASSUME NEW x \in Nat, NEW v, v = x % weight
        PROVE  Add(v, BitOf(x)) = x % (2 * weight)
    BY <1>2, LowBits DEF Add, BitOf, TypeOK
  <1>3. /\ DirectionWord(stmt) \in Nat
        /\ bias_for_circuit(stmt.cutoff) \in Nat /\ bias_for_circuit(stmt.dob) \in Nat
    BY BiasShifts, HalfAssumption DEF TypeOK, Statement, Word, DirectionWord
  <1>4. QED
    BY <1>1, <1>2, <1>3 DEF HonestInv, HonestBits, Assign

\* After the last position the words have all their bits.
LEMMA WordsAreWhole ==
  ASSUME NEW st \in Statement, NEW w, w = 2^Bits
  PROVE  /\ DirectionWord(st) % w = DirectionWord(st)
         /\ bias_for_circuit(st.cutoff) % w = bias_for_circuit(st.cutoff)
         /\ bias_for_circuit(st.dob) % w = bias_for_circuit(st.dob)
  <1>1. 2^Bits = 2 * Half
    <2>1. Bits - 1 \in Nat /\ (Bits - 1) + 1 = Bits
      BY BitsAssumption
    <2>2. 2^((Bits - 1) + 1) = 2 * 2^(Bits - 1)
      BY <2>1, PowerDoubles
    <2>3. QED
      BY <2>1, <2>2, WidthAssumption
  <1>2. /\ bias_for_circuit(st.cutoff) \in 0..(w - 1) /\ bias_for_circuit(st.dob) \in 0..(w - 1)
        /\ DirectionWord(st) \in 0..(w - 1) /\ w \in Nat \ {0}
    BY <1>1, BiasShifts, HalfAssumption DEF Statement, Word, DirectionWord
  <1>3. \A x \in 0..(w - 1) : x % w = x
    BY <1>2
  <1>4. QED
    BY <1>2, <1>3

\* Every step of the comparison keeps the invariant.
LEMMA StepInv ==
  ASSUME IInv, [Next]_vars
  PROVE  IInv'
  <1> USE DEF IInv
  <1>1. CASE Position
    <2> PICK d \in Bit, a \in Bit, b \in Bit, l \in Bit, r \in Bit, nb \in Bit, df \in Bit :
          PositionWith(d, a, b, l, r, nb, df)
      BY <1>1, Zenon DEF Position
    <2>1. /\ verdict = "open" /\ n < Bits - 1
          /\ Assign(d, a, b, Selector(d))
          /\ borrow' = nb
          /\ verdict' = IF /\ MuxHolds(Selector(d), a, b, l, r)
                           /\ BorrowHolds(l, r, borrow, nb, df)
                        THEN "open" ELSE "unsatisfied"
          /\ UNCHANGED <<stmt, honest>>
      BY DEF PositionWith
    <2>2. n < Bits
      BY <2>1, BitsAssumption DEF TypeOK
    <2>3. /\ n' \in 1..Bits /\ weight' \in Nat /\ weight' >= 2
          /\ dir' \in Nat /\ cutoff' \in Nat /\ dob' \in Nat /\ sel' \in Bit
          /\ dir' < weight' /\ cutoff' < weight' /\ dob' < weight'
          /\ dir' = sel' \/ dir' >= 2
      BY <2>1, <2>2, AssignInv
    <2>4. verdict' = "open" => (borrow' = 1 <=> Left' < Right')
      <3>1. SUFFICES ASSUME verdict' = "open" PROVE borrow' = 1 <=> Left' < Right'
        OBVIOUS
      <3>2. MuxHolds(Selector(d), a, b, l, r) /\ BorrowHolds(l, r, borrow, nb, df)
        BY <2>1, <3>1
      <3>3. borrow \in Bit
        BY DEF TypeOK
      <3>4. borrow' = NextBorrow(l, r, borrow)
        BY <2>1, <3>2, <3>3, BorrowIsForced
      <3>5. QED
        BY <2>1, <3>2, <3>4, CompareInv
    <2>5. verdict' \in {"open", "unsatisfied"} /\ borrow' \in Bit /\ UNCHANGED <<stmt, honest>>
      BY <2>1
    <2>6. TypeOK'
      BY <2>3, <2>5 DEF TypeOK
    <2>7. BorrowInv'
      BY <2>3, <2>4, <2>5 DEF BorrowInv
    <2>8. ASSUME honest, honest'  PROVE verdict' = "open" /\ HonestInv'
      <3>1. /\ HonestBits(d, a, b, l, r, Selector(d))
            /\ nb = NextBorrow(l, r, borrow) /\ df = Diff(l, r, borrow, nb)
        BY <2>8 DEF PositionWith
      <3>2. verdict' = "open"
        BY <2>1, <3>1, HonestSatisfies DEF HonestBits, TypeOK, Selector, Bit
      <3>3. n' < Bits
        BY <2>1, BitsAssumption DEF Assign, TypeOK
      <3>4. QED
        BY <2>1, <2>2, <2>5, <2>8, <3>1, <3>2, <3>3, HonestAssignInv DEF HonestInv
    <2>9. QED
      BY <2>5, <2>6, <2>7, <2>8 DEF AgeSound, HonestComplete, HonestInv
  <1>2. CASE LastPosition
    <2>1. PICK d \in Bit, a \in Bit, b \in Bit, l \in Bit, r \in Bit :
            /\ verdict = "open" /\ n = Bits - 1
            /\ Assign(d, a, b, Selector(d))
            /\ borrow' = FinalBorrow(l, r, borrow)
            /\ verdict' = IF /\ MuxHolds(Selector(d), a, b, l, r)
                             /\ FinalBorrow(l, r, borrow) = 0
                          THEN "packing" ELSE "unsatisfied"
            /\ UNCHANGED <<stmt, honest>>
            /\ honest => HonestBits(d, a, b, l, r, Selector(d))
      BY <1>2 DEF LastPosition
    <2>2. n < Bits
      BY <2>1, BitsAssumption
    <2>3. /\ n' \in 1..Bits /\ weight' \in Nat /\ weight' >= 2
          /\ dir' \in Nat /\ cutoff' \in Nat /\ dob' \in Nat /\ sel' \in Bit
          /\ dir' < weight' /\ cutoff' < weight' /\ dob' < weight'
          /\ dir' = sel' \/ dir' >= 2
      BY <2>1, <2>2, AssignInv
    <2>4. verdict' = "packing" => (borrow' = 1 <=> Left' < Right') /\ borrow' = 0
      BY <2>1, CompareInv DEF FinalBorrow
    <2>5. /\ verdict' \in {"packing", "unsatisfied"} /\ borrow' \in Bit
          /\ UNCHANGED <<stmt, honest>>
      BY <2>1 DEF FinalBorrow, NextBorrow, Bit
    <2>6. TypeOK'
      BY <2>3, <2>5 DEF TypeOK
    <2>7. BorrowInv'
      BY <2>3, <2>4, <2>5 DEF BorrowInv
    <2>8. HonestInv' /\ (honest => n' = Bits /\ HonestBits(d, a, b, l, r, Selector(d)))
      <3>1. n' = Bits
        BY <2>1, BitsAssumption DEF Assign
      <3>2. QED
        BY <2>1, <2>2, <2>5, <3>1, HonestAssignInv DEF HonestInv
    <2>9. ASSUME honest, verdict' = "unsatisfied"  PROVE ~ Holds(stmt)
      <3>1. MuxHolds(Selector(d), a, b, l, r)
        BY <2>8, <2>9, HonestSatisfies DEF HonestBits, TypeOK, Selector, Bit
      <3>2. Left' < Right'
        BY <2>1, <2>5, <2>9, <3>1, CompareInv DEF FinalBorrow, Bit
      <3>3. /\ dir' = DirectionWord(stmt) /\ cutoff' = bias_for_circuit(stmt.cutoff)
            /\ dob' = bias_for_circuit(stmt.dob)
        BY <2>1, <2>5, <2>8, <2>9, WordsAreWhole DEF HonestInv, TypeOK
      <3>4. sel' = DirectionWord(stmt)
        BY <2>3, <3>3 DEF DirectionWord, Bit
      <3>5. /\ stmt.cutoff \in Day /\ stmt.dob \in Day /\ stmt.direction \in Direction
        BY DEF TypeOK, Statement
      <3>6. /\ stmt.dob <= stmt.cutoff <=> dob' <= cutoff'
            /\ stmt.cutoff <= stmt.dob <=> cutoff' <= dob'
        BY <3>3, <3>5, BiasKeepsOrder
      <3>7. stmt.cutoff \in Int /\ stmt.dob \in Int
        BY <3>5, HalfAssumption DEF Day
      <3>8. QED
        BY <2>3, <3>2, <3>4, <3>6, <3>7 DEF DirectionWord, Holds, Left, Right
    <2>10. HonestComplete'
      BY <2>1, <2>9 DEF HonestComplete, Holds
    <2>11. QED
      BY <2>5, <2>6, <2>7, <2>8, <2>10 DEF AgeSound
  <1>3. CASE Pack
    <2>1. TypeOK' /\ BorrowInv' /\ HonestInv'
      BY <1>3 DEF Pack, TypeOK, BorrowInv, HonestInv, Left, Right
    <2>2. ASSUME verdict' = "satisfied" PROVE Holds(stmt)
      <3>1. /\ dir = DirectionWord(stmt) /\ n > 0
            /\ cutoff = bias_for_circuit(stmt.cutoff)
            /\ dob = bias_for_circuit(stmt.dob)
            /\ ~(Left < Right)
        BY <1>3, <2>2 DEF Pack, BorrowInv
      <3>2. sel = DirectionWord(stmt)
        BY <3>1 DEF BorrowInv, TypeOK, DirectionWord
      <3>3. /\ stmt.cutoff \in Day /\ stmt.dob \in Day
            /\ stmt.direction \in Direction
        BY DEF TypeOK, Statement
      <3>4. /\ stmt.dob <= stmt.cutoff <=> dob <= cutoff
            /\ stmt.cutoff <= stmt.dob <=> cutoff <= dob
        BY <3>1, <3>3, BiasKeepsOrder
      <3>5. stmt.cutoff \in Int /\ stmt.dob \in Int /\ cutoff \in Nat /\ dob \in Nat
        BY <3>3, HalfAssumption DEF Day, TypeOK
      <3>6. CASE stmt.direction = "Over"
        BY <3>1, <3>2, <3>4, <3>5, <3>6 DEF DirectionWord, Holds, Left, Right
      <3>7. CASE stmt.direction # "Over"
        BY <3>1, <3>2, <3>4, <3>5, <3>7 DEF DirectionWord, Holds, Left, Right
      <3>8. QED
        BY <3>6, <3>7
    <2>3. stmt' = stmt
      BY <1>3 DEF Pack
    <2>4. HonestComplete'
      <3>1. honest => /\ dir = DirectionWord(stmt)
                      /\ cutoff = bias_for_circuit(stmt.cutoff)
                      /\ dob = bias_for_circuit(stmt.dob)
        BY <1>3, WordsAreWhole DEF Pack, HonestInv, TypeOK
      <3>2. QED
        BY <1>3, <3>1 DEF Pack, HonestComplete
    <2>5. QED
      BY <2>1, <2>2, <2>3, <2>4 DEF AgeSound, Holds
  <1>4. CASE UNCHANGED vars
    BY <1>4 DEF vars, TypeOK, BorrowInv, HonestInv, AgeSound, HonestComplete, Left, Right, Holds
  <1>5. QED
    BY <1>1, <1>2, <1>3, <1>4 DEF Next, Finished

\* IInv is an invariant of the comparison, whatever the width.
THEOREM Inductive == Spec => []IInv
  <1>1. IInv /\ [Next]_vars => IInv'
    BY StepInv
  <1>2. QED
    BY InitInv, <1>1, PTL DEF Spec

\* No assignment of bits makes the circuit accept a false statement about days.
THEOREM AgeSoundTheorem == Spec => []AgeSound
  <1>1. IInv => AgeSound
    BY DEF IInv
  <1>2. QED
    BY Inductive, <1>1, PTL

\* The assignment the code computes is refused only for a false statement.
THEOREM HonestCompleteTheorem == Spec => []HonestComplete
  <1>1. IInv => HonestComplete
    BY DEF IInv
  <1>2. QED
    BY Inductive, <1>1, PTL
=============================================================================
