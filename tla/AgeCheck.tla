------------------------------ MODULE AgeCheck -------------------------------
(***************************************************************************)
(* The age comparison of crypto-circuit-age: the bits a prover allocates   *)
(* for the direction, the cutoff and the date of birth, the mux that       *)
(* orders the operands, the borrow chain of enforce_ge and the packing     *)
(* that ties the bits to the verifier's public inputs and to the           *)
(* commitment.                                                             *)
(*                                                                         *)
(* A prover assigns the allocated bits as it likes; an honest one as the   *)
(* code does.  Constraints form a set, so their order says nothing: this   *)
(* module visits the three loops of the code together, one bit position    *)
(* per step, and stops at the first constraint that does not hold.         *)
(***************************************************************************)
EXTENDS Days

CONSTANT Bits  \* the width of a day count: 32 in the code

ASSUME BitsAssumption == Bits \in Nat \ {0}
ASSUME WidthAssumption == Half = 2^(Bits - 1)

------------------------------------------------------------------------------
(* The statement, what the verifier packs for it, and what it means. *)

Direction == {"Over", "Under"}
Statement == [direction : Direction, cutoff : Day, dob : Day]

DirectionWord(s) == IF s.direction = "Over" THEN 1 ELSE 0

\* Over: the cutoff is not before the date of birth.  Under: not after it.
Holds(s) == IF s.direction = "Over" THEN s.dob <= s.cutoff ELSE s.dob >= s.cutoff

VARIABLES
  stmt,    \* what the verifier packs, and the committed date of birth
  honest,  \* whether the prover assigns what the code assigns
  n,       \* the bit position
  weight,  \* 2^n
  dir,     \* the value of the direction bits below n
  sel,     \* bit 0 of the direction: the selector of the mux
  cutoff,  \* the value of the cutoff bits below n
  dob,     \* the value of the date of birth bits below n
  borrow,  \* the borrow into position n
  verdict  \* of the constraints: "open", "packing", "satisfied", "unsatisfied"

vars == <<stmt, honest, n, weight, dir, sel, cutoff, dob, borrow, verdict>>

Bit == {0, 1}

Init ==
  /\ stmt \in Statement
  /\ honest \in BOOLEAN
  /\ n = 0 /\ weight = 1
  /\ dir = 0 /\ sel = 0 /\ cutoff = 0 /\ dob = 0
  /\ borrow = 0
  /\ verdict = "open"

\* Bit n of a word, as the code's (value >> n) & 1.
BitOf(word) == (word \div weight) % 2

\* A value with bit n added to it.
Add(value, bit) == IF bit = 1 THEN value + weight ELSE value

\* Broken: the difference bit without the borrowed two; Rust's % is negative here.
DiffWithoutBorrow(l, r, bw, nb) == IF l - r - bw = 1 THEN 1 ELSE 0

\* next_borrow_val and diff_val, the witness of enforce_ge.
NextBorrow(l, r, bw) == IF (r = 1 /\ l = 0) \/ (bw = 1 /\ l = 0) \/ (r = 1 /\ bw = 1) THEN 1 ELSE 0
Diff(l, r, bw, nb) == (l - r - bw + 2 * nb) % 2

\* Broken: the right output of the mux is not constrained.
MuxLeftOnly(s, a, b, l, r) == s * (a - b) = l - b

\* The constraints of conditional_swap and of one position of enforce_ge.  The
\* last position has no diff: its borrow is computed by gates and must be 0.
MuxHolds(s, a, b, l, r) == s * (a - b) = l - b /\ s * (b - a) = r - a
BorrowHolds(l, r, bw, nb, df) == l - r - bw - df = -2 * nb
FinalBorrow(l, r, bw) == NextBorrow(l, r, bw)

\* What the code assigns at position n: the words' bits and the selected operands.
HonestBits(d, a, b, l, r, s) ==
  /\ d = BitOf(DirectionWord(stmt))
  /\ a = BitOf(bias_for_circuit(stmt.cutoff))
  /\ b = BitOf(bias_for_circuit(stmt.dob))
  /\ l = (IF s = 1 THEN a ELSE b) /\ r = (IF s = 1 THEN b ELSE a)

\* The bits d, a, b of the three words become part of the assignment.
Assign(d, a, b, s) ==
  /\ dir' = Add(dir, d) /\ cutoff' = Add(cutoff, a) /\ dob' = Add(dob, b)
  /\ sel' = s
  /\ n' = n + 1 /\ weight' = 2 * weight

Selector(d) == IF n = 0 THEN d ELSE sel

\* A position below the last one: allocate and constrain the next borrow.
PositionWith(d, a, b, l, r, nb, df) == LET s == Selector(d) IN
  /\ verdict = "open"
  /\ n < Bits - 1
  /\ honest => /\ HonestBits(d, a, b, l, r, s)
               /\ nb = NextBorrow(l, r, borrow)
               /\ df = Diff(l, r, borrow, nb)
  /\ Assign(d, a, b, s)
  /\ borrow' = nb
  /\ verdict' = IF MuxHolds(s, a, b, l, r) /\ BorrowHolds(l, r, borrow, nb, df)
                THEN "open" ELSE "unsatisfied"
  /\ UNCHANGED <<stmt, honest>>

Position == \E d, a, b, l, r, nb, df \in Bit : PositionWith(d, a, b, l, r, nb, df)

\* The last position: the final borrow must be zero.
LastPosition == \E d, a, b, l, r \in Bit : LET s == Selector(d) IN
  /\ verdict = "open"
  /\ n = Bits - 1
  /\ honest => HonestBits(d, a, b, l, r, s)
  /\ Assign(d, a, b, s)
  /\ borrow' = FinalBorrow(l, r, borrow)
  /\ verdict' = IF MuxHolds(s, a, b, l, r) /\ FinalBorrow(l, r, borrow) = 0
                THEN "packing" ELSE "unsatisfied"
  /\ UNCHANGED <<stmt, honest>>

\* Broken: the direction bits are not packed into a public input.
PackWithoutDirection ==
  /\ verdict = "packing"
  /\ verdict' = IF /\ cutoff = bias_for_circuit(stmt.cutoff)
                   /\ dob = bias_for_circuit(stmt.dob)
                THEN "satisfied" ELSE "unsatisfied"
  /\ UNCHANGED <<stmt, honest, n, weight, dir, sel, cutoff, dob, borrow>>

\* The packed bits equal the verifier's inputs, the bits of the date of birth
\* open the commitment.
Pack ==
  /\ verdict = "packing"
  /\ verdict' = IF /\ dir = DirectionWord(stmt)
                   /\ cutoff = bias_for_circuit(stmt.cutoff)
                   /\ dob = bias_for_circuit(stmt.dob)
                THEN "satisfied" ELSE "unsatisfied"
  /\ UNCHANGED <<stmt, honest, n, weight, dir, sel, cutoff, dob, borrow>>

Finished == verdict \in {"satisfied", "unsatisfied"} /\ UNCHANGED vars

Next == Position \/ LastPosition \/ Pack \/ Finished

Spec == Init /\ [][Next]_vars

------------------------------------------------------------------------------

\* Types: the words and the borrow stay numbers and bits, whatever is assigned.
TypeOK ==
  /\ stmt \in Statement
  /\ honest \in BOOLEAN
  /\ n \in 0..Bits
  /\ weight \in Nat \ {0}
  /\ dir \in Nat /\ cutoff \in Nat /\ dob \in Nat
  /\ sel \in Bit /\ borrow \in Bit
  /\ verdict \in {"open", "packing", "satisfied", "unsatisfied"}

\* However the bits are assigned, constraints that hold prove the statement about
\* signed days: no choice of borrows, differences, swapped operands or direction
\* bits makes the circuit accept a date on the wrong side of the cutoff.
AgeSound == verdict = "satisfied" => Holds(stmt)

\* The assignment the code computes is refused only for a false statement, at
\* both ends of the range of days and on the day of the cutoff itself.
HonestComplete == honest /\ verdict = "unsatisfied" => ~Holds(stmt)

\* The operands of the comparison: the selector decides which word is the larger.
Left  == IF sel = 1 THEN cutoff ELSE dob
Right == IF sel = 1 THEN dob ELSE cutoff

\* The inductive invariant: the borrow into position n says that the low n bits
\* of the left operand are below those of the right one, and the direction bits
\* above the selector can only add.
BorrowInv ==
  /\ verdict \in {"open", "packing"} => (borrow = 1 <=> Left < Right)
  /\ verdict = "packing" => borrow = 0 /\ n > 0
  /\ dir < weight /\ cutoff < weight /\ dob < weight
  /\ n = 0 => dir = 0 /\ sel = 0 /\ cutoff = 0 /\ dob = 0 /\ borrow = 0 /\ weight = 1
  /\ n > 0 => weight >= 2 /\ (dir = sel \/ dir >= 2)

\* ... and an honest prover's words are the low n bits of the true ones, so that
\* the last position compares the words themselves.
HonestInv == honest =>
  /\ verdict = "open" => n < Bits
  /\ verdict = "packing" => n = Bits
  /\ weight = 2^n
  /\ dir = DirectionWord(stmt) % weight
  /\ cutoff = bias_for_circuit(stmt.cutoff) % weight
  /\ dob = bias_for_circuit(stmt.dob) % weight

\* The whole invariant: types, the meaning of the borrow and of an honest
\* prover's words, soundness and completeness themselves.
IInv == TypeOK /\ BorrowInv /\ HonestInv /\ AgeSound /\ HonestComplete
=============================================================================
