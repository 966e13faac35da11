----------------------------- MODULE U128Arith -----------------------------
(***************************************************************************)
(* The 128-bit integers of the Go SDK: two limbs in two's complement.  A   *)
(* limb has LimbBits bits, 64 in the code.  What each operation should     *)
(* return is said with Value and SignedValue, on the integers.             *)
(***************************************************************************)
EXTENDS Integers

CONSTANTS LimbBits,   \* bits of a limb
          Limb        \* 2^LimbBits

ASSUME LimbAssumption ==
  /\ LimbBits \in Nat /\ LimbBits > 1
  /\ Limb \in Nat /\ Limb > 3
  /\ Limb = 2^LimbBits

Word == 0 .. Limb - 1
Int128 == [Lo : Word, Hi : Word]
U128(lo, hi) == [Lo |-> lo, Hi |-> hi]
Zero == U128(0, 0)

\* The integer that is meant.
Value(u) == u.Hi * Limb + u.Lo
SignedValue(i) == IF 2 * i.Hi >= Limb THEN Value(i) - Limb * Limb ELSE Value(i)

-----------------------------------------------------------------------------
(* math/bits *)

Add64(x, y, carry) ==
  [sum |-> (x + y + carry) % Limb, carry |-> (x + y + carry) \div Limb]
Sub64(x, y, borrow) ==
  [diff |-> (x - y - borrow) % Limb, borrow |-> IF x < y + borrow THEN 1 ELSE 0]
Mul64(x, y) == [hi |-> (x * y) \div Limb, lo |-> (x * y) % Limb]

\* Of a divisor that is not above the high word, a panic.
Div64Panics(hi, y) == y = 0 \/ y <= hi
Div64(hi, lo, y) == [quo |-> (hi * Limb + lo) \div y, rem |-> (hi * Limb + lo) % y]

-----------------------------------------------------------------------------
(* Comparison *)

IsZero(u) == u.Lo = 0 /\ u.Hi = 0
IsNegative(i) == i.Hi >= Limb \div 2

Cmp(u, other) ==
  IF u.Hi # other.Hi THEN (IF u.Hi < other.Hi THEN -1 ELSE 1)
  ELSE IF u.Lo # other.Lo THEN (IF u.Lo < other.Lo THEN -1 ELSE 1)
  ELSE 0

CmpSigned(i, other) ==
  IF IsNegative(i) # IsNegative(other) THEN (IF IsNegative(i) THEN -1 ELSE 1)
  ELSE Cmp(i, other)

I128From(v) == U128(v % Limb, IF v < 0 THEN Limb - 1 ELSE 0)

-----------------------------------------------------------------------------
(* Addition, subtraction, multiplication.  "ok" is the second result of a  *)
(* checked operation; the wrapping one of the same name returns the first. *)

AddChecked(u, other) ==
  LET lo == Add64(u.Lo, other.Lo, 0)
      hi == Add64(u.Hi, other.Hi, lo.carry)
  IN  [val |-> U128(lo.sum, hi.sum), ok |-> hi.carry = 0]

SubChecked(u, other) ==
  LET lo == Sub64(u.Lo, other.Lo, 0)
      hi == Sub64(u.Hi, other.Hi, lo.borrow)
  IN  [val |-> U128(lo.diff, hi.diff), ok |-> hi.borrow = 0]

Mul(u, other) ==
  LET p == Mul64(u.Lo, other.Lo)
  IN  U128(p.lo, (p.hi + u.Lo * other.Hi + u.Hi * other.Lo) % Limb)

\* The carry out of the second addition of r1 is lost.
MulCheckedLosesCarry(u, other) ==
  LET p00 == Mul64(u.Lo, other.Lo)
      p01 == Mul64(u.Lo, other.Hi)
      p10 == Mul64(u.Hi, other.Lo)
      p11 == Mul64(u.Hi, other.Hi)
      a1  == Add64(p00.hi, p01.lo, 0)
      a2  == Add64(a1.sum, p10.lo, 0)
      a3  == Add64(p01.hi, p10.hi, 0)
      a4  == Add64(a3.sum, p11.lo, 0)
      a5  == Add64(a4.sum, a1.carry, 0)
      r3  == (p11.hi + a3.carry + a4.carry + a5.carry) % Limb
  IN  [val |-> U128(p00.lo, a2.sum), ok |-> a5.sum = 0 /\ r3 = 0]

\* The product in four limbs: a1 and a2 add up the second, a3 to a5 the third
\* with the carries of the second, and their carries go to the fourth.
MulChecked(u, other) ==
  LET p00 == Mul64(u.Lo, other.Lo)
      p01 == Mul64(u.Lo, other.Hi)
      p10 == Mul64(u.Hi, other.Lo)
      p11 == Mul64(u.Hi, other.Hi)
      a1  == Add64(p00.hi, p01.lo, 0)
      a2  == Add64(a1.sum, p10.lo, 0)
      a3  == Add64(p01.hi, p10.hi, 0)
      a4  == Add64(a3.sum, p11.lo, 0)
      a5  == Add64(a4.sum, a1.carry + a2.carry, 0)
      r3  == (p11.hi + a3.carry + a4.carry + a5.carry) % Limb
  IN  [val |-> U128(p00.lo, a2.sum), ok |-> a5.sum = 0 /\ r3 = 0]

-----------------------------------------------------------------------------
(* Division *)

Shl1(u) == U128((2 * u.Lo) % Limb,
                ((2 * u.Hi) % Limb) + ((2 * u.Lo) \div Limb))

Bit(u, i) == IF i < LimbBits THEN (u.Lo \div 2^i) % 2
             ELSE (u.Hi \div 2^(i - LimbBits)) % 2

\* q with its bit i set, which it has not been.
SetBit(q, i) == IF i < LimbBits THEN [q EXCEPT !.Lo = @ + 2^i]
                ELSE [q EXCEPT !.Hi = @ + 2^(i - LimbBits)]

\* The quotient and the remainder after k steps of the long division, which
\* takes the bits of u from the highest.
LongDivision(u, other) ==
  LET after[k \in 0 .. 2 * LimbBits] ==
        IF k = 0 THEN [q |-> Zero, rem |-> Zero]
        ELSE LET i   == 2 * LimbBits - k
                 s   == Shl1(after[k - 1].rem)
                 rem == [s EXCEPT !.Lo = @ + Bit(u, i)]
             IN  IF Cmp(rem, other) >= 0
                 THEN [q   |-> SetBit(after[k - 1].q, i),
                       rem |-> SubChecked(rem, other).val]
                 ELSE [q |-> after[k - 1].q, rem |-> rem]
  IN  after[2 * LimbBits]

\* Division by a single limb, from the high limb of u.
LimbDivision(u, y) ==
  LET hi == Div64(0, u.Hi, y)
      lo == Div64(hi.rem, u.Lo, y)
  IN  [q |-> U128(lo.quo, hi.quo), rem |-> U128(lo.rem, 0)]

LimbDivisionPanics(u, y) ==
  \/ Div64Panics(0, y)
  \/ Div64Panics(Div64(0, u.Hi, y).rem, y)

DivMod(u, other) ==
  IF Cmp(u, other) < 0 THEN [q |-> Zero, rem |-> u]
  ELSE IF other.Hi = 0 THEN LimbDivision(u, other.Lo)
  ELSE LongDivision(u, other)

DivModPanics(u, other) ==
  \/ IsZero(other)
  \/ /\ Cmp(u, other) >= 0
     /\ other.Hi = 0
     /\ LimbDivisionPanics(u, other.Lo)
=============================================================================
