-------------------------- MODULE SdkAlgorithmsProofs --------------------------
(***************************************************************************)
(* The 128-bit arithmetic is the integers', for limbs of any width; the    *)
(* intent check takes a manifest for what TOML says it means, and warns of *)
(* the names one edit away from a marker.                                  *)
(***************************************************************************)
EXTENDS SdkAlgorithms, DataProofs

\* Zero, one, two and three are words.
LEMMA LimbPositive == Limb \in Int /\ Limb > 3
BY LimbAssumption

\* A multiple of a number is no smaller.
LEMMA Multiple ==
  ASSUME NEW k \in Int, k >= 1, NEW n \in Int, n >= 0
  PROVE  k * n \in Int /\ k * n >= n
<1> DEFINE j == k - 1
<1>1. j \in Int /\ j >= 0 /\ k = j + 1
  OBVIOUS
<1>2. j * n \in Int /\ j * n >= 0
  <2> HIDE DEF j
  <2> QED BY <1>1
<1>3. k * n = j * n + n
  <2> HIDE DEF j
  <2> QED BY <1>1
<1> QED BY <1>2, <1>3

\* Division of the library, for any divisor.
LEMMA Divided ==
  ASSUME NEW d \in Int, d > 0, NEW n \in Int
  PROVE  /\ n \div d \in Int /\ n % d \in Int
         /\ 0 <= n % d /\ n % d < d
         /\ n = (n \div d) * d + (n % d)
OBVIOUS

\* A quotient and a remainder are the only ones, for any divisor.
LEMMA DividedUnique ==
  ASSUME NEW d \in Int, d > 0, NEW n \in Int, NEW q \in Int, NEW r \in Int,
         0 <= r, r < d, n = q * d + r
  PROVE  n \div d = q /\ n % d = r
<1> DEFINE e == n \div d  m == n % d
<1>1. e \in Int /\ m \in Int /\ 0 <= m /\ m < d /\ n = e * d + m
  BY Divided
<1> HIDE DEF e, m
<1>2. (e - q) * d = r - m
  BY <1>1
<1>3. e = q
  <2>1. CASE e > q
    <3>1. e - q \in Int /\ e - q >= 1
      BY <2>1, <1>1
    <3>2. (e - q) * d >= d
      BY <3>1, Multiple
    <3> QED BY <3>2, <1>1, <1>2
  <2>2. CASE e < q
    <3>1. q - e \in Int /\ q - e >= 1
      BY <2>2, <1>1
    <3>2. (q - e) * d >= d
      BY <3>1, Multiple
    <3>3. (q - e) * d = m - r
      BY <1>1, <1>2
    <3> QED BY <3>2, <3>3, <1>1
  <2> QED BY <2>1, <2>2, <1>1
<1>4. m = r
  BY <1>1, <1>3
<1> QED BY <1>3, <1>4 DEF e, m

\* Division of the library, of integers by the limb.
LEMMA Quotient ==
  ASSUME NEW n \in Int
  PROVE  /\ n \div Limb \in Int /\ n % Limb \in Word
         /\ n = (n \div Limb) * Limb + (n % Limb)
BY LimbAssumption DEF Word

\* By the limb.
LEMMA Unique ==
  ASSUME NEW n \in Int, NEW q \in Int, NEW r \in Word, n = q * Limb + r
  PROVE  n \div Limb = q /\ n % Limb = r
BY DividedUnique, LimbPositive DEF Word

-----------------------------------------------------------------------------
(* One limb *)

\* Add64 loses nothing.
LEMMA Carry ==
  ASSUME NEW x \in Word, NEW y \in Word, NEW c \in {0, 1}
  PROVE  /\ Add64(x, y, c).sum \in Word
         /\ Add64(x, y, c).carry \in {0, 1}
         /\ x + y + c = Add64(x, y, c).carry * Limb + Add64(x, y, c).sum
<1> DEFINE n == x + y + c  q == IF n < Limb THEN 0 ELSE 1
<1>1. n \in Int /\ 0 <= n /\ n < 2 * Limb
  BY LimbPositive DEF Word
<1>2. q \in Int /\ n - q * Limb \in Word /\ n = q * Limb + (n - q * Limb)
  <2>1. CASE n < Limb
    BY <2>1, <1>1, LimbPositive DEF Word
  <2>2. CASE ~ (n < Limb)
    BY <2>2, <1>1, LimbPositive DEF Word
  <2> QED BY <2>1, <2>2
<1>3. n \div Limb = q /\ n % Limb = n - q * Limb
  <2> HIDE DEF n, q
  <2> QED BY <1>1, <1>2, Unique
<1>4. Add64(x, y, c) = [sum |-> n - q * Limb, carry |-> q]
  BY <1>3 DEF Add64
<1> QED BY <1>1, <1>2, <1>4, LimbPositive DEF Word

\* Nor without a carry in.
LEMMA CarryFree ==
  ASSUME NEW x \in Word, NEW y \in Word
  PROVE  /\ Add64(x, y, 0).sum \in Word
         /\ Add64(x, y, 0).carry \in {0, 1}
         /\ x + y = Add64(x, y, 0).carry * Limb + Add64(x, y, 0).sum
<1>1. x + y + 0 = x + y
  BY LimbPositive DEF Word
<1>2. 0 \in {0, 1}
  OBVIOUS
<1> QED BY <1>1, <1>2, Carry

\* Sub64 neither.
LEMMA Borrow ==
  ASSUME NEW x \in Word, NEW y \in Word, NEW b \in {0, 1}
  PROVE  /\ Sub64(x, y, b).diff \in Word
         /\ Sub64(x, y, b).borrow \in {0, 1}
         /\ x - y - b = Sub64(x, y, b).diff - Sub64(x, y, b).borrow * Limb
<1> DEFINE n == x - y - b  q == IF x < y + b THEN 1 ELSE 0
<1>1. n \in Int /\ -Limb <= n /\ n < Limb /\ (x < y + b <=> n < 0)
  BY LimbPositive DEF Word
<1>2. -q \in Int /\ n + q * Limb \in Word /\ n = (-q) * Limb + (n + q * Limb)
  <2>1. CASE x < y + b
    BY <2>1, <1>1, LimbPositive DEF Word
  <2>2. CASE ~ (x < y + b)
    BY <2>2, <1>1, LimbPositive DEF Word
  <2> QED BY <2>1, <2>2
<1>3. n % Limb = n + q * Limb
  <2> HIDE DEF n, q
  <2> QED BY <1>1, <1>2, Unique
<1>4. Sub64(x, y, b) = [diff |-> n + q * Limb, borrow |-> q]
  BY <1>3 DEF Sub64
<1> QED BY <1>1, <1>2, <1>4, LimbPositive DEF Word

-----------------------------------------------------------------------------
(* Two limbs *)

\* The value of two limbs orders them by the high one first.
LEMMA Lexicographic ==
  ASSUME NEW h \in Int, NEW k \in Int, NEW l \in Word, NEW m \in Word, h < k
  PROVE  h * Limb + l < k * Limb + m
<1>1. k - h \in Int /\ k - h >= 1
  OBVIOUS
<1>2. (k - h) * Limb >= Limb
  BY <1>1, LimbPositive, Multiple
<1>3. k * Limb = h * Limb + (k - h) * Limb
  BY LimbPositive
<1> QED BY <1>2, <1>3, LimbPositive DEF Word

\* Two limbs hold less than 2^128.
LEMMA ValueRange ==
  ASSUME NEW u \in Int128
  PROVE  Value(u) \in Int /\ 0 <= Value(u) /\ Value(u) < Limb * Limb
<1>1. u.Hi \in Word /\ u.Lo \in Word
  BY DEF Int128
<1>2. Value(u) = u.Hi * Limb + u.Lo
  BY DEF Value
<1>3. u.Hi * Limb \in Int /\ u.Hi * Limb >= 0
  BY <1>1, LimbPositive DEF Word
<1>4. u.Hi * Limb + u.Lo < Limb * Limb + 0
  BY <1>1, Lexicographic, LimbPositive DEF Word
<1> QED BY <1>1, <1>2, <1>3, <1>4, LimbPositive DEF Word

\* Cmp is the order of the values.
THEOREM CmpExact ==
  ASSUME NEW u \in Int128, NEW v \in Int128
  PROVE  Cmp(u, v) = IF Value(u) < Value(v) THEN -1 ELSE IF Value(u) = Value(v) THEN 0 ELSE 1
<1>1. u.Hi \in Word /\ u.Lo \in Word /\ v.Hi \in Word /\ v.Lo \in Word
  BY DEF Int128
<1>0. Value(u) \in Int /\ Value(v) \in Int
  BY ValueRange
<1>2. CASE u.Hi < v.Hi
  <2>1. u.Hi \in Int /\ v.Hi \in Int
    BY <1>1, LimbPositive DEF Word
  <2>2. Value(u) < Value(v)
    BY <2>1, <1>1, <1>2, Lexicographic DEF Value
  <2> QED BY <2>1, <2>2, <1>2, <1>0 DEF Cmp
<1>3. CASE v.Hi < u.Hi
  <2>1. u.Hi \in Int /\ v.Hi \in Int
    BY <1>1, LimbPositive DEF Word
  <2>2. Value(v) < Value(u)
    BY <2>1, <1>1, <1>3, Lexicographic DEF Value
  <2> QED BY <2>1, <2>2, <1>3, <1>0 DEF Cmp
<1>4. CASE u.Hi = v.Hi
  BY <1>1, <1>4, LimbPositive DEF Cmp, Value, Word
<1> QED BY <1>1, <1>2, <1>3, <1>4, LimbPositive DEF Word

\* AddChecked: the sum modulo 2^128, and a flag for the whole sum.
THEOREM AddCheckedExact ==
  ASSUME NEW u \in Int128, NEW v \in Int128
  PROVE  LET r == AddChecked(u, v)
         IN  /\ r.val \in Int128
             /\ r.ok <=> Value(u) + Value(v) < Limb * Limb
             /\ Value(r.val) = Value(u) + Value(v) - (IF r.ok THEN 0 ELSE Limb * Limb)
<1> DEFINE lo == Add64(u.Lo, v.Lo, 0)
           hi == Add64(u.Hi, v.Hi, lo.carry)
           r  == U128(lo.sum, hi.sum)
<1>1. u.Hi \in Word /\ u.Lo \in Word /\ v.Hi \in Word /\ v.Lo \in Word
  BY DEF Int128
<1>2. lo.sum \in Word /\ lo.carry \in {0, 1} /\ u.Lo + v.Lo = lo.carry * Limb + lo.sum
  BY <1>1, CarryFree
<1> HIDE DEF lo
<1>3. hi.sum \in Word /\ hi.carry \in {0, 1}
      /\ u.Hi + v.Hi + lo.carry = hi.carry * Limb + hi.sum
  BY <1>1, <1>2, Carry
<1> HIDE DEF hi
<1>4. AddChecked(u, v) = [val |-> r, ok |-> hi.carry = 0]
  BY DEF AddChecked, lo, hi
<1>5. r \in Int128 /\ Value(r) = hi.sum * Limb + lo.sum
  BY <1>2, <1>3 DEF U128, Int128, Value
<1>6. Value(u) + Value(v) = hi.carry * (Limb * Limb) + Value(r)
  <2>1. Value(u) + Value(v) = (u.Hi + v.Hi) * Limb + (u.Lo + v.Lo)
    BY <1>1, LimbPositive DEF Value, Word
  <2>2. @ = (u.Hi + v.Hi + lo.carry) * Limb + lo.sum
    BY <1>1, <1>2, LimbPositive DEF Word
  <2>3. @ = hi.carry * (Limb * Limb) + (hi.sum * Limb + lo.sum)
    BY <1>2, <1>3, LimbPositive DEF Word
  <2> QED BY <2>1, <2>2, <2>3, <1>5
<1>7. Value(r) \in Int /\ 0 <= Value(r) /\ Value(r) < Limb * Limb
  BY <1>5, ValueRange
<1>8. Value(u) \in Int /\ Value(v) \in Int /\ Limb * Limb \in Int
      /\ Value(u) >= 0 /\ Value(v) >= 0
  BY ValueRange, LimbPositive
<1>9. /\ hi.carry = 0 <=> Value(u) + Value(v) < Limb * Limb
      /\ Value(r) = Value(u) + Value(v) - (IF hi.carry = 0 THEN 0 ELSE Limb * Limb)
  <2> DEFINE M == Limb * Limb  s == Value(u)  t == Value(v)  w == Value(r)  c == hi.carry
  <2>1. c \in {0, 1} /\ M \in Int /\ s \in Int /\ t \in Int /\ w \in Int
        /\ 0 <= w /\ w < M /\ s + t = c * M + w
    BY <1>3, <1>6, <1>7, <1>8
  <2> HIDE DEF M, s, t, w, c
  <2>2. c = 0 <=> s + t < M
    BY <2>1
  <2>3. w = s + t - (IF c = 0 THEN 0 ELSE M)
    BY <2>1
  <2> QED BY <2>2, <2>3 DEF M, s, t, w, c
<1>10. AddChecked(u, v).val = r /\ AddChecked(u, v).ok = (hi.carry = 0)
  BY <1>4
<1> HIDE DEF r
<1> QED BY <1>5, <1>9, <1>10, Zenon

\* SubChecked: the difference modulo 2^128, and a flag for one not below zero.
THEOREM SubCheckedExact ==
  ASSUME NEW u \in Int128, NEW v \in Int128
  PROVE  LET r == SubChecked(u, v)
         IN  /\ r.val \in Int128
             /\ r.ok <=> Value(u) >= Value(v)
             /\ Value(r.val) = Value(u) - Value(v) + (IF r.ok THEN 0 ELSE Limb * Limb)
<1> DEFINE lo == Sub64(u.Lo, v.Lo, 0)
           hi == Sub64(u.Hi, v.Hi, lo.borrow)
           r  == U128(lo.diff, hi.diff)
<1>1. u.Hi \in Word /\ u.Lo \in Word /\ v.Hi \in Word /\ v.Lo \in Word
  BY DEF Int128
<1>2. lo.diff \in Word /\ lo.borrow \in {0, 1} /\ u.Lo - v.Lo = lo.diff - lo.borrow * Limb
  <2>1. u.Lo - v.Lo - 0 = u.Lo - v.Lo /\ 0 \in {0, 1}
    BY <1>1, LimbPositive DEF Word
  <2> QED BY <2>1, <1>1, Borrow
<1> HIDE DEF lo
<1>3. hi.diff \in Word /\ hi.borrow \in {0, 1}
      /\ u.Hi - v.Hi - lo.borrow = hi.diff - hi.borrow * Limb
  BY <1>1, <1>2, Borrow
<1> HIDE DEF hi
<1>4. SubChecked(u, v) = [val |-> r, ok |-> hi.borrow = 0]
  BY DEF SubChecked, lo, hi
<1>5. r \in Int128 /\ Value(r) = hi.diff * Limb + lo.diff
  BY <1>2, <1>3 DEF U128, Int128, Value
<1>6. Value(u) - Value(v) = Value(r) - hi.borrow * (Limb * Limb)
  <2>1. Value(u) - Value(v) = (u.Hi - v.Hi) * Limb + (u.Lo - v.Lo)
    BY <1>1, LimbPositive DEF Value, Word
  <2>2. @ = (u.Hi - v.Hi - lo.borrow) * Limb + lo.diff
    BY <1>1, <1>2, LimbPositive DEF Word
  <2>3. @ = (hi.diff - hi.borrow * Limb) * Limb + lo.diff
    BY <1>3
  <2>4. hi.diff \in Int /\ hi.borrow \in Int /\ lo.diff \in Int
    BY <1>2, <1>3, LimbPositive DEF Word
  <2>5. (hi.diff - hi.borrow * Limb) * Limb = hi.diff * Limb - hi.borrow * (Limb * Limb)
    BY <2>4, LimbPositive
  <2>6. hi.diff * Limb \in Int /\ hi.borrow * (Limb * Limb) \in Int
    BY <2>4, LimbPositive
  <2> QED BY <2>1, <2>2, <2>3, <2>4, <2>5, <2>6, <1>5
<1>7. Value(r) \in Int /\ 0 <= Value(r) /\ Value(r) < Limb * Limb
  BY <1>5, ValueRange
<1>8. Value(u) \in Int /\ Value(v) \in Int /\ Limb * Limb \in Int
  BY ValueRange, LimbPositive
<1>9. /\ hi.borrow = 0 <=> Value(u) >= Value(v)
      /\ Value(r) = Value(u) - Value(v) + (IF hi.borrow = 0 THEN 0 ELSE Limb * Limb)
  <2> DEFINE M == Limb * Limb  s == Value(u)  t == Value(v)  w == Value(r)  c == hi.borrow
  <2>1. c \in {0, 1} /\ M \in Int /\ s \in Int /\ t \in Int /\ w \in Int
        /\ 0 <= w /\ w < M /\ s - t = w - c * M
    BY <1>3, <1>6, <1>7, <1>8
  <2> HIDE DEF M, s, t, w, c
  <2>2. c = 0 <=> s >= t
    BY <2>1
  <2>3. w = s - t + (IF c = 0 THEN 0 ELSE M)
    BY <2>1
  <2> QED BY <2>2, <2>3 DEF M, s, t, w, c
<1>10. SubChecked(u, v).val = r /\ SubChecked(u, v).ok = (hi.borrow = 0)
  BY <1>4
<1> HIDE DEF r
<1> QED BY <1>5, <1>9, <1>10, Zenon

-----------------------------------------------------------------------------
(* The product *)

\* Mul64 loses nothing.
LEMMA Product ==
  ASSUME NEW x \in Word, NEW y \in Word
  PROVE  /\ Mul64(x, y).hi \in Word /\ Mul64(x, y).lo \in Word
         /\ x * y = Mul64(x, y).hi * Limb + Mul64(x, y).lo
<1> DEFINE n == x * y  h == n \div Limb  l == n % Limb
<1>1. x \in Int /\ y \in Int /\ x >= 0 /\ y >= 0 /\ x < Limb /\ y < Limb
  BY LimbPositive DEF Word
<1>2. n \in Int /\ 0 <= n
  BY <1>1
<1>3. n < Limb * Limb
  <2>1. x * y <= x * Limb
    <3>1. x * (Limb - y) >= 0 /\ x * (Limb - y) = x * Limb - x * y
      BY <1>1, LimbPositive
    <3> QED BY <3>1, <1>1, LimbPositive
  <2>2. x * Limb < Limb * Limb
    <3>1. x * Limb + 0 < Limb * Limb + 0
      BY <1>1, Lexicographic, LimbPositive DEF Word
    <3> QED BY <3>1, <1>1, LimbPositive
  <2>3. x * y \in Int /\ x * Limb \in Int /\ Limb * Limb \in Int
    BY <1>1, LimbPositive
  <2> QED BY <2>1, <2>2, <2>3
<1>4. Mul64(x, y) = [hi |-> h, lo |-> l]
  BY DEF Mul64
<1> HIDE DEF n
<1>5. h \in Int /\ l \in Word /\ n = h * Limb + l
  BY <1>2, Quotient
<1> HIDE DEF h, l
<1>6. h < Limb
  <2> SUFFICES ASSUME h >= Limb PROVE FALSE
    BY <1>5, LimbPositive
  <2>1. CASE h = Limb
    BY <2>1, <1>3, <1>5, LimbPositive DEF Word
  <2>2. CASE h > Limb
    <3>1. Limb * Limb + 0 < h * Limb + l
      BY <2>2, <1>5, Lexicographic, LimbPositive DEF Word
    <3> QED BY <3>1, <1>2, <1>3, <1>5, LimbPositive
  <2> QED BY <2>1, <2>2, <1>5, LimbPositive
<1>7. h >= 0
  <2> SUFFICES ASSUME h < 0 PROVE FALSE
    BY <1>5
  <2>1. h * Limb + l < 0 * Limb + 0
    BY <1>5, Lexicographic, LimbPositive DEF Word
  <2> QED BY <2>1, <1>2, <1>5, LimbPositive
<1>8. h \in Word
  BY <1>5, <1>6, <1>7, LimbPositive DEF Word
<1> QED BY <1>4, <1>5, <1>8 DEF n

\* Long multiplication in base n.
LEMMA Expand ==
  ASSUME NEW n \in Int, NEW a \in Int, NEW b \in Int, NEW c \in Int, NEW d \in Int
  PROVE  (a * n + b) * (c * n + d) = b * d + (b * c + a * d) * n + (a * c) * (n * n)
OBVIOUS

\* Four limbs: the upper two are zero exactly if the number fits the lower two.
LEMMA UpperLimbs ==
  ASSUME NEW low \in Int, 0 <= low, low < Limb * Limb,
         NEW r2 \in Word, NEW r3 \in Nat,
         NEW n \in Int, n = low + (r3 * Limb + r2) * (Limb * Limb)
  PROVE  /\ n < Limb * Limb <=> r2 = 0 /\ r3 = 0
         /\ n < (Limb * Limb) * (Limb * Limb) => r3 < Limb
<1> DEFINE M == Limb * Limb  k == r3 * Limb + r2
<1>1. M \in Int /\ M > 0 /\ r3 * Limb \in Int /\ r3 * Limb >= 0
  BY LimbPositive
<1>2. k \in Int /\ k >= 0
  <2> DEFINE m == r3 * Limb
  <2>1. m \in Int /\ m >= 0 /\ r2 \in Int /\ r2 >= 0
    BY <1>1, LimbPositive DEF Word
  <2> HIDE DEF m
  <2>2. m + r2 \in Int /\ m + r2 >= 0
    BY <2>1
  <2> QED BY <2>2 DEF m
<1>3. k = 0 <=> r2 = 0 /\ r3 = 0
  <2>1. CASE r3 = 0
    BY <2>1, LimbPositive DEF Word
  <2>2. CASE r3 # 0
    <3>1. r3 * Limb >= Limb
      BY <2>2, LimbPositive, Multiple
    <3> QED BY <3>1, <2>2, <1>1, LimbPositive DEF Word
  <2> QED BY <2>1, <2>2
<1>4. n < M <=> k = 0
  <2>0. n = low + k * M
    OBVIOUS
  <2> HIDE DEF k, M
  <2>1. CASE k = 0
    <3>1. k * M = 0
      BY <2>1, <1>1
    <3> QED BY <3>1, <2>0, <2>1, <1>1 DEF M
  <2>2. CASE k # 0
    <3>1. k * M >= M /\ k * M \in Int
      BY <2>2, <1>1, <1>2, Multiple
    <3> QED BY <3>1, <2>0, <2>2, <1>1
  <2> QED BY <2>1, <2>2
<1>5. ASSUME r3 >= Limb PROVE n >= M * M
  <2>1. r3 * Limb >= M
    <3>1. (r3 - Limb) * Limb >= 0 /\ (r3 - Limb) * Limb = r3 * Limb - Limb * Limb
      BY <1>5, LimbPositive
    <3> QED BY <3>1, <1>1
  <2>2. k >= M
    BY <2>1, <1>1, LimbPositive DEF Word
  <2> HIDE DEF k
  <2>3. k * M >= M * M
    <3> HIDE DEF M
    <3>1. (k - M) * M >= 0 /\ (k - M) * M = k * M - M * M
      BY <2>2, <1>1, <1>2
    <3> QED BY <3>1, <1>1, <1>2
  <2>4. n = low + k * M
    BY DEF k
  <2> HIDE DEF M
  <2> QED BY <2>3, <2>4, <1>1, <1>2
<1>6. M * M \in Int
  BY <1>1
<1>7. n < M * M => r3 < Limb
  <2> HIDE DEF M
  <2> QED BY <1>5, <1>6, LimbPositive
<1> QED BY <1>3, <1>4, <1>7

\* MulChecked: the product modulo 2^128, and a flag for one that fits; no carry is lost, not
\* even by the fourth limb, which is added up without a look at its overflow.
THEOREM MulCheckedExact ==
  ASSUME NEW u \in Int128, NEW v \in Int128
  PROVE  LET r == MulChecked(u, v)
         IN  /\ r.val \in Int128
             /\ r.ok <=> Value(u) * Value(v) < Limb * Limb
             /\ Value(r.val) = (Value(u) * Value(v)) % (Limb * Limb)
             /\ r.ok => Value(r.val) = Value(u) * Value(v)
<1> DEFINE p00 == Mul64(u.Lo, v.Lo)  p01 == Mul64(u.Lo, v.Hi)
           p10 == Mul64(u.Hi, v.Lo)  p11 == Mul64(u.Hi, v.Hi)
           a1  == Add64(p00.hi, p01.lo, 0)
           a2  == Add64(a1.sum, p10.lo, 0)
           a3  == Add64(p01.hi, p10.hi, 0)
           a4  == Add64(a3.sum, p11.lo, 0)
           e   == a1.carry + a2.carry
           a5  == Add64(a4.sum, e, 0)
           top == p11.hi + a3.carry + a4.carry + a5.carry
           f   == a3.carry + a4.carry + a5.carry
           r   == U128(p00.lo, a2.sum)
           n   == Value(u) * Value(v)
<1>1. u.Hi \in Word /\ u.Lo \in Word /\ v.Hi \in Word /\ v.Lo \in Word
  BY DEF Int128
<1>2. /\ MulChecked(u, v).val = r
      /\ MulChecked(u, v).ok = (a5.sum = 0 /\ top % Limb = 0)
  BY DEF MulChecked
<1> HIDE DEF r
<1>3. /\ p00.hi \in Word /\ p00.lo \in Word /\ p01.hi \in Word /\ p01.lo \in Word
      /\ p10.hi \in Word /\ p10.lo \in Word /\ p11.hi \in Word /\ p11.lo \in Word
  BY <1>1, Product
<1>21. /\ u.Lo * v.Lo = p00.hi * Limb + p00.lo /\ u.Lo * v.Hi = p01.hi * Limb + p01.lo
       /\ u.Hi * v.Lo = p10.hi * Limb + p10.lo /\ u.Hi * v.Hi = p11.hi * Limb + p11.lo
  BY <1>1, Product
<1> HIDE DEF p00, p01, p10, p11
<1>4. a1.sum \in Word /\ a1.carry \in {0, 1} /\ p00.hi + p01.lo = a1.carry * Limb + a1.sum
  BY <1>3, CarryFree
<1> HIDE DEF a1
<1>5. a2.sum \in Word /\ a2.carry \in {0, 1} /\ a1.sum + p10.lo = a2.carry * Limb + a2.sum
  BY <1>3, <1>4, CarryFree
<1> HIDE DEF a2
<1>6. a3.sum \in Word /\ a3.carry \in {0, 1} /\ p01.hi + p10.hi = a3.carry * Limb + a3.sum
  BY <1>3, CarryFree
<1> HIDE DEF a3
<1>7. a4.sum \in Word /\ a4.carry \in {0, 1} /\ a3.sum + p11.lo = a4.carry * Limb + a4.sum
  BY <1>3, <1>6, CarryFree
<1> HIDE DEF a4
<1>8. e \in Word
  BY <1>4, <1>5, LimbPositive DEF Word
<1>9. a5.sum \in Word /\ a5.carry \in {0, 1} /\ a4.sum + e = a5.carry * Limb + a5.sum
  <2> HIDE DEF e
  <2> QED BY <1>7, <1>8, CarryFree
<1> HIDE DEF a5
<1>22. /\ p00.hi \in Int /\ p00.lo \in Int /\ p01.hi \in Int /\ p01.lo \in Int
       /\ p10.hi \in Int /\ p10.lo \in Int /\ p11.hi \in Nat /\ p11.lo \in Int
  BY <1>3, LimbPositive DEF Word
<1>23. /\ a1.sum \in Int /\ a2.sum \in Int /\ a3.sum \in Int /\ a4.sum \in Int
       /\ a5.sum \in Int
  BY <1>4, <1>5, <1>6, <1>7, <1>9, LimbPositive DEF Word
<1>24. /\ a1.carry \in Nat /\ a2.carry \in Nat /\ a3.carry \in Nat /\ a4.carry \in Nat
       /\ a5.carry \in Nat
  BY <1>4, <1>5, <1>6, <1>7, <1>9
<1>25. /\ a1.carry * Limb \in Int /\ a2.carry * Limb \in Int /\ a3.carry * Limb \in Int
       /\ a4.carry * Limb \in Int /\ a5.carry * Limb \in Int
  BY <1>24, LimbPositive
<1>10. p00.hi + p01.lo + p10.lo = e * Limb + a2.sum
  <2>1. e * Limb = a1.carry * Limb + a2.carry * Limb
    BY <1>24, LimbPositive
  <2> HIDE DEF e
  <2> QED BY <2>1, <1>4, <1>5, <1>22, <1>23, <1>25
<1>11. p01.hi + p10.hi + p11.lo + e = f * Limb + a5.sum
  <2>1. e \in Int
    BY <1>24
  <2> HIDE DEF e
  <2>2. f * Limb = a3.carry * Limb + a4.carry * Limb + a5.carry * Limb
    BY <1>24, LimbPositive
  <2> HIDE DEF f
  <2> QED BY <2>1, <2>2, <1>6, <1>7, <1>9, <1>22, <1>23, <1>25
<1>12. e \in Int /\ f \in Nat
  BY <1>24
<1>13. top = p11.hi + f /\ top \in Nat
  <2>1. top = p11.hi + f
    BY <1>22, <1>24
  <2> HIDE DEF top, f
  <2> QED BY <2>1, <1>22, <1>12
<1>26. f \in Int /\ p11.hi \in Int
  BY <1>12, <1>22
<1> HIDE DEF e, f, top
<1>14. n = (a2.sum * Limb + p00.lo) + (top * Limb + a5.sum) * (Limb * Limb)
  <2>1. n = u.Lo * v.Lo + (u.Lo * v.Hi + u.Hi * v.Lo) * Limb + (u.Hi * v.Hi) * (Limb * Limb)
    <3>1. u.Hi \in Int /\ u.Lo \in Int /\ v.Hi \in Int /\ v.Lo \in Int
      BY <1>1, LimbPositive DEF Word
    <3> QED BY <3>1, LimbPositive, Expand DEF Value
  <2>2. n = (p00.hi * Limb + p00.lo)
            + ((p01.hi * Limb + p01.lo) + (p10.hi * Limb + p10.lo)) * Limb
            + (p11.hi * Limb + p11.lo) * (Limb * Limb)
    BY <2>1, <1>21, Zenon
  <2> HIDE DEF n
  <2>4. n = (a2.sum * Limb + p00.lo) + ((p11.hi + f) * Limb + a5.sum) * (Limb * Limb)
    <3> DEFINE h00 == p00.hi  l00 == p00.lo  h01 == p01.hi  l01 == p01.lo
               h10 == p10.hi  l10 == p10.lo  h11 == p11.hi  l11 == p11.lo
               r1 == a2.sum  r2 == a5.sum  N == Limb  m == Limb * Limb  c == Limb * m
    <3>1. /\ h00 \in Int /\ l00 \in Int /\ h01 \in Int /\ l01 \in Int
          /\ h10 \in Int /\ l10 \in Int /\ h11 \in Int /\ l11 \in Int
          /\ r1 \in Int /\ r2 \in Int /\ N \in Int /\ m \in Int /\ e \in Int /\ f \in Int
      BY <1>12, <1>22, <1>23, LimbPositive
    <3>2. m = N * N /\ c = N * m
      OBVIOUS
    <3>3. /\ h00 + l01 + l10 = e * N + r1
          /\ h01 + h10 + l11 = f * N + r2 - e
      <4>1. h01 + h10 + l11 + e = f * N + r2 /\ f * N \in Int
        BY <1>11, <1>12, LimbPositive
      <4> HIDE DEF h01, h10, l11, N, r2
      <4>2. h01 + h10 + l11 = f * N + r2 - e
        BY <4>1, <3>1
      <4> QED BY <4>2, <1>10 DEF N
    <3>4. n = (h00 * N + l00) + ((h01 * N + l01) + (h10 * N + l10)) * N + (h11 * N + l11) * m
      BY <2>2
    <3> HIDE DEF h00, l00, h01, l01, h10, l10, h11, l11, r1, r2, N, m, c
    <3>5. n = l00 + (h00 + l01 + l10) * N + (h01 + h10 + l11) * m + h11 * c
      BY <3>1, <3>2, <3>4
    <3>6. (h00 + l01 + l10) * N = e * m + r1 * N
      BY <3>1, <3>2, <3>3
    <3>7. (h01 + h10 + l11) * m = f * c + r2 * m - e * m
      BY <3>1, <3>2, <3>3
    <3>8. ((h11 + f) * N + r2) * m = h11 * c + f * c + r2 * m
      BY <3>1, <3>2
    <3>9. n = (r1 * N + l00) + ((h11 + f) * N + r2) * m
      BY <3>1, <3>2, <3>5, <3>6, <3>7, <3>8
    <3> QED BY <3>9 DEF l00, h11, r1, r2, N, m
  <2> QED BY <2>4, <1>13
<1>15. r \in Int128 /\ Value(r) = a2.sum * Limb + p00.lo
  BY <1>3, <1>5 DEF U128, Int128, Value, r
<1>16. Value(r) \in Int /\ 0 <= Value(r) /\ Value(r) < Limb * Limb
  BY <1>15, ValueRange
<1>17. n \in Int /\ n < (Limb * Limb) * (Limb * Limb)
  <2> DEFINE M == Limb * Limb  s == Value(u)  t == Value(v)
  <2>1. s \in Int /\ t \in Int /\ M \in Int /\ 0 <= s /\ s < M /\ 0 <= t /\ t < M
    BY ValueRange, LimbPositive
  <2>2. s * t \in Int /\ s * t < M * M
    <3> HIDE DEF s, t, M
    <3>1. s * (M - t) >= 0 /\ s * (M - t) = s * M - s * t
      BY <2>1
    <3>2. (M - s) * M > 0 /\ (M - s) * M = M * M - s * M
      BY <2>1
    <3>3. s * M \in Int /\ s * t \in Int /\ M * M \in Int
      BY <2>1
    <3> QED BY <3>1, <3>2, <3>3
  <2> QED BY <2>2 DEF s, t, M
<1> HIDE DEF n
<1>18. /\ n < Limb * Limb <=> a5.sum = 0 /\ top = 0
       /\ top < Limb
  <2> DEFINE low == Value(r)
  <2>1. low \in Int /\ 0 <= low /\ low < Limb * Limb
        /\ n = low + (top * Limb + a5.sum) * (Limb * Limb)
    BY <1>14, <1>15, <1>16
  <2> HIDE DEF low
  <2> QED BY <2>1, <1>9, <1>13, <1>17, UpperLimbs
<1>19. top % Limb = top
  <2>1. top \in Word /\ top \in Int /\ top = 0 * Limb + top
    BY <1>13, <1>18, LimbPositive DEF Word
  <2> QED BY <2>1, Unique
<1>20. a5.sum = 0 /\ top = 0 => Value(r) = n
  <2> HAVE a5.sum = 0 /\ top = 0
  <2>1. (top * Limb + a5.sum) * (Limb * Limb) = 0
    BY LimbPositive
  <2> QED BY <2>1, <1>14, <1>15, <1>16
<1>27. Value(r) = n % (Limb * Limb)
  <2> DEFINE M == Limb * Limb  q == top * Limb + a5.sum  w == Value(r)
  <2>1. q \in Int /\ M \in Int /\ M > 0 /\ w \in Int /\ 0 <= w /\ w < M
    BY <1>13, <1>16, <1>23, LimbPositive
  <2>2. n = w + q * M
    BY <1>14, <1>15
  <2> HIDE DEF M, q, w
  <2>3. n = q * M + w
    BY <2>1, <2>2
  <2>4. n % M = w
    BY <1>17, <2>1, <2>3, DividedUnique
  <2> QED BY <2>4 DEF M, w
<1> QED BY <1>2, <1>15, <1>18, <1>19, <1>20, <1>27, Zenon DEF n

-----------------------------------------------------------------------------
(* Powers of two *)

\* 2^n is the number of subsets of n elements; the arithmetic of powers is had
\* by counting them.
LEMMA PowerCounts ==
  ASSUME NEW n \in Nat
  PROVE  /\ IsFiniteSet(1 .. n) /\ Cardinality(1 .. n) = n
         /\ IsFiniteSet(SUBSET (1 .. n))
         /\ 2^n = Cardinality(SUBSET (1 .. n)) /\ 2^n \in Nat
<1>1. IsFiniteSet(1 .. n) /\ Cardinality(1 .. n) = n
  BY FS_Interval
<1>2. IsFiniteSet(SUBSET (1 .. n)) /\ Cardinality(SUBSET (1 .. n)) = 2^Cardinality(1 .. n)
  BY <1>1, FS_SUBSET
<1>3. Cardinality(SUBSET (1 .. n)) \in Nat
  BY <1>2, FS_CardinalityType
<1> QED BY <1>1, <1>2, <1>3

\* The power of nothing.
LEMMA PowerZero == 2^0 = 1
<1>1. 1 .. 0 = {} /\ SUBSET {} = {{}}
  OBVIOUS
<1>2. Cardinality({{}}) = 1
  BY FS_Singleton
<1>3. 2^0 = Cardinality(SUBSET (1 .. 0))
  BY PowerCounts
<1> QED BY <1>1, <1>2, <1>3

\* The next power is the double.
LEMMA PowerNext ==
  ASSUME NEW n \in Nat
  PROVE  2^(n + 1) = 2 * 2^n
<1> DEFINE a == n + 1
           A == SUBSET (1 .. n)
           B == {s \cup {a} : s \in A}
           f == [s \in A |-> s \cup {a}]
<1>1. n + 1 \in Nat /\ a \notin 1 .. n /\ 1 .. n + 1 = (1 .. n) \cup {a}
  OBVIOUS
<1>2. SUBSET (1 .. n + 1) = A \cup B
  <2>1. ASSUME NEW s \in SUBSET (1 .. n + 1) PROVE s \in A \cup B
    <3>1. CASE a \in s
      <4>1. s \ {a} \in A /\ s = (s \ {a}) \cup {a}
        BY <1>1, <3>1
      <4> QED BY <4>1
    <3>2. CASE a \notin s
      BY <1>1, <3>2
    <3> QED BY <3>1, <3>2
  <2>2. ASSUME NEW s \in A \cup B PROVE s \in SUBSET (1 .. n + 1)
    BY <1>1
  <2> QED BY <2>1, <2>2
<1>3. A \cap B = {}
  BY <1>1
<1>4. f \in Bijection(A, B)
  <2>1. f \in [A -> B]
    OBVIOUS
  <2>2. \A s, t \in A : f[s] = f[t] => s = t
    <3> SUFFICES ASSUME NEW s \in A, NEW t \in A, s \cup {a} = t \cup {a} PROVE s = t
      OBVIOUS
    <3>1. a \notin s /\ a \notin t
      BY <1>1
    <3> QED BY <3>1
  <2>3. \A b \in B : \E s \in A : f[s] = b
    OBVIOUS
  <2> QED BY <2>1, <2>2, <2>3 DEF Bijection, Injection, Surjection, IsInjective
<1> HIDE DEF A, B, f
<1>5. IsFiniteSet(A) /\ Cardinality(A) = 2^n /\ 2^n \in Nat
  BY PowerCounts DEF A
<1>6. ExistsBijection(A, B)
  BY <1>4 DEF ExistsBijection
<1>7. IsFiniteSet(B) /\ Cardinality(B) = Cardinality(A)
  BY <1>5, <1>6, FS_Bijection
<1>8. Cardinality(A \cup B) = Cardinality(A) + Cardinality(B)
  <2>1. Cardinality(A \cup B) = Cardinality(A) + Cardinality(B) - Cardinality(A \cap B)
    BY <1>5, <1>7, FS_Union
  <2>2. Cardinality(A \cap B) = 0
    BY <1>3, FS_EmptySet
  <2> QED BY <2>1, <2>2, <1>5, <1>7
<1>9. 2^(n + 1) = Cardinality(SUBSET (1 .. n + 1))
  BY <1>1, PowerCounts
<1>10. Cardinality(A \cup B) = 2 * 2^n
  <2> DEFINE p == 2^n  c == Cardinality(A \cup B)
  <2>1. p \in Nat /\ c = p + p
    BY <1>5, <1>7, <1>8
  <2> HIDE DEF p, c
  <2>2. c = 2 * p
    BY <2>1
  <2> QED BY <2>2 DEF p, c
<1> QED BY <1>2, <1>9, <1>10, Zenon

\* No power of two is zero.
LEMMA PowerPositive ==
  ASSUME NEW n \in Nat
  PROVE  2^n \in Nat /\ 2^n >= 1
<1>1. IsFiniteSet(SUBSET (1 .. n)) /\ 2^n = Cardinality(SUBSET (1 .. n)) /\ 2^n \in Nat
  BY PowerCounts
<1>2. SUBSET (1 .. n) # {}
  OBVIOUS
<1>3. Cardinality(SUBSET (1 .. n)) # 0
  BY <1>1, <1>2, FS_EmptySet
<1> QED BY <1>1, <1>3

\* A limb has an upper and a lower half.
LEMMA LimbPower ==
  /\ LimbBits \in Nat /\ LimbBits > 1 /\ Limb = 2^LimbBits
  /\ Limb \div 2 \in Int /\ Limb = 2 * (Limb \div 2)
<1>1. LimbBits \in Nat /\ LimbBits > 1 /\ Limb = 2^LimbBits
  BY LimbAssumption
<1> DEFINE n == LimbBits - 1
           p == 2^n
<1>2. n \in Nat /\ LimbBits = n + 1
  BY <1>1
<1> HIDE DEF n
<1>3. Limb = 2 * p
  BY <1>1, <1>2, PowerNext
<1>4. p \in Nat
  BY <1>2, PowerPositive
<1> HIDE DEF p
<1>5. Limb \div 2 = p
  BY <1>3, <1>4
<1> QED BY <1>1, <1>3, <1>4, <1>5

\* The limb is a multiple of every smaller power.
LEMMA PowerDivides ==
  ASSUME NEW i \in 0 .. LimbBits
  PROVE  \E c \in Nat : Limb = c * 2^i
<1> DEFINE Bad == {n \in 0 .. LimbBits : ~ \E c \in Nat : Limb = c * 2^(LimbBits - n)}
<1>0. LimbBits \in Nat
  BY LimbPower
<1>1. Bad = {}
  <2> SUFFICES ASSUME Bad # {} PROVE FALSE
    OBVIOUS
  <2>1. PICK n \in Bad : \A k \in Bad : n <= k
    <3>1. Bad \in SUBSET Nat /\ Bad # {}
      OBVIOUS
    <3> HIDE DEF Bad
    <3> QED BY <3>1, MinimalNat
  <2>2. n # 0
    <3> SUFFICES ASSUME n = 0 PROVE FALSE
      OBVIOUS
    <3>1. LimbBits - n = LimbBits
      BY <1>0
    <3>2. Limb = 1 * 2^(LimbBits - n)
      BY <3>1, LimbPower, LimbPositive
    <3> QED BY <3>2
  <2> DEFINE k == n - 1  j == LimbBits - n
  <2>3. k \in 0 .. LimbBits /\ j \in Nat /\ LimbBits - k = j + 1 /\ ~ (n <= k)
    BY <1>0, <2>2
  <2>4. k \notin Bad
    BY <2>1, <2>3
  <2>5. PICK c \in Nat : Limb = c * 2^(LimbBits - k)
    BY <2>3, <2>4
  <2>6. Limb = c * 2^(j + 1)
    BY <2>3, <2>5
  <2>7. 2^(j + 1) = 2 * 2^j /\ 2^j \in Nat
    BY <2>3, PowerNext, PowerPositive
  <2>8. Limb = (2 * c) * 2^j /\ 2 * c \in Nat
    <3> DEFINE p == 2^j
    <3>1. p \in Nat /\ Limb = c * (2 * p)
      BY <2>6, <2>7
    <3> HIDE DEF p
    <3>2. Limb = (2 * c) * p
      BY <3>1
    <3> QED BY <3>2 DEF p
  <2>9. \E d \in Nat : Limb = d * 2^(LimbBits - n)
    BY <2>8
  <2> QED BY <2>9
<1> DEFINE n == LimbBits - i
<1>2. n \in 0 .. LimbBits /\ LimbBits - n = i
  BY <1>0
<1>3. \E c \in Nat : Limb = c * 2^(LimbBits - n)
  <2> HIDE DEF n
  <2> QED BY <1>1, <1>2
<1> QED BY <1>2, <1>3

-----------------------------------------------------------------------------
(* Bits *)

\* The bit that counts p, above what is left below it.
LEMMA OneBit ==
  ASSUME NEW x \in Nat, NEW p \in Nat, p >= 1
  PROVE  /\ (x \div p) % 2 \in {0, 1}
         /\ x % (2 * p) = ((x \div p) % 2) * p + (x % p)
<1> DEFINE d == x \div p  r == x % p  e == d \div 2  b == d % 2
<1>1. d \in Int /\ r \in Int /\ 0 <= r /\ r < p /\ x = d * p + r
  BY Divided
<1> HIDE DEF d, r
<1>2. e \in Int /\ b \in {0, 1} /\ d = e * 2 + b
  BY <1>1, Divided
<1> HIDE DEF e, b
<1>3. x = e * (2 * p) + (b * p + r)
  BY <1>1, <1>2
<1>4. b * p + r \in Int /\ 0 <= b * p + r /\ b * p + r < 2 * p
  <2>1. CASE b = 0
    BY <2>1, <1>1
  <2>2. CASE b = 1
    BY <2>2, <1>1
  <2> QED BY <2>1, <2>2, <1>2
<1> DEFINE m == 2 * p  s == b * p + r
<1>5. m \in Int /\ m > 0 /\ s \in Int /\ 0 <= s /\ s < m /\ x = e * m + s /\ x \in Int
  BY <1>3, <1>4
<1> HIDE DEF m, s
<1>6. x % m = s
  BY <1>2, <1>5, DividedUnique
<1> QED BY <1>2, <1>6 DEF m, s, b, d, r

\* Nothing is left of a division by one.
LEMMA Modulo1 ==
  ASSUME NEW x \in Nat
  PROVE  x % 1 = 0
OBVIOUS

\* A number below the divisor is what is left of it.
LEMMA ModuloSmall ==
  ASSUME NEW d \in Nat, d > 0, NEW x \in 0 .. d - 1
  PROVE  x % d = x
<1>1. x = 0 * d + x
  OBVIOUS
<1> QED BY <1>1, DividedUnique

\* What bit i of a 128-bit integer counts, and what the bits below it do.
Weight(i) == IF i < LimbBits THEN 2^i ELSE 2^(i - LimbBits) * Limb
Rest(u, i) ==
  IF i <= LimbBits THEN u.Lo % 2^i ELSE (u.Hi % 2^(i - LimbBits)) * Limb + u.Lo

\* A bit counts twice what the bit below it does, across the limbs too.
LEMMA WeightIs ==
  /\ Weight(0) = 1 /\ Weight(2 * LimbBits) = Limb * Limb
  /\ \A i \in 0 .. 2 * LimbBits : Weight(i) \in Nat /\ Weight(i) >= 1
  /\ \A i \in 0 .. 2 * LimbBits - 1 : Weight(i + 1) = 2 * Weight(i)
<1>0. LimbBits \in Nat /\ LimbBits > 1 /\ Limb = 2^LimbBits /\ Limb \in Nat
  BY LimbPower, LimbAssumption
<1>1. Weight(0) = 1
  BY <1>0, PowerZero DEF Weight
<1>2. Weight(2 * LimbBits) = Limb * Limb
  <2>1. ~ (2 * LimbBits < LimbBits) /\ 2 * LimbBits - LimbBits = LimbBits
    BY <1>0
  <2>2. Weight(2 * LimbBits) = 2^(2 * LimbBits - LimbBits) * Limb
    BY <2>1 DEF Weight
  <2> QED BY <2>1, <2>2, <1>0
<1>3. ASSUME NEW i \in 0 .. 2 * LimbBits PROVE Weight(i) \in Nat /\ Weight(i) >= 1
  <2>1. CASE i < LimbBits
    <3>1. i \in Nat
      BY <1>0
    <3> QED BY <2>1, <3>1, PowerPositive DEF Weight
  <2>2. CASE ~ (i < LimbBits)
    <3> DEFINE p == 2^(i - LimbBits)
    <3>1. i - LimbBits \in Nat
      BY <1>0, <2>2
    <3>2. p \in Nat /\ p >= 1
      BY <3>1, PowerPositive
    <3>3. Weight(i) = p * Limb
      BY <2>2 DEF Weight
    <3> HIDE DEF p
    <3>4. p * Limb >= Limb /\ p * Limb \in Int
      BY <3>2, LimbPositive, Multiple
    <3> QED BY <3>3, <3>4, LimbPositive
  <2> QED BY <2>1, <2>2
<1>4. ASSUME NEW i \in 0 .. 2 * LimbBits - 1 PROVE Weight(i + 1) = 2 * Weight(i)
  <2>0. i \in Nat /\ i + 1 \in Nat
    BY <1>0
  <2>1. CASE i + 1 < LimbBits
    <3>1. Weight(i + 1) = 2^(i + 1) /\ Weight(i) = 2^i
      BY <2>0, <2>1, <1>0 DEF Weight
    <3> QED BY <2>0, <3>1, PowerNext
  <2>2. CASE i + 1 = LimbBits
    <3>1. ~ (i + 1 < LimbBits) /\ (i + 1) - LimbBits = 0 /\ i < LimbBits
      BY <2>0, <2>2, <1>0
    <3>2. Weight(i + 1) = 2^0 * Limb /\ Weight(i) = 2^i
      BY <3>1 DEF Weight
    <3>3. Limb = 2 * 2^i
      BY <2>0, <2>2, <1>0, PowerNext
    <3> QED BY <3>2, <3>3, <1>0, PowerZero
  <2>3. CASE i + 1 > LimbBits
    <3> DEFINE j == i - LimbBits
    <3>1. ~ (i + 1 < LimbBits) /\ ~ (i < LimbBits) /\ j \in Nat
          /\ (i + 1) - LimbBits = j + 1
      BY <2>0, <2>3, <1>0
    <3>2. Weight(i + 1) = 2^(j + 1) * Limb /\ Weight(i) = 2^j * Limb
      BY <3>1 DEF Weight
    <3> HIDE DEF j
    <3>3. 2^(j + 1) = 2 * 2^j /\ 2^j \in Nat
      BY <3>1, PowerNext, PowerPositive
    <3> DEFINE p == 2^j
    <3>4. Weight(i + 1) = (2 * p) * Limb /\ Weight(i) = p * Limb /\ p \in Nat
      BY <3>2, <3>3
    <3> HIDE DEF p
    <3> QED BY <3>4, <1>0
  <2> QED BY <2>0, <2>1, <2>2, <2>3, <1>0
<1> QED BY <1>1, <1>2, <1>3, <1>4

\* Bits add up to the value, from the lowest.
LEMMA RestIs ==
  ASSUME NEW u \in Int128
  PROVE  /\ Rest(u, 0) = 0 /\ Rest(u, 2 * LimbBits) = Value(u)
         /\ \A i \in 0 .. 2 * LimbBits : Rest(u, i) \in Nat
         /\ \A i \in 0 .. 2 * LimbBits - 1 :
              /\ Bit(u, i) \in {0, 1}
              /\ Rest(u, i + 1) = Bit(u, i) * Weight(i) + Rest(u, i)
<1>0. LimbBits \in Nat /\ LimbBits > 1 /\ Limb = 2^LimbBits /\ Limb \in Nat /\ Limb > 0
  BY LimbPower, LimbAssumption
<1> DEFINE lo == u.Lo  hi == u.Hi
<1>1. lo \in 0 .. Limb - 1 /\ hi \in 0 .. Limb - 1 /\ lo \in Nat /\ hi \in Nat
  BY <1>0 DEF Int128, Word
<1>a. \A i : Rest(u, i) =
        IF i <= LimbBits THEN lo % 2^i ELSE (hi % 2^(i - LimbBits)) * Limb + lo
  BY DEF Rest
<1>b. \A i : Bit(u, i) = IF i < LimbBits THEN (lo \div 2^i) % 2
                         ELSE (hi \div 2^(i - LimbBits)) % 2
  BY DEF Bit
<1>c. Value(u) = hi * Limb + lo
  BY DEF Value
<1> HIDE DEF lo, hi
<1>2. Rest(u, 0) = 0
  <2>1. 0 <= LimbBits
    BY <1>0
  <2>2. Rest(u, 0) = lo % 2^0
    BY <2>1, <1>a
  <2> QED BY <2>2, <1>1, PowerZero, Modulo1
<1>3. Rest(u, 2 * LimbBits) = Value(u)
  <2>1. ~ (2 * LimbBits <= LimbBits) /\ 2 * LimbBits - LimbBits = LimbBits
    BY <1>0
  <2>2. Rest(u, 2 * LimbBits) = (hi % Limb) * Limb + lo
    BY <2>1, <1>0, <1>a
  <2>3. hi % Limb = hi
    BY <1>0, <1>1, ModuloSmall
  <2> QED BY <2>2, <2>3, <1>c
<1>4. ASSUME NEW i \in 0 .. 2 * LimbBits PROVE Rest(u, i) \in Nat
  <2>1. CASE i <= LimbBits
    <3>1. i \in Nat
      BY <1>0
    <3>2. 2^i \in Nat /\ 2^i >= 1
      BY <3>1, PowerPositive
    <3>3. lo % 2^i \in Nat
      <4> DEFINE p == 2^i
      <4> HIDE DEF p
      <4>1. p \in Int /\ p > 0
        BY <3>2 DEF p
      <4>2. lo % p \in Int /\ 0 <= lo % p
        BY <4>1, <1>1, Divided
      <4>3. lo % p \in Nat
        BY <4>2
      <4> QED BY <4>3 DEF p
    <3> QED BY <2>1, <3>3, <1>a
  <2>2. CASE ~ (i <= LimbBits)
    <3> DEFINE p == 2^(i - LimbBits)
    <3>1. i - LimbBits \in Nat
      BY <1>0, <2>2
    <3>2. p \in Nat /\ p >= 1
      BY <3>1, PowerPositive
    <3>3. Rest(u, i) = (hi % p) * Limb + lo
      BY <2>2, <1>a
    <3> HIDE DEF p
    <3>4. p \in Int /\ p > 0
      BY <3>2
    <3>5. hi % p \in Int /\ 0 <= hi % p
      BY <3>4, <1>1, Divided
    <3> DEFINE m == hi % p
    <3>6. m \in Nat /\ Rest(u, i) = m * Limb + lo
      BY <3>3, <3>5
    <3> HIDE DEF m
    <3> QED BY <3>6, <1>0, <1>1
  <2> QED BY <2>1, <2>2
<1>5. ASSUME NEW i \in 0 .. 2 * LimbBits - 1
      PROVE  /\ Bit(u, i) \in {0, 1}
             /\ Rest(u, i + 1) = Bit(u, i) * Weight(i) + Rest(u, i)
  <2>0. i \in Nat /\ i + 1 \in Nat
    BY <1>0
  <2>1. CASE i < LimbBits
    <3> DEFINE p == 2^i
    <3>1. p \in Nat /\ p >= 1 /\ 2^(i + 1) = 2 * p
      BY <2>0, PowerPositive, PowerNext
    <3>2. i <= LimbBits /\ i + 1 <= LimbBits
      BY <2>0, <2>1, <1>0
    <3>3. /\ Rest(u, i + 1) = lo % (2 * p) /\ Rest(u, i) = lo % p
          /\ Bit(u, i) = (lo \div p) % 2 /\ Weight(i) = p
      BY <2>1, <3>1, <3>2, <1>a, <1>b DEF Weight
    <3> HIDE DEF p
    <3> QED BY <3>1, <3>3, <1>1, OneBit
  <2>2. CASE ~ (i < LimbBits)
    <3> DEFINE j == i - LimbBits  p == 2^j
    <3>1. j \in Nat /\ (i + 1) - LimbBits = j + 1 /\ ~ (i + 1 <= LimbBits)
      BY <2>0, <2>2, <1>0
    <3>2. p \in Nat /\ p >= 1 /\ 2^(j + 1) = 2 * p
      BY <3>1, PowerPositive, PowerNext
    <3>3. /\ Rest(u, i + 1) = (hi % (2 * p)) * Limb + lo
          /\ Bit(u, i) = (hi \div p) % 2 /\ Weight(i) = p * Limb
      BY <2>2, <3>1, <3>2, <1>a, <1>b DEF Weight
    <3>4. Rest(u, i) = (hi % p) * Limb + lo
      <4>1. CASE i <= LimbBits
        <5>1. i = LimbBits /\ j = 0
          BY <2>0, <2>2, <4>1, <1>0
        <5>2. Rest(u, i) = lo % Limb /\ lo % Limb = lo
          BY <5>1, <4>1, <1>0, <1>1, <1>a, ModuloSmall
        <5>3. p = 1
          BY <5>1, PowerZero
        <5>4. hi % p = 0
          BY <5>3, <1>1, Modulo1
        <5> QED BY <5>2, <5>4, <1>0, <1>1
      <4>2. CASE ~ (i <= LimbBits)
        BY <4>2, <1>a
      <4> QED BY <4>1, <4>2
    <3> HIDE DEF p
    <3> DEFINE b == (hi \div p) % 2  r == hi % p  s == hi % (2 * p)
    <3>5. b \in {0, 1} /\ s = b * p + r
      BY <3>2, <1>1, OneBit
    <3>6. r \in Int
      BY <3>2, <1>1, Divided
    <3>7. /\ Rest(u, i + 1) = s * Limb + lo /\ Rest(u, i) = r * Limb + lo
          /\ Bit(u, i) = b /\ Weight(i) = p * Limb
      BY <3>3, <3>4
    <3> HIDE DEF b, r, s
    <3>8. (b * p + r) * Limb + lo = b * (p * Limb) + (r * Limb + lo)
      BY <3>2, <3>5, <3>6, <1>0, <1>1
    <3> QED BY <3>5, <3>7, <3>8
  <2> QED BY <2>1, <2>2
<1> QED BY <1>2, <1>3, <1>4, <1>5

-----------------------------------------------------------------------------
(* The quotient's bits *)

\* A word without the bits below j + 1 has room for bit j.
LEMMA Room ==
  ASSUME NEW w \in Word, NEW j \in 0 .. LimbBits - 1, NEW m \in Nat, w = m * 2^(j + 1)
  PROVE  w + 2^j \in Word /\ w + 2^j = (2 * m + 1) * 2^j
<1> DEFINE p == 2^j
<1>0. LimbBits \in Nat /\ j \in Nat /\ j + 1 \in 0 .. LimbBits
  BY LimbPower
<1>1. p \in Nat /\ p >= 1 /\ 2^(j + 1) = 2 * p
  BY <1>0, PowerPositive, PowerNext
<1>2. PICK c \in Nat : Limb = c * 2^(j + 1)
  BY <1>0, PowerDivides
<1> HIDE DEF p
<1>3. w = m * (2 * p) /\ Limb = c * (2 * p) /\ w < Limb
  BY <1>1, <1>2, LimbPositive DEF Word
<1>4. m < c
  <2> SUFFICES ASSUME m >= c PROVE FALSE
    OBVIOUS
  <2>1. (m - c) * (2 * p) >= 0 /\ (m - c) * (2 * p) = m * (2 * p) - c * (2 * p)
    BY <1>1
  <2>2. m * (2 * p) \in Int /\ c * (2 * p) \in Int
    BY <1>1
  <2> QED BY <2>1, <2>2, <1>3
<1>5. w + 2 * p <= Limb
  <2>1. (c - m) * (2 * p) >= 2 * p
    <3>1. c - m \in Int /\ c - m >= 1
      BY <1>4
    <3>2. 2 * p \in Int /\ 2 * p >= 0
      BY <1>1
    <3> QED BY <3>1, <3>2, Multiple
  <2>2. (c - m) * (2 * p) = c * (2 * p) - m * (2 * p)
    BY <1>1
  <2>3. m * (2 * p) \in Int /\ c * (2 * p) \in Int
    BY <1>1
  <2> QED BY <2>1, <2>2, <2>3, <1>1, <1>3
<1>6. w + p \in Word
  BY <1>1, <1>5, LimbPositive DEF Word
<1>7. w + p = (2 * m + 1) * p
  BY <1>1, <1>3
<1> QED BY <1>6, <1>7 DEF p

\* No bit of q below i is set.
Clear(q, i) ==
  IF i <= LimbBits THEN \E m \in Nat : q.Lo = m * 2^i
  ELSE q.Lo = 0 /\ \E m \in Nat : q.Hi = m * 2^(i - LimbBits)

\* With no bit set below i + 1, none is set below i.
LEMMA ClearBelow ==
  ASSUME NEW q \in Int128, NEW i \in 0 .. 2 * LimbBits - 1, Clear(q, i + 1)
  PROVE  Clear(q, i)
<1>0. LimbBits \in Nat /\ i \in Nat
  BY LimbPower
<1>1. CASE i + 1 <= LimbBits
  <2>1. PICK m \in Nat : q.Lo = m * 2^(i + 1)
    BY <1>1 DEF Clear
  <2> DEFINE p == 2^i
  <2>2. p \in Nat /\ 2^(i + 1) = 2 * p
    BY <1>0, PowerPositive, PowerNext
  <2>3. q.Lo = m * (2 * p)
    BY <2>1, <2>2
  <2> HIDE DEF p
  <2>4. q.Lo = (2 * m) * p /\ 2 * m \in Nat
    BY <2>2, <2>3
  <2>5. \E n \in Nat : q.Lo = n * 2^i
    BY <2>4 DEF p
  <2>6. i <= LimbBits
    BY <1>0, <1>1
  <2> QED BY <2>5, <2>6 DEF Clear
<1>2. CASE i = LimbBits
  <2>1. ~ (i + 1 <= LimbBits)
    BY <1>0, <1>2
  <2>2. q.Lo = 0
    BY <2>1 DEF Clear
  <2>3. q.Lo = 0 * 2^i
    BY <1>0, <2>2, PowerPositive
  <2>4. i <= LimbBits
    BY <1>0, <1>2
  <2> QED BY <2>3, <2>4 DEF Clear
<1>3. CASE i > LimbBits
  <2> DEFINE j == i - LimbBits  p == 2^j
  <2>1. ~ (i + 1 <= LimbBits) /\ ~ (i <= LimbBits) /\ j \in Nat
        /\ (i + 1) - LimbBits = j + 1
    BY <1>0, <1>3
  <2>2. q.Lo = 0 /\ \E m \in Nat : q.Hi = m * 2^(j + 1)
    BY <2>1 DEF Clear
  <2>3. PICK m \in Nat : q.Hi = m * 2^(j + 1)
    BY <2>2
  <2>4. p \in Nat /\ 2^(j + 1) = 2 * p
    BY <2>1, PowerPositive, PowerNext
  <2>5. q.Hi = m * (2 * p)
    BY <2>3, <2>4
  <2> HIDE DEF p
  <2>6. q.Hi = (2 * m) * p /\ 2 * m \in Nat
    BY <2>4, <2>5
  <2>7. \E n \in Nat : q.Hi = n * 2^(i - LimbBits)
    BY <2>6 DEF p
  <2> QED BY <2>1, <2>2, <2>7 DEF Clear
<1> QED BY <1>0, <1>1, <1>2, <1>3

\* The bit set is the one that was asked for, and no carry leaves the limb.
LEMMA SetBitIs ==
  ASSUME NEW q \in Int128, NEW i \in 0 .. 2 * LimbBits - 1, Clear(q, i + 1)
  PROVE  /\ SetBit(q, i) \in Int128 /\ Clear(SetBit(q, i), i)
         /\ Value(SetBit(q, i)) = Value(q) + Weight(i)
<1>0. LimbBits \in Nat /\ i \in Nat /\ q.Lo \in Word /\ q.Hi \in Word
  BY LimbPower DEF Int128
<1>1. CASE i < LimbBits
  <2> DEFINE p == 2^i  l == q.Lo + p  r == [q EXCEPT !.Lo = l]
  <2>1. i + 1 <= LimbBits /\ i <= LimbBits /\ i \in 0 .. LimbBits - 1
    BY <1>0, <1>1
  <2>2. PICK m \in Nat : q.Lo = m * 2^(i + 1)
    BY <2>1 DEF Clear
  <2>3. l \in Word /\ l = (2 * m + 1) * p
    BY <1>0, <2>1, <2>2, Room
  <2>4. SetBit(q, i) = r /\ Weight(i) = p
    BY <1>1 DEF SetBit, Weight
  <2>5. p \in Nat
    BY <1>0, PowerPositive
  <2>9. 2 * m + 1 \in Nat
    OBVIOUS
  <2>6. Clear(r, i)
    <3>1. r.Lo = l
      BY DEF Int128
    <3>2. \E n \in Nat : r.Lo = n * 2^i
      BY <2>3, <2>9, <3>1
    <3> HIDE DEF r
    <3> QED BY <2>1, <3>2 DEF Clear
  <2>7. r \in Int128 /\ r.Lo = l /\ r.Hi = q.Hi
    <3> HIDE DEF l
    <3> QED BY <2>3 DEF Int128
  <2>8. Value(r) = Value(q) + p
    <3>1. Value(r) = q.Hi * Limb + (q.Lo + p) /\ Value(q) = q.Hi * Limb + q.Lo
      BY <2>7 DEF Value
    <3> HIDE DEF r, l, p
    <3> QED BY <1>0, <2>5, <3>1, LimbPositive DEF Word
  <2> HIDE DEF r, p
  <2> QED BY <2>4, <2>6, <2>7, <2>8
<1>2. CASE ~ (i < LimbBits)
  <2> DEFINE j == i - LimbBits  p == 2^j  h == q.Hi + p  r == [q EXCEPT !.Hi = h]
  <2>1. j \in 0 .. LimbBits - 1 /\ ~ (i + 1 <= LimbBits) /\ (i + 1) - LimbBits = j + 1
        /\ j \in Nat
    BY <1>0, <1>2
  <2>2. q.Lo = 0 /\ \E m \in Nat : q.Hi = m * 2^(j + 1)
    BY <2>1 DEF Clear
  <2>3. PICK m \in Nat : q.Hi = m * 2^(j + 1)
    BY <2>2
  <2>4. h \in Word /\ h = (2 * m + 1) * p
    BY <1>0, <2>1, <2>3, Room
  <2>5. SetBit(q, i) = r /\ Weight(i) = p * Limb
    BY <1>2 DEF SetBit, Weight
  <2>6. p \in Nat
    BY <2>1, PowerPositive
  <2>9. 2 * m + 1 \in Nat
    OBVIOUS
  <2>7. r \in Int128 /\ r.Hi = h /\ r.Lo = q.Lo
    <3> HIDE DEF h
    <3> QED BY <2>4 DEF Int128
  <2>8. Clear(r, i)
    <3>1. CASE i <= LimbBits
      <4>1. r.Lo = 0 * 2^i
        BY <1>0, <2>2, <2>7, PowerPositive
      <4> QED BY <3>1, <4>1 DEF Clear
    <3>2. CASE ~ (i <= LimbBits)
      <4>1. \E n \in Nat : r.Hi = n * 2^(i - LimbBits)
        BY <2>4, <2>7, <2>9
      <4> HIDE DEF r
      <4> QED BY <2>2, <2>7, <3>2, <4>1 DEF Clear
    <3> QED BY <3>1, <3>2
  <2>10. Value(r) = Value(q) + p * Limb
    <3>1. Value(r) = (q.Hi + p) * Limb + q.Lo /\ Value(q) = q.Hi * Limb + q.Lo
      BY <2>7 DEF Value
    <3> HIDE DEF r, h, p
    <3> QED BY <1>0, <2>6, <3>1, LimbPositive DEF Word
  <2> HIDE DEF r, p
  <2> QED BY <2>5, <2>7, <2>8, <2>10
<1> QED BY <1>1, <1>2

-----------------------------------------------------------------------------
(* The remainder's bits *)

\* What Shl1 moves out of a limb, and the room it leaves.
LEMMA Double ==
  ASSUME NEW x \in Word
  PROVE  /\ (2 * x) \div Limb \in {0, 1}
         /\ 2 * x = ((2 * x) \div Limb) * Limb + ((2 * x) % Limb)
         /\ (2 * x) % Limb \in Word /\ ((2 * x) % Limb) + 1 \in Word
<1> DEFINE h == Limb \div 2  d == (2 * x) \div Limb  r == (2 * x) % Limb
<1>1. h \in Int /\ Limb = 2 * h /\ Limb > 3 /\ Limb \in Int
  BY LimbPower, LimbPositive
<1>2. x \in Int /\ 0 <= x /\ x < Limb
  BY <1>1 DEF Word
<1> HIDE DEF h
<1>3. CASE x < h
  <2>1. 2 * x = 0 * Limb + 2 * x /\ 0 <= 2 * x /\ 2 * x < Limb /\ 2 * x + 1 < Limb
    BY <1>1, <1>2, <1>3
  <2>2. d = 0 /\ r = 2 * x
    <3> DEFINE n == 2 * x
    <3>1. n \in Int /\ n = 0 * Limb + n /\ 0 <= n /\ n < Limb
      BY <2>1, <1>2
    <3> HIDE DEF n
    <3>2. n \div Limb = 0 /\ n % Limb = n
      BY <3>1, <1>1, DividedUnique
    <3> QED BY <3>2 DEF n
  <2> HIDE DEF d, r
  <2>3. d \in {0, 1} /\ 2 * x = d * Limb + r /\ r \in Word /\ r + 1 \in Word
    BY <2>1, <2>2, <1>1, <1>2 DEF Word
  <2> QED BY <2>3 DEF d, r
<1>4. CASE ~ (x < h)
  <2> DEFINE n == 2 * x  s == n - Limb
  <2>1. n \in Int /\ s \in Int /\ n = 1 * Limb + s /\ 0 <= s /\ s < Limb /\ s + 1 < Limb
    BY <1>1, <1>2, <1>4
  <2> HIDE DEF n, s
  <2>2. n \div Limb = 1 /\ n % Limb = s
    BY <2>1, <1>1, DividedUnique
  <2>3. d = 1 /\ r = s
    BY <2>2 DEF n
  <2> HIDE DEF d, r
  <2>4. d \in {0, 1} /\ n = d * Limb + r /\ r \in Word /\ r + 1 \in Word
    BY <2>1, <2>3, <1>1, <1>2 DEF Word
  <2> QED BY <2>4 DEF d, r, n
<1> QED BY <1>3, <1>4

\* Shl1 and the next bit, when the double fits.
LEMMA ShiftIs ==
  ASSUME NEW u \in Int128, 2 * Value(u) < Limb * Limb, NEW b \in {0, 1}
  PROVE  LET s == Shl1(u)
             r == [s EXCEPT !.Lo = s.Lo + b]
         IN  r \in Int128 /\ Value(r) = 2 * Value(u) + b
<1> DEFINE dh == (2 * u.Hi) \div Limb  rh == (2 * u.Hi) % Limb
           dl == (2 * u.Lo) \div Limb  rl == (2 * u.Lo) % Limb
           s  == Shl1(u)
           r  == [s EXCEPT !.Lo = s.Lo + b]
<1>0. u.Hi \in Word /\ u.Lo \in Word /\ Limb \in Int /\ Limb > 3
  BY LimbPositive DEF Int128
<1>1. /\ dh \in {0, 1} /\ 2 * u.Hi = dh * Limb + rh /\ rh \in Word /\ rh + 1 \in Word
      /\ dl \in {0, 1} /\ 2 * u.Lo = dl * Limb + rl /\ rl \in Word /\ rl + 1 \in Word
  BY <1>0, Double
<1>2. s = [Lo |-> rl, Hi |-> rh + dl]
  BY DEF Shl1, U128
<1> HIDE DEF dh, rh, dl, rl
<1>3. rh + dl \in Word /\ rl + b \in Word
  BY <1>0, <1>1 DEF Word
<1>4. r = [Lo |-> rl + b, Hi |-> rh + dl]
  BY <1>2
<1> HIDE DEF r
<1>5. r \in Int128 /\ Value(r) = (rh + dl) * Limb + (rl + b)
  BY <1>3, <1>4 DEF Int128, Value
<1>6. 2 * Value(u) = dh * (Limb * Limb) + ((rh + dl) * Limb + rl)
  <2>1. Value(u) = u.Hi * Limb + u.Lo
    BY DEF Value
  <2>2. 2 * Value(u) = (2 * u.Hi) * Limb + 2 * u.Lo
    BY <2>1, <1>0 DEF Word
  <2>3. @ = (dh * Limb + rh) * Limb + (dl * Limb + rl)
    BY <1>1
  <2>4. @ = dh * (Limb * Limb) + ((rh + dl) * Limb + rl)
    BY <1>0, <1>1 DEF Word
  <2> QED BY <2>2, <2>3, <2>4
<1>7. dh = 0
  <2> SUFFICES ASSUME dh = 1 PROVE FALSE
    BY <1>1
  <2>1. (rh + dl) * Limb \in Int /\ (rh + dl) * Limb >= 0
    BY <1>0, <1>3 DEF Word
  <2>2. Limb * Limb \in Int
    BY <1>0
  <2> DEFINE z == (rh + dl) * Limb  M == Limb * Limb  t == 2 * Value(u)
  <2>3. t = 1 * M + (z + rl) /\ t < M /\ z \in Int /\ z >= 0 /\ M \in Int /\ rl \in Int /\ rl >= 0
    BY <1>0, <1>1, <1>6, <2>1, <2>2 DEF Word
  <2> HIDE DEF z, M, t
  <2> QED BY <2>3
<1>8. (rh + dl) * Limb \in Int /\ rl \in Int /\ b \in Int /\ Value(u) \in Int
  <2>1. Value(u) \in Int
    BY ValueRange
  <2> QED BY <2>1, <1>0, <1>3, <1>1 DEF Word
<1>9. Value(r) = 2 * Value(u) + b
  <2> DEFINE z == (rh + dl) * Limb  t == 2 * Value(u)
  <2>1. t = 0 * (Limb * Limb) + (z + rl) /\ Value(r) = z + (rl + b)
    BY <1>5, <1>6, <1>7
  <2>2. 0 * (Limb * Limb) = 0
    BY <1>0
  <2>3. z \in Int /\ rl \in Int /\ b \in Int /\ t \in Int
    BY <1>8
  <2> HIDE DEF z, t
  <2>4. Value(r) = t + b
    BY <2>1, <2>2, <2>3
  <2> QED BY <2>4 DEF t
<1> QED BY <1>5, <1>9 DEF r

-----------------------------------------------------------------------------
(* The long division *)

\* One step of the long division: bit i of u, given the quotient and the
\* remainder so far.
DivStep(u, v, i, x) ==
  LET s   == Shl1(x.rem)
      rem == [s EXCEPT !.Lo = @ + Bit(u, i)]
  IN  IF Cmp(rem, v) >= 0
      THEN [q |-> SetBit(x.q, i), rem |-> SubChecked(rem, v).val]
      ELSE [q |-> x.q, rem |-> rem]

\* f holds what the long division has after each of its first n steps.
IsDivision(u, v, n, f) ==
  f = [k \in 0 .. n |-> IF k = 0 THEN [q |-> Zero, rem |-> Zero]
                        ELSE DivStep(u, v, 2 * LimbBits - k, f[k - 1])]

\* The recursion defines a function.
LEMMA DivisionExists ==
  ASSUME NEW u, NEW v, NEW n \in Nat
  PROVE  \E f : IsDivision(u, v, n, f)
<1> DEFINE Bad == {m \in Nat : ~ \E f : IsDivision(u, v, m, f)}
           S(k, x) == DivStep(u, v, 2 * LimbBits - k, x)
           Z == [q |-> Zero, rem |-> Zero]
<1>0. \A m, f : IsDivision(u, v, m, f) <=> f = [k \in 0 .. m |-> IF k = 0 THEN Z ELSE S(k, f[k - 1])]
  BY Zenon DEF IsDivision
<1> HIDE DEF S, Z
<1> SUFFICES ASSUME Bad # {} PROVE FALSE
  OBVIOUS
<1>1. PICK m \in Bad : \A k \in Bad : m <= k
  <2>1. Bad \in SUBSET Nat /\ Bad # {}
    OBVIOUS
  <2> HIDE DEF Bad
  <2> QED BY <2>1, MinimalNat
<1>2. m \in Nat /\ ~ \E f : IsDivision(u, v, m, f)
  OBVIOUS
<1>3. CASE m = 0
  <2> DEFINE f == [k \in 0 .. 0 |-> Z]
  <2>1. f = [k \in 0 .. 0 |-> IF k = 0 THEN Z ELSE S(k, f[k - 1])]
    OBVIOUS
  <2> QED BY <2>1, <1>0, <1>2, <1>3
<1>4. CASE m # 0
  <2>1. m - 1 \in Nat /\ ~ (m <= m - 1)
    BY <1>2, <1>4
  <2>2. PICK f : IsDivision(u, v, m - 1, f)
    BY <2>1, <1>1
  <2>3. f = [k \in 0 .. m - 1 |-> IF k = 0 THEN Z ELSE S(k, f[k - 1])]
    BY <2>2, <1>0
  <2> DEFINE g == [k \in 0 .. m |-> IF k = 0 THEN Z ELSE S(k, f[k - 1])]
  <2>4. \A k \in 0 .. m - 1 : g[k] = f[k]
    <3> TAKE k \in 0 .. m - 1
    <3>1. k \in 0 .. m
      BY <1>2
    <3> QED BY <3>1, <2>3
  <2>5. \A k \in 0 .. m : k # 0 => g[k - 1] = f[k - 1]
    <3> TAKE k \in 0 .. m
    <3> HAVE k # 0
    <3>1. k - 1 \in 0 .. m - 1
      BY <1>2
    <3> QED BY <3>1, <2>4
  <2>6. g = [k \in 0 .. m |-> IF k = 0 THEN Z ELSE S(k, g[k - 1])]
    <3>1. \A k \in 0 .. m : g[k] = IF k = 0 THEN Z ELSE S(k, g[k - 1])
      <4> TAKE k \in 0 .. m
      <4>1. CASE k = 0
        BY <4>1
      <4>2. CASE k # 0
        <5>1. g[k] = S(k, f[k - 1])
          BY <4>2
        <5>2. g[k - 1] = f[k - 1]
          BY <4>2, <2>5
        <5> HIDE DEF g
        <5> QED BY <5>1, <5>2, <4>2
      <4> QED BY <4>1, <4>2
    <3>2. g = [k \in 0 .. m |-> g[k]]
      OBVIOUS
    <3> HIDE DEF g
    <3> DEFINE h == [k \in 0 .. m |-> IF k = 0 THEN Z ELSE S(k, g[k - 1])]
    <3>3. \A k \in 0 .. m : h[k] = g[k]
      BY <3>1
    <3>4. h = [k \in 0 .. m |-> h[k]]
      OBVIOUS
    <3> HIDE DEF h
    <3>5. h = g
      BY <3>2, <3>3, <3>4
    <3> QED BY <3>5 DEF h
  <2>7. IsDivision(u, v, m, g)
    BY <2>6, <1>0
  <2> QED BY <2>7, <1>2
<1> QED BY <1>3, <1>4

\* LongDivision is the last of the steps.
LEMMA LongDivisionIs ==
  ASSUME NEW u, NEW v
  PROVE  \E f : /\ LongDivision(u, v) = f[2 * LimbBits]
                /\ f[0] = [q |-> Zero, rem |-> Zero]
                /\ \A k \in 1 .. 2 * LimbBits :
                     f[k] = DivStep(u, v, 2 * LimbBits - k, f[k - 1])
<1> DEFINE f == CHOOSE f : IsDivision(u, v, 2 * LimbBits, f)
<1>1. LongDivision(u, v) = f[2 * LimbBits]
  BY Zenon DEF LongDivision, IsDivision, DivStep
<1>2. LimbBits \in Nat /\ 2 * LimbBits \in Nat
  BY LimbPower
<1>3. IsDivision(u, v, 2 * LimbBits, f)
  BY <1>2, DivisionExists
<1> HIDE DEF f
<1>4. f = [k \in 0 .. 2 * LimbBits |->
             IF k = 0 THEN [q |-> Zero, rem |-> Zero]
             ELSE DivStep(u, v, 2 * LimbBits - k, f[k - 1])]
  BY <1>3 DEF IsDivision
<1>5. f[0] = [q |-> Zero, rem |-> Zero]
  <2>1. 0 \in 0 .. 2 * LimbBits
    BY <1>2
  <2> QED BY <1>4, <2>1
<1>6. ASSUME NEW k \in 1 .. 2 * LimbBits
      PROVE  f[k] = DivStep(u, v, 2 * LimbBits - k, f[k - 1])
  <2>1. k \in 0 .. 2 * LimbBits /\ k # 0
    BY <1>2
  <2> QED BY <1>4, <2>1
<1> QED BY <1>1, <1>5, <1>6

\* What the long division keeps to, with the bits of u below i to come.
DivInv(u, v, i, x) ==
  /\ x.q \in Int128 /\ x.rem \in Int128
  /\ Clear(x.q, i)
  /\ Value(x.rem) < Value(v)
  /\ Value(x.q) * Value(v) + Value(x.rem) * Weight(i) + Rest(u, i) = Value(u)

\* A step keeps to it.
LEMMA DivisionStep ==
  ASSUME NEW u \in Int128, NEW v \in Int128, NEW i \in 0 .. 2 * LimbBits - 1,
         NEW x, DivInv(u, v, i + 1, x)
  PROVE  DivInv(u, v, i, DivStep(u, v, i, x))
<1> DEFINE s == Shl1(x.rem)  b == Bit(u, i)  rem == [s EXCEPT !.Lo = s.Lo + b]
           U == Value(u)  V == Value(v)  Q == Value(x.q)  R == Value(x.rem)
           W == Weight(i)  T == Rest(u, i)  M == Limb * Limb
<1>0. i + 1 \in 0 .. 2 * LimbBits /\ i \in 0 .. 2 * LimbBits /\ i \in Nat
  BY LimbPower
<1>1. /\ x.q \in Int128 /\ x.rem \in Int128 /\ Clear(x.q, i + 1) /\ R < V
      /\ Q * V + R * Weight(i + 1) + Rest(u, i + 1) = U
  BY DEF DivInv
<1>2. /\ W \in Nat /\ W >= 1 /\ Weight(i + 1) = 2 * W
      /\ T \in Nat /\ b \in {0, 1} /\ Rest(u, i + 1) = b * W + T
  BY <1>0, WeightIs, RestIs
<1>3. /\ U \in Int /\ 0 <= U /\ U < M /\ V \in Int /\ 0 <= V /\ V < M
      /\ Q \in Int /\ 0 <= Q /\ R \in Int /\ 0 <= R /\ M \in Int
  BY <1>1, ValueRange, LimbPositive
<1>4. Q * V + R * (2 * W) + (b * W + T) = U
  BY <1>1, <1>2
<1>5. 2 * Value(x.rem) < Limb * Limb
  <2> HIDE DEF U, V, Q, R, W, T, M, b
  <2>1. Q * V \in Int /\ Q * V >= 0 /\ b * W \in Int /\ b * W >= 0
    BY <1>2, <1>3
  <2>2. W * (2 * R) >= 2 * R /\ W * (2 * R) \in Int
    <3>1. 2 * R \in Int /\ 2 * R >= 0
      BY <1>3
    <3> QED BY <1>2, <3>1, Multiple
  <2>3. R * (2 * W) = W * (2 * R)
    BY <1>2, <1>3
  <2>4. 2 * R <= U
    BY <2>1, <2>2, <2>3, <1>2, <1>3, <1>4
  <2>5. 2 * R < M
    BY <2>4, <1>3
  <2> QED BY <2>5 DEF R, M
<1>6. rem \in Int128 /\ Value(rem) = 2 * R + b
  BY <1>1, <1>2, <1>5, ShiftIs
<1>7. DivStep(u, v, i, x) =
        IF Cmp(rem, v) >= 0
        THEN [q |-> SetBit(x.q, i), rem |-> SubChecked(rem, v).val]
        ELSE [q |-> x.q, rem |-> rem]
  BY DEF DivStep
<1> HIDE DEF rem
<1>8. Cmp(rem, v) = IF Value(rem) < V THEN -1 ELSE IF Value(rem) = V THEN 0 ELSE 1
  BY <1>6, CmpExact
<1> HIDE DEF U, V, Q, R, W, T, M, b
<1>9. CASE Value(rem) >= V
  <2> DEFINE p == SetBit(x.q, i)  d == SubChecked(rem, v).val
  <2>1. Cmp(rem, v) >= 0
    BY <1>3, <1>2, <1>6, <1>8, <1>9
  <2>2. DivStep(u, v, i, x) = [q |-> p, rem |-> d]
    BY <2>1, <1>7
  <2>3. p \in Int128 /\ Clear(p, i) /\ Value(p) = Q + W
    BY <1>1, SetBitIs DEF Q, W
  <2>4. d \in Int128 /\ Value(d) = Value(rem) - V
    <3> DEFINE r == SubChecked(rem, v)
    <3>1. /\ r.val \in Int128
          /\ r.ok <=> Value(rem) >= V
          /\ Value(r.val) = Value(rem) - V + (IF r.ok THEN 0 ELSE Limb * Limb)
      BY <1>6, SubCheckedExact DEF V
    <3> HIDE DEF r
    <3>2. Value(r.val) = Value(rem) - V
      BY <3>1, <1>9, <1>6, <1>3, <1>2
    <3> QED BY <3>1, <3>2 DEF r
  <2> HIDE DEF p, d
  <2>5. Value(d) \in Int /\ Value(d) = 2 * R + b - V /\ Value(d) < V
    BY <2>4, <1>1, <1>2, <1>3, <1>6
  <2>6. (Q + W) * V + (2 * R + b - V) * W + T = U
    <3>1. (Q + W) * V + (2 * R + b - V) * W + T = Q * V + R * (2 * W) + (b * W + T)
      BY <1>2, <1>3
    <3> QED BY <3>1, <1>4
  <2>7. Value(p) * V + Value(d) * W + T = U
    BY <2>3, <2>5, <2>6
  <2> DEFINE y == [q |-> p, rem |-> d]
  <2>8. y.q = p /\ y.rem = d
    OBVIOUS
  <2> HIDE DEF y
  <2>9. DivInv(u, v, i, y)
    BY <2>3, <2>4, <2>5, <2>7, <2>8 DEF DivInv, U, V, W, T
  <2> QED BY <2>2, <2>9 DEF y
<1>10. CASE ~ (Value(rem) >= V)
  <2>1. Cmp(rem, v) = -1
    BY <1>3, <1>2, <1>6, <1>8, <1>10
  <2>2. DivStep(u, v, i, x) = [q |-> x.q, rem |-> rem]
    BY <2>1, <1>7
  <2>3. Clear(x.q, i)
    BY <1>1, ClearBelow
  <2>4. Value(rem) < V
    BY <1>3, <1>2, <1>6, <1>10
  <2>5. Q * V + (2 * R + b) * W + T = U
    <3>1. Q * V + (2 * R + b) * W + T = Q * V + R * (2 * W) + (b * W + T)
      BY <1>2, <1>3
    <3> QED BY <3>1, <1>4
  <2> DEFINE y == [q |-> x.q, rem |-> rem]
  <2>8. y.q = x.q /\ y.rem = rem
    OBVIOUS
  <2> HIDE DEF y
  <2>9. DivInv(u, v, i, y)
    BY <1>1, <1>6, <2>3, <2>4, <2>5, <2>8 DEF DivInv, U, V, W, T, Q
  <2> QED BY <2>2, <2>9 DEF y
<1> QED BY <1>9, <1>10

\* The long division divides.
THEOREM LongDivisionExact ==
  ASSUME NEW u \in Int128, NEW v \in Int128, Value(v) > 0
  PROVE  LET r == LongDivision(u, v)
         IN  /\ r.q \in Int128 /\ Value(r.q) = Value(u) \div Value(v)
             /\ r.rem \in Int128 /\ Value(r.rem) = Value(u) % Value(v)
<1> DEFINE m == 2 * LimbBits
<1>0. m \in Nat /\ LimbBits \in Nat
  BY LimbPower
<1>1. PICK f : /\ LongDivision(u, v) = f[m]
               /\ f[0] = [q |-> Zero, rem |-> Zero]
               /\ \A k \in 1 .. m : f[k] = DivStep(u, v, m - k, f[k - 1])
  BY LongDivisionIs
<1>2. DivInv(u, v, m, f[0])
  <2>1. Zero \in Int128 /\ Value(Zero) = 0 /\ Zero.Lo = 0 /\ Zero.Hi = 0
    BY LimbPositive DEF Zero, U128, Int128, Word, Value
  <2>2. Clear(Zero, m)
    <3>1. ~ (m <= LimbBits) /\ m - LimbBits = LimbBits
      BY LimbPower
    <3>2. Zero.Hi = 0 * 2^(m - LimbBits)
      BY <2>1, <3>1, <1>0, PowerPositive
    <3> HIDE DEF m
    <3> QED BY <2>1, <3>1, <3>2 DEF Clear
  <2>3. f[0].q = Zero /\ f[0].rem = Zero
    BY <1>1
  <2>4. Rest(u, m) = Value(u) /\ Weight(m) \in Int
    <3>1. Weight(m) = Limb * Limb
      BY WeightIs
    <3> QED BY <3>1, RestIs, LimbPositive
  <2>5. Value(u) \in Int /\ Value(v) \in Int
    BY ValueRange
  <2>6. 0 * Value(v) + 0 * Weight(m) + Rest(u, m) = Value(u)
    BY <2>4, <2>5
  <2> HIDE DEF m
  <2>7. Value(f[0].q) * Value(v) + Value(f[0].rem) * Weight(m) + Rest(u, m) = Value(u)
    BY <2>1, <2>3, <2>6
  <2>8. Value(f[0].rem) < Value(v)
    BY <2>1, <2>3
  <2> QED BY <2>1, <2>2, <2>3, <2>7, <2>8 DEF DivInv
<1>3. \A k \in 0 .. m : DivInv(u, v, m - k, f[k])
  <2> DEFINE Bad == {k \in 0 .. m : ~ DivInv(u, v, m - k, f[k])}
  <2> SUFFICES ASSUME Bad # {} PROVE FALSE
    OBVIOUS
  <2>1. PICK k \in Bad : \A j \in Bad : k <= j
    <3>1. Bad \in SUBSET Nat /\ Bad # {}
      OBVIOUS
    <3> HIDE DEF Bad
    <3> QED BY <3>1, MinimalNat
  <2>2. k # 0
    <3>1. m - 0 = m
      BY <1>0
    <3> HIDE DEF m
    <3> QED BY <1>2, <3>1
  <2> DEFINE j == k - 1  i == m - k
  <2>3. /\ j \in 0 .. m /\ ~ (k <= j) /\ k \in 1 .. m
        /\ i \in 0 .. m - 1 /\ m - j = i + 1
    BY <1>0, <2>2
  <2>4. DivInv(u, v, i + 1, f[j])
    BY <2>1, <2>3
  <2>5. f[k] = DivStep(u, v, i, f[j])
    BY <1>1, <2>3
  <2> HIDE DEF j, i
  <2>6. DivInv(u, v, i, f[k])
    BY <2>3, <2>4, <2>5, DivisionStep
  <2> QED BY <2>6 DEF i
<1> DEFINE r == LongDivision(u, v)
<1>4. DivInv(u, v, 0, r)
  <2>1. m \in 0 .. m /\ m - m = 0
    BY <1>0
  <2> HIDE DEF m
  <2> QED BY <2>1, <1>1, <1>3
<1> HIDE DEF r
<1>5. /\ r.q \in Int128 /\ r.rem \in Int128 /\ Value(r.rem) < Value(v)
      /\ Value(r.q) * Value(v) + Value(r.rem) * 1 + 0 = Value(u)
  BY <1>4, WeightIs, RestIs DEF DivInv
<1>6. /\ Value(r.q) \in Int /\ Value(r.rem) \in Int /\ 0 <= Value(r.rem)
      /\ Value(u) \in Int /\ Value(v) \in Int
  BY <1>5, ValueRange
<1>7. Value(u) = Value(r.q) * Value(v) + Value(r.rem)
  BY <1>5, <1>6
<1>8. Value(u) \div Value(v) = Value(r.q) /\ Value(u) % Value(v) = Value(r.rem)
  <2> DEFINE N == Value(u)  d == Value(v)  a == Value(r.q)  c == Value(r.rem)
  <2>1. d \in Int /\ d > 0 /\ N \in Int /\ a \in Int /\ c \in Int /\ 0 <= c /\ c < d
        /\ N = a * d + c
    BY <1>5, <1>6, <1>7
  <2> HIDE DEF N, d, a, c
  <2>2. N \div d = a /\ N % d = c
    BY <2>1, DividedUnique
  <2> QED BY <2>2 DEF N, d, a, c
<1> QED BY <1>5, <1>8 DEF r

-----------------------------------------------------------------------------
(* The wrapping product *)

\* Two pairs of limbs with the same value are the same.
LEMMA ValueTells ==
  ASSUME NEW u \in Int128, NEW v \in Int128, Value(u) = Value(v)
  PROVE  u = v
<1>1. u.Hi \in Word /\ u.Lo \in Word /\ v.Hi \in Word /\ v.Lo \in Word
  BY DEF Int128
<1>2. u.Hi * Limb + u.Lo = v.Hi * Limb + v.Lo
  BY DEF Value
<1>3. u.Hi = v.Hi /\ u.Lo = v.Lo
  <2> DEFINE n == v.Hi * Limb + v.Lo  a == u.Hi  b == u.Lo  c == v.Hi  d == v.Lo
  <2>1. n \in Int /\ a \in Int /\ c \in Int /\ b \in Word /\ d \in Word
        /\ n = a * Limb + b /\ n = c * Limb + d
    BY <1>1, <1>2, LimbPositive DEF Word
  <2> HIDE DEF n, a, b, c, d
  <2>2. n \div Limb = a /\ n % Limb = b
    BY <2>1, Unique
  <2>3. n \div Limb = c /\ n % Limb = d
    BY <2>1, Unique
  <2>4. a = c /\ b = d
    BY <2>2, <2>3
  <2> QED BY <2>4 DEF a, b, c, d
<1> QED BY <1>3 DEF Int128

\* Mul: the product modulo 2^128.
THEOREM MulExact ==
  ASSUME NEW u \in Int128, NEW v \in Int128
  PROVE  /\ Mul(u, v) \in Int128
         /\ Value(Mul(u, v)) = (Value(u) * Value(v)) % (Limb * Limb)
<1> DEFINE p == Mul64(u.Lo, v.Lo)
           t == p.hi + u.Lo * v.Hi + u.Hi * v.Lo
           h == t % Limb  c == t \div Limb
           r == U128(p.lo, h)
           n == Value(u) * Value(v)
           M == Limb * Limb
           k == c + u.Hi * v.Hi
<1>1. u.Hi \in Word /\ u.Lo \in Word /\ v.Hi \in Word /\ v.Lo \in Word
  BY DEF Int128
<1>2. /\ u.Hi \in Int /\ u.Lo \in Int /\ v.Hi \in Int /\ v.Lo \in Int
      /\ Limb \in Int /\ M \in Int /\ M > 0
  BY <1>1, LimbPositive DEF Word
<1>3. p.hi \in Word /\ p.lo \in Word /\ u.Lo * v.Lo = p.hi * Limb + p.lo
  BY <1>1, Product
<1>4. Mul(u, v) = r
  BY DEF Mul
<1> HIDE DEF p
<1>5. p.hi \in Int /\ p.lo \in Int
  BY <1>3, LimbPositive DEF Word
<1>6. t \in Int
  BY <1>2, <1>5
<1>7. h \in Word /\ c \in Int /\ t = c * Limb + h
  <2> HIDE DEF t
  <2> QED BY <1>6, Quotient
<1>8. r \in Int128 /\ Value(r) = h * Limb + p.lo
  BY <1>3, <1>7 DEF U128, Int128, Value
<1>9. Value(r) \in Int /\ 0 <= Value(r) /\ Value(r) < M
  BY <1>8, ValueRange
<1>10. n \in Int /\ k \in Int
  <2> HIDE DEF c
  <2>1. Value(u) \in Int /\ Value(v) \in Int
    BY ValueRange
  <2> QED BY <2>1, <1>2, <1>7
<1>11. n = k * M + Value(r)
  <2>1. n = u.Lo * v.Lo + (u.Lo * v.Hi + u.Hi * v.Lo) * Limb + (u.Hi * v.Hi) * (Limb * Limb)
    BY <1>2, Expand DEF Value
  <2> DEFINE a == u.Lo * v.Hi + u.Hi * v.Lo  b == u.Hi * v.Hi  x == u.Lo * v.Lo
  <2>2. a \in Int /\ b \in Int /\ n = x + a * Limb + b * M /\ k = c + b
    BY <2>1, <1>2
  <2>3. t = p.hi + a
    BY <1>2, <1>5
  <2>4. x = p.hi * Limb + p.lo /\ p.hi + a = c * Limb + h
    BY <1>3, <1>7, <2>3
  <2>5. h \in Int /\ c \in Int
    BY <1>7, LimbPositive DEF Word
  <2> HIDE DEF a, b, x, t, h, c, n, k
  <2> DEFINE N == Limb  g == p.hi  l == p.lo  y == c * N + h
  <2>6. g \in Int /\ l \in Int /\ N \in Int /\ n = (g * N + l) + a * N + b * M
        /\ g + a = y /\ M = N * N /\ y \in Int
    BY <1>2, <1>5, <2>2, <2>4, <2>5
  <2>7. y * N = c * (N * N) + h * N
    BY <1>2, <2>5
  <2>8. Value(r) = h * N + l
    BY <1>8
  <2>9. (c + b) * M = c * M + b * M
    BY <1>2, <2>2, <2>5
  <2>10. /\ c * M \in Int /\ b * M \in Int /\ h * N \in Int /\ g * N \in Int
         /\ a * N \in Int /\ y * N = c * M + h * N
    BY <1>2, <2>2, <2>5, <2>6, <2>7
  <2> HIDE DEF N, g, l, y, M, r
  <2>11. (g + a) * N = g * N + a * N
    BY <2>2, <2>6
  <2>12. n = c * M + h * N + l + b * M
    BY <2>6, <2>10, <2>11
  <2>13. n = (c + b) * M + (h * N + l)
    BY <2>6, <2>9, <2>10, <2>12
  <2> QED BY <2>2, <2>8, <2>13
<1>12. n % M = Value(r)
  <2> DEFINE w == Value(r)
  <2>1. w \in Int /\ 0 <= w /\ w < M /\ n = k * M + w
    BY <1>9, <1>11
  <2> HIDE DEF w, n, k, M
  <2>2. n % M = w
    BY <2>1, <1>2, <1>10, DividedUnique
  <2> QED BY <2>2 DEF w
<1> QED BY <1>4, <1>8, <1>12

-----------------------------------------------------------------------------
(* Division *)

\* Division by one limb.
THEOREM LimbDivisionExact ==
  ASSUME NEW u \in Int128, NEW y \in Word, y > 0
  PROVE  /\ ~ LimbDivisionPanics(u, y)
         /\ LET r == LimbDivision(u, y)
            IN  /\ r.q \in Int128 /\ Value(r.q) = Value(u) \div y
                /\ r.rem \in Int128 /\ Value(r.rem) = Value(u) % y
<1> DEFINE hq == (0 * Limb + u.Hi) \div y  hr == (0 * Limb + u.Hi) % y
           n == hr * Limb + u.Lo
           lq == n \div y  lr == n % y
           q == U128(lq, hq)  rem == U128(lr, 0)
<1>1. /\ u.Hi \in Word /\ u.Lo \in Word /\ u.Hi \in Int /\ 0 <= u.Hi /\ u.Hi < Limb
      /\ u.Lo \in Int /\ 0 <= u.Lo /\ u.Lo < Limb
      /\ y \in Int /\ y < Limb /\ Limb \in Int /\ 0 * Limb + u.Hi = u.Hi
  BY LimbPositive DEF Int128, Word
<1>2. hq \in Int /\ hr \in Int /\ 0 <= hr /\ hr < y /\ u.Hi = hq * y + hr
  BY <1>1, Divided
<1>3. LimbDivision(u, y) = [q |-> q, rem |-> rem]
  BY Zenon DEF LimbDivision, Div64
<1>4. ~ LimbDivisionPanics(u, y)
  <2>1. Div64(0, u.Hi, y).rem = hr
    BY DEF Div64
  <2> HIDE DEF hr
  <2> QED BY <1>1, <1>2, <2>1 DEF LimbDivisionPanics, Div64Panics
<1> HIDE DEF hq, hr
<1>5. n \in Int
  BY <1>1, <1>2
<1>6. lq \in Int /\ lr \in Int /\ 0 <= lr /\ lr < y /\ n = lq * y + lr
  <2> HIDE DEF n
  <2> QED BY <1>1, <1>5, Divided
<1> HIDE DEF lq, lr
<1>7. hq \in Word
  <2>1. hq >= 0
    <3> SUFFICES ASSUME hq < 0 PROVE FALSE
      BY <1>2
    <3>1. -hq \in Int /\ -hq >= 1
      BY <1>2
    <3>2. (-hq) * y >= y /\ (-hq) * y = -(hq * y) /\ hq * y \in Int
      BY <3>1, <1>1, <1>2, Multiple
    <3> QED BY <3>2, <1>1, <1>2
  <2>2. hq < Limb
    <3> SUFFICES ASSUME hq >= Limb PROVE FALSE
      BY <1>1, <1>2
    <3>1. y * hq >= hq
      BY <2>1, <1>1, <1>2, Multiple
    <3>2. y * hq = hq * y /\ hq * y \in Int
      BY <1>1, <1>2
    <3> QED BY <3>1, <3>2, <1>1, <1>2
  <2> QED BY <2>1, <2>2, <1>1, <1>2 DEF Word
<1>8. 0 <= n /\ n < y * Limb
  <2> DEFINE z == hr * Limb
  <2>1. z \in Int /\ z >= 0
    BY <1>1, <1>2
  <2>2. (y - hr) * Limb >= Limb
    <3>1. y - hr \in Int /\ y - hr >= 1
      BY <1>1, <1>2
    <3> QED BY <3>1, LimbPositive, Multiple
  <2>3. (y - hr) * Limb = y * Limb - hr * Limb /\ y * Limb \in Int
    BY <1>1, <1>2
  <2>4. n = z + u.Lo /\ (y - hr) * Limb = y * Limb - z
    BY <2>3
  <2> HIDE DEF n, z
  <2> QED BY <2>1, <2>2, <2>3, <2>4, <1>1
<1>9. lq \in Word
  <2> HIDE DEF n
  <2>1. lq >= 0
    <3> SUFFICES ASSUME lq < 0 PROVE FALSE
      BY <1>6
    <3>1. -lq \in Int /\ -lq >= 1
      BY <1>6
    <3>2. (-lq) * y >= y /\ (-lq) * y = -(lq * y) /\ lq * y \in Int
      BY <3>1, <1>1, <1>6, Multiple
    <3> QED BY <3>2, <1>1, <1>5, <1>6, <1>8
  <2>2. lq < Limb
    <3> SUFFICES ASSUME lq >= Limb PROVE FALSE
      BY <1>1, <1>6
    <3>1. (lq - Limb) * y >= 0 /\ (lq - Limb) * y = lq * y - Limb * y
      BY <1>1, <1>6
    <3>2. lq * y \in Int /\ Limb * y \in Int /\ Limb * y = y * Limb
      BY <1>1, <1>6
    <3> QED BY <3>1, <3>2, <1>1, <1>5, <1>6, <1>8
  <2> QED BY <2>1, <2>2, <1>1, <1>6 DEF Word
<1>10. /\ q \in Int128 /\ Value(q) = hq * Limb + lq
       /\ rem \in Int128 /\ Value(rem) = lr
  <2>1. lr \in Word /\ 0 \in Word
    BY <1>1, <1>6, LimbPositive DEF Word
  <2> QED BY <2>1, <1>1, <1>6, <1>7, <1>9 DEF U128, Int128, Value
<1>11. Value(u) = (hq * Limb + lq) * y + lr
  <2>1. Value(u) = (hq * y + hr) * Limb + u.Lo
    BY <1>2 DEF Value
  <2>2. (hq * y + hr) * Limb + u.Lo = (hq * Limb) * y + (hr * Limb + u.Lo)
    BY <1>1, <1>2
  <2>3. Value(u) = (hq * Limb) * y + (lq * y + lr)
    BY <2>1, <2>2, <1>6
  <2> DEFINE a == hq * Limb
  <2>4. a \in Int /\ Value(u) = a * y + (lq * y + lr)
    BY <2>3, <1>1, <1>2
  <2> HIDE DEF a
  <2>5. a * y + (lq * y + lr) = (a + lq) * y + lr
    BY <2>4, <1>1, <1>6
  <2>6. Value(u) = (a + lq) * y + lr
    BY <2>4, <2>5
  <2> QED BY <2>6 DEF a
<1>12. Value(u) \div y = Value(q) /\ Value(u) % y = lr
  <2> DEFINE N == Value(u)  b == hq * Limb + lq
  <2>1. N \in Int /\ b \in Int /\ N = b * y + lr
    BY <1>1, <1>2, <1>6, <1>11, ValueRange
  <2> HIDE DEF N, b
  <2>2. N \div y = b /\ N % y = lr
    BY <2>1, <1>1, <1>6, DividedUnique
  <2> QED BY <2>2, <1>10 DEF N, b
<1> HIDE DEF q, rem
<1> QED BY <1>3, <1>4, <1>10, <1>12

\* Zero is zero.
LEMMA ValueZero == Zero \in Int128 /\ Value(Zero) = 0
BY LimbPositive DEF Zero, U128, Int128, Word, Value

\* DivMod: the quotient and the remainder, by whichever of its three ways; and
\* it panics on zero and on nothing else.
THEOREM DivModExact ==
  ASSUME NEW u \in Int128, NEW v \in Int128
  PROVE  /\ DivModPanics(u, v) <=> Value(v) = 0
         /\ Value(v) # 0 =>
              LET r == DivMod(u, v)
              IN  /\ r.q \in Int128 /\ Value(r.q) = Value(u) \div Value(v)
                  /\ r.rem \in Int128 /\ Value(r.rem) = Value(u) % Value(v)
                  /\ DOMAIN r = {"q", "rem"}
<1>1. /\ Value(u) \in Int /\ 0 <= Value(u) /\ Value(v) \in Int /\ 0 <= Value(v)
      /\ v.Hi \in Word /\ v.Lo \in Word /\ v.Lo \in Int /\ v.Lo >= 0
  BY ValueRange, LimbPositive DEF Int128, Word
<1>2. IsZero(v) <=> Value(v) = 0
  <2>1. CASE IsZero(v)
    BY <2>1, LimbPositive DEF IsZero, Value
  <2>2. CASE Value(v) = 0
    <3>1. v = Zero
      BY <2>2, ValueZero, ValueTells
    <3> QED BY <3>1, <2>2 DEF IsZero, Zero, U128
  <2> QED BY <2>1, <2>2
<1>3. v.Hi = 0 => Value(v) = v.Lo
  BY <1>1, LimbPositive DEF Value
<1>4. DivModPanics(u, v) <=> Value(v) = 0
  <2>1. ASSUME v.Hi = 0, Value(v) # 0 PROVE ~ LimbDivisionPanics(u, v.Lo)
    <3>1. v.Lo > 0
      BY <2>1, <1>1, <1>3
    <3> QED BY <3>1, <1>1, LimbDivisionExact
  <2> QED BY <2>1, <1>2 DEF DivModPanics
<1>5. ASSUME Value(v) # 0
      PROVE  LET r == DivMod(u, v)
             IN  /\ r.q \in Int128 /\ Value(r.q) = Value(u) \div Value(v)
                 /\ r.rem \in Int128 /\ Value(r.rem) = Value(u) % Value(v)
                 /\ DOMAIN r = {"q", "rem"}
  <2>0. Value(v) > 0
    BY <1>1, <1>5
  <2>1. CASE Cmp(u, v) < 0
    <3> DEFINE r == [q |-> Zero, rem |-> u]
    <3>1. DivMod(u, v) = r
      BY <2>1 DEF DivMod
    <3>2. Value(u) < Value(v)
      BY <2>1, <1>1, CmpExact
    <3>3. Value(u) \div Value(v) = 0 /\ Value(u) % Value(v) = Value(u)
      <4> DEFINE N == Value(u)  d == Value(v)
      <4>1. N \in Int /\ d \in Int /\ d > 0 /\ 0 <= N /\ N < d /\ N = 0 * d + N
        BY <1>1, <2>0, <3>2
      <4> HIDE DEF N, d
      <4>2. N \div d = 0 /\ N % d = N
        BY <4>1, DividedUnique
      <4> QED BY <4>2 DEF N, d
    <3>4. r.q = Zero /\ r.rem = u /\ DOMAIN r = {"q", "rem"}
      OBVIOUS
    <3> HIDE DEF r
    <3> QED BY <3>1, <3>3, <3>4, ValueZero
  <2>2. CASE ~ (Cmp(u, v) < 0) /\ v.Hi = 0
    <3>1. DivMod(u, v) = LimbDivision(u, v.Lo)
      BY <2>2 DEF DivMod
    <3>2. Value(v) = v.Lo /\ v.Lo > 0
      BY <2>2, <1>3, <2>0
    <3>3. DOMAIN LimbDivision(u, v.Lo) = {"q", "rem"}
      BY DEF LimbDivision
    <3> DEFINE r == LimbDivision(u, v.Lo)
    <3>4. /\ r.q \in Int128 /\ Value(r.q) = Value(u) \div v.Lo
          /\ r.rem \in Int128 /\ Value(r.rem) = Value(u) % v.Lo
      BY <1>1, <3>2, LimbDivisionExact
    <3> HIDE DEF r
    <3> QED BY <3>1, <3>2, <3>3, <3>4 DEF r
  <2>3. CASE ~ (Cmp(u, v) < 0) /\ v.Hi # 0
    <3>1. DivMod(u, v) = LongDivision(u, v)
      BY <2>3 DEF DivMod
    <3> DEFINE r == LongDivision(u, v)
    <3>2. /\ r.q \in Int128 /\ Value(r.q) = Value(u) \div Value(v)
          /\ r.rem \in Int128 /\ Value(r.rem) = Value(u) % Value(v)
      BY <2>0, LongDivisionExact
    <3>3. DOMAIN r = {"q", "rem"}
      <4>1. PICK f : /\ r = f[2 * LimbBits]
                     /\ \A k \in 1 .. 2 * LimbBits :
                          f[k] = DivStep(u, v, 2 * LimbBits - k, f[k - 1])
        BY LongDivisionIs
      <4>2. 2 * LimbBits \in 1 .. 2 * LimbBits
        BY LimbPower
      <4>3. \E i, x : r = DivStep(u, v, i, x)
        BY <4>1, <4>2
      <4> HIDE DEF r
      <4> QED BY <4>3 DEF DivStep
    <3> HIDE DEF r
    <3> QED BY <3>1, <3>2, <3>3 DEF r
  <2> QED BY <2>1, <2>2, <2>3
<1> QED BY <1>4, <1>5

-----------------------------------------------------------------------------
(* Signs *)

\* The sign of an integer.
SignOf(n) == IF n < 0 THEN -1 ELSE IF n = 0 THEN 0 ELSE 1

\* The sign of two limbs in two's complement.
LEMMA Signs ==
  ASSUME NEW i \in Int128
  PROVE  /\ SignedValue(i) \in Int
         /\ IsNegative(i) => SignedValue(i) = Value(i) - Limb * Limb /\ SignedValue(i) < 0
         /\ ~ IsNegative(i) => SignedValue(i) = Value(i) /\ SignedValue(i) >= 0
<1>1. /\ Value(i) \in Int /\ 0 <= Value(i) /\ Value(i) < Limb * Limb
      /\ Limb * Limb \in Int /\ i.Hi \in Int
  BY ValueRange, LimbPositive DEF Int128, Word
<1>2. IsNegative(i) <=> 2 * i.Hi >= Limb
  <2> DEFINE h == Limb \div 2
  <2>1. h \in Int /\ Limb = 2 * h
    BY LimbPower
  <2>2. IsNegative(i) <=> i.Hi >= h
    BY DEF IsNegative
  <2> HIDE DEF h
  <2> QED BY <2>1, <2>2, <1>1
<1>3. SignedValue(i) = IF IsNegative(i) THEN Value(i) - Limb * Limb ELSE Value(i)
  BY <1>2 DEF SignedValue
<1> DEFINE s == SignedValue(i)  w == Value(i)  M == Limb * Limb
<1>4. w \in Int /\ 0 <= w /\ w < M /\ M \in Int /\ s = IF IsNegative(i) THEN w - M ELSE w
  BY <1>1, <1>3
<1> HIDE DEF s, w, M
<1>5. /\ s \in Int
      /\ IsNegative(i) => s = w - M /\ s < 0
      /\ ~ IsNegative(i) => s = w /\ s >= 0
  BY <1>4
<1> QED BY <1>4, <1>5 DEF s, w, M

\* CmpSigned is the order of the signed values.
THEOREM CmpSignedExact ==
  ASSUME NEW i \in Int128, NEW j \in Int128
  PROVE  CmpSigned(i, j) = SignOf(SignedValue(i) - SignedValue(j))
<1> DEFINE s == SignedValue(i)  t == SignedValue(j)  v == Value(i)  w == Value(j)
           M == Limb * Limb
<1>1. /\ s \in Int
      /\ IsNegative(i) => s = v - M /\ s < 0
      /\ ~ IsNegative(i) => s = v /\ s >= 0
  BY Signs
<1>2. /\ t \in Int
      /\ IsNegative(j) => t = w - M /\ t < 0
      /\ ~ IsNegative(j) => t = w /\ t >= 0
  BY Signs
<1>3. v \in Int /\ w \in Int /\ M \in Int
  BY ValueRange, LimbPositive
<1>4. Cmp(i, j) = IF v < w THEN -1 ELSE IF v = w THEN 0 ELSE 1
  BY CmpExact
<1> HIDE DEF s, t, v, w, M
<1>5. CASE IsNegative(i) /\ ~ IsNegative(j)
  <2>1. CmpSigned(i, j) = -1
    BY <1>5 DEF CmpSigned
  <2>2. s - t < 0
    BY <1>1, <1>2, <1>5
  <2> QED BY <2>1, <2>2 DEF SignOf, s, t
<1>6. CASE ~ IsNegative(i) /\ IsNegative(j)
  <2>1. CmpSigned(i, j) = 1
    BY <1>6 DEF CmpSigned
  <2>2. ~ (s - t < 0) /\ s - t # 0
    BY <1>1, <1>2, <1>6
  <2> QED BY <2>1, <2>2 DEF SignOf, s, t
<1>7. CASE IsNegative(i) <=> IsNegative(j)
  <2>1. CmpSigned(i, j) = Cmp(i, j)
    <3>1. IsNegative(i) = IsNegative(j)
      BY <1>7 DEF IsNegative
    <3> QED BY <3>1 DEF CmpSigned
  <2>2. s - t = v - w
    BY <1>1, <1>2, <1>3, <1>7
  <2>3. Cmp(i, j) = SignOf(v - w)
    BY <1>3, <1>4 DEF SignOf
  <2> QED BY <2>1, <2>2, <2>3 DEF s, t
<1> QED BY <1>5, <1>6, <1>7

\* I128From keeps the sign of an int64.
THEOREM I128FromExact ==
  ASSUME NEW v \in -(Limb \div 2) .. (Limb \div 2) - 1
  PROVE  I128From(v) \in Int128 /\ SignedValue(I128From(v)) = v
<1> DEFINE h == Limb \div 2  r == I128From(v)
<1>1. h \in Int /\ Limb = 2 * h /\ Limb \in Int /\ Limb > 3
  BY LimbPower, LimbPositive
<1>2. v \in Int /\ -h <= v /\ v < h
  BY <1>1
<1> HIDE DEF h
<1>3. CASE v < 0
  <2>1. v + Limb \in Word /\ v = (-1) * Limb + (v + Limb)
    BY <1>1, <1>2, <1>3 DEF Word
  <2>2. v % Limb = v + Limb
    <3> DEFINE w == v + Limb
    <3>1. w \in Word /\ v = (-1) * Limb + w
      BY <2>1
    <3> HIDE DEF w
    <3>2. v % Limb = w
      BY <3>1, <1>2, Unique
    <3> QED BY <3>2 DEF w
  <2>3. r = [Lo |-> v + Limb, Hi |-> Limb - 1]
    BY <2>2, <1>3 DEF I128From, U128
  <2> HIDE DEF r
  <2>4. r \in Int128 /\ r.Hi = Limb - 1 /\ r.Lo = v + Limb
    BY <2>1, <2>3, <1>1 DEF Int128, Word
  <2>5. Value(r) = (Limb - 1) * Limb + (v + Limb) /\ 2 * r.Hi >= Limb
    BY <2>4, <1>1 DEF Value
  <2>6. ((Limb - 1) * Limb + (v + Limb)) - Limb * Limb = v
    <3>1. (Limb - 1) * Limb = Limb * Limb - Limb /\ Limb * Limb \in Int
      BY <1>1
    <3> QED BY <3>1, <1>1, <1>2
  <2>7. SignedValue(r) = v
    <3>1. SignedValue(r) = Value(r) - Limb * Limb
      BY <2>5 DEF SignedValue
    <3> DEFINE c == (Limb - 1) * Limb + (v + Limb)  M == Limb * Limb
    <3>2. Value(r) = c
      BY <2>5, Zenon
    <3>3. c - M = v
      BY <2>6, Zenon
    <3>4. SignedValue(r) = Value(r) - M
      BY <3>1, Zenon
    <3> HIDE DEF c, M
    <3> QED BY <3>2, <3>3, <3>4
  <2> QED BY <2>4, <2>7 DEF r
<1>4. CASE ~ (v < 0)
  <2>1. v \in Word /\ v = 0 * Limb + v
    BY <1>1, <1>2, <1>4 DEF Word
  <2>2. v % Limb = v
    BY <2>1, <1>2, Unique
  <2>3. r = [Lo |-> v, Hi |-> 0]
    BY <2>2, <1>4 DEF I128From, U128
  <2> HIDE DEF r
  <2>4. r \in Int128 /\ r.Hi = 0 /\ r.Lo = v
    BY <2>1, <2>3, <1>1 DEF Int128, Word
  <2>5. Value(r) = 0 * Limb + v /\ ~ (2 * r.Hi >= Limb)
    BY <2>4, <1>1 DEF Value
  <2>6. SignedValue(r) = v
    BY <2>1, <2>5 DEF SignedValue
  <2> QED BY <2>4, <2>6 DEF r
<1> QED BY <1>3, <1>4

-----------------------------------------------------------------------------
(* The operations, asked one after the other *)

\* What U128Exact says of an addition and its answer.
LEMMA AddAnswers ==
  ASSUME NEW u \in Int128, NEW v \in Int128
  PROVE  LET r == AddChecked(u, v)
         IN  /\ r.val \in Int128 /\ Value(r.val) = (Value(u) + Value(v)) % (Limb * Limb)
             /\ r.ok <=> Value(u) + Value(v) < Limb * Limb
<1> DEFINE r == AddChecked(u, v)  n == Value(u) + Value(v)  M == Limb * Limb
           w == Value(r.val)  q == IF r.ok THEN 0 ELSE 1
<1>1. /\ r.val \in Int128
      /\ r.ok <=> n < M
      /\ w = n - (IF r.ok THEN 0 ELSE M)
  <2> DEFINE s == Value(u)  t == Value(v)
  <2>1. /\ r.val \in Int128
        /\ r.ok <=> s + t < M
        /\ w = s + (t - (IF r.ok THEN 0 ELSE M))
    BY AddCheckedExact, Zenon
  <2>2. s \in Int /\ t \in Int /\ M \in Int
    BY ValueRange, LimbPositive
  <2> HIDE DEF r, M, w, s, t
  <2>3. w = (s + t) - (IF r.ok THEN 0 ELSE M)
    BY <2>1, <2>2
  <2> QED BY <2>1, <2>3 DEF s, t
<1> HIDE DEF r
<1>2. /\ w \in Int /\ 0 <= w /\ w < M /\ n \in Int /\ M \in Int
  BY <1>1, ValueRange, LimbPositive
<1> HIDE DEF w, n, M
<1>3. q \in Int /\ n = q * M + w
  BY <1>1, <1>2
<1> HIDE DEF q
<1>4. n % M = w
  <2>1. M > 0
    BY <1>2
  <2> QED BY <2>1, <1>2, <1>3, DividedUnique
<1> QED BY <1>1, <1>4 DEF r, n, M, w

\* Of a subtraction.
LEMMA SubAnswers ==
  ASSUME NEW u \in Int128, NEW v \in Int128
  PROVE  LET r == SubChecked(u, v)
         IN  /\ r.val \in Int128 /\ Value(r.val) = (Value(u) - Value(v)) % (Limb * Limb)
             /\ r.ok <=> Value(u) >= Value(v)
<1> DEFINE r == SubChecked(u, v)  n == Value(u) - Value(v)  M == Limb * Limb
           w == Value(r.val)  q == IF r.ok THEN 0 ELSE -1
<1>1. /\ r.val \in Int128
      /\ r.ok <=> Value(u) >= Value(v)
      /\ w = n + (IF r.ok THEN 0 ELSE M)
  BY SubCheckedExact
<1> HIDE DEF r
<1>2. /\ w \in Int /\ 0 <= w /\ w < M /\ n \in Int /\ M \in Int
  BY <1>1, ValueRange, LimbPositive
<1> HIDE DEF w, n, M
<1>3. q \in Int /\ n = q * M + w
  BY <1>1, <1>2
<1> HIDE DEF q
<1>4. n % M = w
  <2>1. M > 0
    BY <1>2
  <2> QED BY <2>1, <1>2, <1>3, DividedUnique
<1> QED BY <1>1, <1>4 DEF r, n, M, w

\* Of a multiplication, wrapping or checked.
LEMMA MulAnswers ==
  ASSUME NEW u \in Int128, NEW v \in Int128
  PROVE  /\ Mul(u, v) \in Int128
         /\ Value(Mul(u, v)) = (Value(u) * Value(v)) % (Limb * Limb)
         /\ MulChecked(u, v).val = Mul(u, v)
         /\ MulChecked(u, v).ok <=> Value(u) * Value(v) < Limb * Limb
<1> DEFINE r == MulChecked(u, v)
<1>1. /\ r.val \in Int128
      /\ r.ok <=> Value(u) * Value(v) < Limb * Limb
      /\ Value(r.val) = (Value(u) * Value(v)) % (Limb * Limb)
  BY MulCheckedExact
<1> HIDE DEF r
<1>2. Mul(u, v) \in Int128 /\ Value(Mul(u, v)) = (Value(u) * Value(v)) % (Limb * Limb)
  BY MulExact
<1>3. Value(r.val) = Value(Mul(u, v))
  BY <1>1, <1>2
<1>4. r.val = Mul(u, v)
  BY <1>1, <1>2, <1>3, ValueTells
<1> QED BY <1>1, <1>2, <1>4 DEF r

\* Of a comparison: the order is the sign of the difference.
LEMMA CmpAnswers ==
  ASSUME NEW u \in Int128, NEW v \in Int128
  PROVE  Cmp(u, v) = SignOf(Value(u) - Value(v))
<1> DEFINE s == Value(u)  t == Value(v)
<1>1. s \in Int /\ t \in Int /\ Cmp(u, v) = IF s < t THEN -1 ELSE IF s = t THEN 0 ELSE 1
  BY ValueRange, CmpExact
<1> HIDE DEF s, t
<1>2. Cmp(u, v) = SignOf(s - t)
  BY <1>1 DEF SignOf
<1> QED BY <1>2 DEF s, t

\* The 128-bit arithmetic of the Go SDK is the integers', whatever is asked of
\* it and however wide its limbs: no carry is lost, the three ways to divide
\* agree with the integers, and only a division by zero panics.
THEOREM ArithmeticIsExact == Spec => []U128Exact
<1>1. Init => U128Exact
  BY DEF Init, None, U128Exact
<1>2. U128Exact /\ [Next]_vars => U128Exact'
  <2> SUFFICES ASSUME U128Exact, [Next]_vars PROVE U128Exact'
    OBVIOUS
  <2>1. CASE Adds
    <3>1. PICK x \in Int128, y \in Int128 : Ask("add", x, y, AddChecked(x, y))
      BY <2>1 DEF Adds
    <3>2. /\ asked'.op = "add" /\ asked'.x = x /\ asked'.y = y
          /\ answer' = AddChecked(x, y)
      BY <3>1 DEF Ask
    <3> QED BY <3>2, AddAnswers DEF U128Exact
  <2>2. CASE Subtracts
    <3>1. PICK x \in Int128, y \in Int128 : Ask("sub", x, y, SubChecked(x, y))
      BY <2>2 DEF Subtracts
    <3>2. /\ asked'.op = "sub" /\ asked'.x = x /\ asked'.y = y
          /\ answer' = SubChecked(x, y)
      BY <3>1 DEF Ask
    <3> QED BY <3>2, SubAnswers DEF U128Exact
  <2>3. CASE Multiplies
    <3>1. PICK x \in Int128, y \in Int128 :
            Ask("mul", x, y, [wrapped |-> Mul(x, y), checked |-> MulChecked(x, y)])
      BY <2>3 DEF Multiplies
    <3>2. /\ asked'.op = "mul" /\ asked'.x = x /\ asked'.y = y
          /\ answer'.wrapped = Mul(x, y) /\ answer'.checked = MulChecked(x, y)
      BY <3>1 DEF Ask
    <3> QED BY <3>2, MulAnswers DEF U128Exact
  <2>4. CASE Divides
    <3>1. PICK x \in Int128, y \in Int128 :
            Ask("div", x, y, IF DivModPanics(x, y) THEN Panicked ELSE DivMod(x, y))
      BY <2>4 DEF Divides
    <3>2. /\ asked'.op = "div" /\ asked'.x = x /\ asked'.y = y
          /\ answer' = IF DivModPanics(x, y) THEN Panicked ELSE DivMod(x, y)
      BY <3>1 DEF Ask
    <3>3. CASE Value(y) = 0
      <4>1. answer' = Panicked
        BY <3>2, <3>3, DivModExact
      <4> QED BY <3>2, <3>3, <4>1 DEF U128Exact
    <3>4. CASE Value(y) # 0
      <4>1. answer' = DivMod(x, y)
        BY <3>2, <3>4, DivModExact
      <4>2. /\ answer'.q \in Int128 /\ Value(answer'.q) = Value(x) \div Value(y)
            /\ answer'.rem \in Int128 /\ Value(answer'.rem) = Value(x) % Value(y)
            /\ DOMAIN answer' = {"q", "rem"}
        BY <3>4, <4>1, DivModExact
      <4>3. answer' # Panicked
        <5>1. DOMAIN Panicked = {"panicked"}
          BY DEF Panicked
        <5> QED BY <4>2, <5>1
      <4> QED BY <3>2, <3>4, <4>2, <4>3 DEF U128Exact
    <3> QED BY <3>3, <3>4
  <2>5. CASE Compares
    <3>1. PICK x \in Int128, y \in Int128 :
            Ask("cmp", x, y, [unsigned |-> Cmp(x, y), signed |-> CmpSigned(x, y)])
      BY <2>5 DEF Compares
    <3>2. /\ asked'.op = "cmp" /\ asked'.x = x /\ asked'.y = y
          /\ answer'.unsigned = Cmp(x, y) /\ answer'.signed = CmpSigned(x, y)
      BY <3>1 DEF Ask
    <3>3. /\ answer'.unsigned = SignOf(Value(x) - Value(y))
          /\ answer'.signed = SignOf(SignedValue(x) - SignedValue(y))
      BY <3>2, CmpAnswers, CmpSignedExact
    <3> QED BY <3>2, <3>3 DEF U128Exact, SignOf
  <2>6. CASE Extends
    <3>1. PICK v \in -(Limb \div 2) .. (Limb \div 2) - 1 :
            Ask("extend", v, Zero, I128From(v))
      BY <2>6 DEF Extends
    <3>2. asked'.op = "extend" /\ asked'.x = v /\ answer' = I128From(v)
      BY <3>1 DEF Ask
    <3> QED BY <3>2, I128FromExact DEF U128Exact
  <2>7. ASSUME NEW decls, NEW version, NEW noManifest, Builds(decls, version, noManifest)
        PROVE  U128Exact'
    <3>1. asked'.op = "build"
      BY <2>7 DEF Builds, Ask
    <3> QED BY <3>1 DEF U128Exact
  <2>8. CASE BuildsContract \/ BuildsSpelling
    BY <2>7, <2>8 DEF BuildsContract, BuildsSpelling
  <2>9. CASE Again
    <3>1. asked'.op = "none"
      BY <2>9 DEF Again, None
    <3> QED BY <3>1 DEF U128Exact
  <2>10. CASE Writes \/ UNCHANGED vars
    BY <2>10 DEF Writes, vars, U128Exact
  <2> QED BY <2>1, <2>2, <2>3, <2>4, <2>5, <2>6, <2>8, <2>9, <2>10 DEF Next
<1> QED BY <1>1, <1>2, PTL DEF Spec

-----------------------------------------------------------------------------
(* The lines of a manifest *)

LineIs(i) ==
  /\ i \in Headers => /\ lines[i].path \in Seq(STRING) /\ lines[i].path # <<>>
                      /\ lines[i].array => ~ IsFunctionTable(lines[i].path)
  /\ i \in Assignments => /\ lines[i].kind # "header"
                          /\ lines[i].key \in Seq(STRING) /\ lines[i].key # <<>>
                          /\ lines[i].attrs \in SUBSET STRING

LEMMA LinesAre ==
  ASSUME lines \in Seq(Lines)
  PROVE  /\ Len(lines) \in Nat /\ DOMAIN lines = 1 .. Len(lines)
         /\ Headers \subseteq 1 .. Len(lines) /\ Assignments = (1 .. Len(lines)) \ Headers
         /\ \A i \in 1 .. Len(lines) : lines[i] \in Lines /\ LineIs(i)
<1>1. Len(lines) \in Nat /\ DOMAIN lines = 1 .. Len(lines)
      /\ \A i \in 1 .. Len(lines) : lines[i] \in Lines
  BY ElementOfSeq
<1>2. ASSUME NEW i \in 1 .. Len(lines) PROVE LineIs(i)
  <2> DEFINE line == lines[i]
  <2>1. \/ /\ line \in [kind : {"header"}, path : Seq(STRING) \ {<<>>}, array : BOOLEAN]
           /\ line.array => ~ IsFunctionTable(line.path)
        \/ line \in [kind : {"assignment"}, key : Seq(STRING) \ {<<>>},
                     shape : {"strings", "inline", "other"}, attrs : SUBSET STRING]
    BY <1>1, LinesAssumption
  <2>2. (i \in Headers <=> line.kind = "header") /\ (i \in Assignments => line.kind # "header")
    BY <1>1 DEF Headers, Assignments
  <2> HIDE DEF line
  <2> QED
    BY <2>1, <2>2 DEF LineIs, line
<1> QED
  BY <1>1, <1>2 DEF Headers, Assignments

LEMMA AboveNext ==
  ASSUME NEW n \in Nat, NEW H \in SUBSET (1 .. n)
  PROVE  /\ {h \in H : h < 1} = {}
         /\ \A k \in 1 .. n :
              IF k \in H THEN {h \in H : h < k + 1} # {} /\ Max({h \in H : h < k + 1}) = k
              ELSE {h \in H : h < k + 1} = {h \in H : h < k}
<1>0. \A h \in H : h \in 1 .. n /\ ~ h < 1
  OBVIOUS
<1>1. {h \in H : h < 1} = {}
  BY <1>0
<1>2. ASSUME NEW k \in 1 .. n, k \in H
      PROVE  {h \in H : h < k + 1} # {} /\ Max({h \in H : h < k + 1}) = k
  <2> DEFINE s == {h \in H : h < k + 1}
  <2>0. k < k + 1 /\ \A h \in 1 .. n : h < k + 1 => h <= k
    OBVIOUS
  <2>1. s \in SUBSET (1 .. n) /\ k \in s /\ \A y \in s : y <= k
    BY <1>0, <1>2, <2>0
  <2> HIDE DEF s
  <2>2. Max(s) \in s /\ \A y \in s : Max(s) >= y
    BY <2>1, MaxIs
  <2>3. Max(s) >= k /\ Max(s) <= k /\ Max(s) \in 1 .. n
    BY <2>1, <2>2
  <2>4. Max(s) = k
    BY <2>3
  <2> QED
    BY <2>1, <2>4 DEF s
<1>3. ASSUME NEW k \in 1 .. n, k \notin H
      PROVE  {h \in H : h < k + 1} = {h \in H : h < k}
  <2>1. \A h \in H : h \in 1 .. n /\ h # k
    BY <1>3
  <2>2. \A h \in H : h < k + 1 <=> h < k
    BY <2>1
  <2> QED
    BY <2>2
<1> QED
  BY <1>1, <1>2, <1>3

\* The table of a line, told by the line before it.
LEMMA TableNext ==
  ASSUME lines \in Seq(Lines)
  PROVE  /\ TableAt(1) = <<>>
         /\ \A k \in 1 .. Len(lines) :
              TableAt(k + 1) = IF k \in Headers THEN lines[k].path ELSE TableAt(k)
<1> DEFINE n == Len(lines)  H == Headers
<1>1. n \in Nat /\ H \in SUBSET (1 .. n)
  BY LinesAre
<1> HIDE DEF n, H
<1>2. /\ {h \in H : h < 1} = {}
      /\ \A k \in 1 .. n :
           IF k \in H THEN {h \in H : h < k + 1} # {} /\ Max({h \in H : h < k + 1}) = k
           ELSE {h \in H : h < k + 1} = {h \in H : h < k}
  BY <1>1, AboveNext
<1>3. TableAt(1) = <<>>
  BY <1>2 DEF TableAt, H
<1>4. ASSUME NEW k \in 1 .. n
      PROVE  TableAt(k + 1) = IF k \in Headers THEN lines[k].path ELSE TableAt(k)
  BY <1>2 DEF TableAt, H
<1> QED
  BY <1>3, <1>4 DEF n

\* The table of a line is one of a header above it, or none.
LEMMA TableIs ==
  ASSUME lines \in Seq(Lines)
  PROVE  \A k \in 1 .. Len(lines) + 1 :
           /\ TableAt(k) \in Seq(STRING)
           /\ TableAt(k) = <<>> \/ \E h \in Headers : h < k /\ TableAt(k) = lines[h].path
<1> DEFINE n == Len(lines)
           Has1(k) == TableAt(k) = <<>> \/ \E h \in Headers : h < k /\ TableAt(k) = lines[h].path
           T == {k \in 0 .. n : Has1(k + 1)}
<1>1. n \in Nat /\ Headers \subseteq 1 .. n /\ \A i \in 1 .. n : LineIs(i)
  BY LinesAre
<1>2. /\ TableAt(1) = <<>>
      /\ \A k \in 1 .. n : TableAt(k + 1) = IF k \in Headers THEN lines[k].path ELSE TableAt(k)
  BY TableNext
<1> HIDE DEF n
<1>3. 0 \in T
  BY <1>1, <1>2
<1>4. ASSUME NEW k \in 1 .. n, k - 1 \in T PROVE k \in T
  <2>1. Has1(k) /\ k \in 0 .. n
    BY <1>1, <1>4
  <2>2. CASE k \in Headers
    <3>1. k < k + 1 /\ TableAt(k + 1) = lines[k].path
      BY <1>1, <1>2, <2>2
    <3> QED
      BY <2>1, <2>2, <3>1
  <2>3. CASE k \notin Headers
    <3>1. TableAt(k + 1) = TableAt(k)
      BY <1>2, <2>3
    <3>2. \A h \in Headers : h < k => h < k + 1
      BY <1>1
    <3> QED
      BY <2>1, <3>1, <3>2
  <2> QED
    BY <2>2, <2>3
<1> HIDE DEF T
<1>5. \A k \in 0 .. n : k \in T
  BY <1>1, <1>3, <1>4, UpTo
<1>6. ASSUME NEW k \in 1 .. n + 1
      PROVE  TableAt(k) \in Seq(STRING) /\ Has1(k)
  <2>1. k - 1 \in 0 .. n /\ (k - 1) + 1 = k
    BY <1>1
  <2>2. Has1(k)
    BY <1>5, <2>1 DEF T
  <2>3. <<>> \in Seq(STRING)
    BY EmptySeq
  <2> QED
    BY <1>1, <2>2, <2>3 DEF LineIs
<1> QED
  BY <1>6 DEF n

-----------------------------------------------------------------------------
(* What the parser makes of them *)

\* The lines that give a function its attributes.
Lists(i) ==
  i \in Assignments /\ IsFunctionTable(TableAt(i)) /\ lines[i].key = <<"attributes">>

Declares(j, f) ==
  j \in Headers /\ IsFunctionTable(lines[j].path) /\ lines[j].path[2] = f

\* The parser after k lines.
Right(m, k) ==
  /\ m.table = TableAt(k + 1)
  /\ \A f : f \in DOMAIN m.functions <=> \E j \in 1 .. k : Declares(j, f)
  /\ \A i \in 1 .. k : Lists(i) =>
       /\ lines[i].shape = "strings"
       /\ m.functions[TableAt(i)[2]] = lines[i].attrs
  /\ \A f \in DOMAIN m.functions :
       (\A i \in 1 .. k : Lists(i) => TableAt(i)[2] # f) => m.functions[f] = {}

Wrong(k) == \E i \in 1 .. k : Lists(i) /\ lines[i].shape # "strings"

Parsed(m, k) == IF m.ok THEN Right(m, k) ELSE Wrong(k)

NoLines == [ok |-> TRUE, table |-> <<>>, functions |-> <<>>]

ParserStates ==
  [ok : BOOLEAN, table : Seq(STRING),
   functions : UNION {[D -> SUBSET STRING] : D \in SUBSET STRING}]

LEMMA FunctionTableIs ==
  ASSUME NEW p \in Seq(STRING)
  PROVE  IsFunctionTable(p) <=> p = <<"functions", p[2]>>
BY DEF IsFunctionTable

LEMMA StatesAre ==
  ASSUME NEW m \in ParserStates
  PROVE  /\ m.ok \in BOOLEAN /\ m.table \in Seq(STRING)
         /\ DOMAIN m.functions \in SUBSET STRING
         /\ m.functions = [f \in DOMAIN m.functions |-> m.functions[f]]
         /\ \A f \in DOMAIN m.functions : m.functions[f] \in SUBSET STRING
         /\ m = [ok |-> m.ok, table |-> m.table, functions |-> m.functions]
<1>1. /\ m.ok \in BOOLEAN /\ m.table \in Seq(STRING)
      /\ m.functions \in UNION {[D -> SUBSET STRING] : D \in SUBSET STRING}
      /\ m = [ok |-> m.ok, table |-> m.table, functions |-> m.functions]
  BY DEF ParserStates
<1>2. PICK D \in SUBSET STRING : m.functions \in [D -> SUBSET STRING]
  BY <1>1
<1> QED
  BY <1>1, <1>2

\* One more function, or other attributes.
Setting(m, f, attrs) ==
  [g \in DOMAIN m.functions \cup {f} |-> IF g = f THEN attrs ELSE m.functions[g]]

LEMMA SettingIs ==
  ASSUME NEW m \in ParserStates, NEW f \in STRING, NEW attrs \in SUBSET STRING
  PROVE  Setting(m, f, attrs) \in UNION {[D -> SUBSET STRING] : D \in SUBSET STRING}
<1>1. /\ DOMAIN m.functions \cup {f} \in SUBSET STRING
      /\ \A g \in DOMAIN m.functions : m.functions[g] \in SUBSET STRING
  BY StatesAre
<1>2. Setting(m, f, attrs) \in [DOMAIN m.functions \cup {f} -> SUBSET STRING]
  BY <1>1 DEF Setting
<1> QED
  BY <1>1, <1>2

\* ParseLine, case by case.
LEMMA LineParsed ==
  ASSUME lines \in Seq(Lines), NEW i \in 1 .. Len(lines), NEW m \in ParserStates
  PROVE  LET p == ParseLine(m, lines[i])
             f == lines[i].path[2]
         IN  /\ p \in ParserStates
             /\ ~ m.ok => p = m
             /\ m.ok /\ i \in Headers =>
                  /\ p.ok /\ p.table = lines[i].path
                  /\ p.functions = IF /\ ~ lines[i].array /\ IsFunctionTable(lines[i].path)
                                      /\ f \notin DOMAIN m.functions
                                   THEN Setting(m, f, {}) ELSE m.functions
             /\ m.ok /\ i \in Assignments =>
                  IF IsFunctionTable(m.table) /\ lines[i].key = <<"attributes">>
                  THEN IF lines[i].shape = "strings"
                       THEN /\ p.ok /\ p.table = m.table
                            /\ p.functions = Setting(m, m.table[2], lines[i].attrs)
                       ELSE ~ p.ok
                  ELSE p = m
<1> DEFINE line == lines[i]  p == ParseLine(m, line)
           F == UNION {[D -> SUBSET STRING] : D \in SUBSET STRING}
<1>1. LineIs(i) /\ (i \in Headers \/ i \in Assignments)
      /\ (i \in Headers <=> line.kind = "header")
  BY LinesAre DEF Headers, Assignments
<1>2. /\ m.ok \in BOOLEAN /\ m.table \in Seq(STRING) /\ m.functions \in F
      /\ m = [ok |-> m.ok, table |-> m.table, functions |-> m.functions]
  BY StatesAre DEF ParserStates
<1>3. CASE ~ m.ok
  <2>1. p = m
    BY <1>3 DEF ParseLine
  <2> QED
    BY <1>3, <2>1
<1>4. CASE m.ok /\ i \in Headers
  <2> DEFINE new == /\ ~ line.array /\ IsFunctionTable(line.path)
                    /\ line.path[2] \notin DOMAIN m.functions
             fs == IF new THEN Setting(m, line.path[2], {}) ELSE m.functions
  <2>1. line.path \in Seq(STRING) /\ line.kind = "header"
    BY <1>1, <1>4 DEF LineIs
  <2>2. p = [m EXCEPT !.table = line.path, !.functions = fs]
    BY <1>4, <2>1 DEF ParseLine, Setting
  <2>3. fs \in F
    <3>1. ASSUME new PROVE line.path[2] \in STRING
      <4>1. Len(line.path) = 2
        BY <3>1 DEF IsFunctionTable
      <4> QED
        BY <2>1, <4>1, ElementOfSeq
    <3> HIDE DEF line, F
    <3>2. {} \in SUBSET STRING
      OBVIOUS
    <3> QED
      BY <1>2, <3>1, <3>2, SettingIs DEF F
  <2> HIDE DEF fs, F
  <2>4. p = [ok |-> m.ok, table |-> line.path, functions |-> fs]
    BY <1>2, <2>2
  <2>5. p \in ParserStates /\ p.ok /\ p.table = line.path /\ p.functions = fs
    BY <1>2, <1>4, <2>1, <2>3, <2>4 DEF ParserStates, F
  <2> HIDE DEF p
  <2> QED
    BY <1>1, <1>4, <2>5 DEF p, fs, Assignments
<1>5. CASE m.ok /\ i \in Assignments
  <2>1. /\ line.attrs \in SUBSET STRING /\ line.kind # "header" /\ i \notin Headers
    BY <1>1, <1>5 DEF LineIs, Assignments
  <2> DEFINE lists == IsFunctionTable(m.table) /\ line.key = <<"attributes">>
             fs == Setting(m, m.table[2], line.attrs)
  <2>2. CASE ~ lists
    <3>1. p = m
      BY <1>5, <2>1, <2>2 DEF ParseLine
    <3> QED
      BY <1>5, <2>1, <2>2, <3>1
  <2>3. CASE lists /\ line.shape # "strings"
    <3>1. p = [m EXCEPT !.ok = FALSE]
      BY <1>5, <2>1, <2>3 DEF ParseLine
    <3>2. p = [ok |-> FALSE, table |-> m.table, functions |-> m.functions]
      <4> HIDE DEF F
      <4> QED
        BY <1>2, <3>1
    <3>3. p \in ParserStates /\ ~ p.ok
      <4> HIDE DEF p
      <4> QED
        BY <1>2, <3>2 DEF ParserStates
    <3> HIDE DEF p
    <3> QED
      BY <1>5, <2>1, <2>3, <3>3 DEF p
  <2>4. CASE lists /\ line.shape = "strings"
    <3>1. p = [m EXCEPT !.functions = fs]
      BY <1>5, <2>1, <2>4 DEF ParseLine, Setting
    <3>2. fs \in F
      <4>1. m.table[2] \in STRING
        <5>1. Len(m.table) = 2
          BY <2>4 DEF IsFunctionTable
        <5> QED
          BY <1>2, <5>1, ElementOfSeq
      <4> HIDE DEF line, F
      <4> QED
        BY <2>1, <4>1, SettingIs DEF F, line
    <3> HIDE DEF fs, F
    <3>3. p = [ok |-> m.ok, table |-> m.table, functions |-> fs]
      BY <1>2, <3>1
    <3>4. p \in ParserStates /\ p.ok /\ p.table = m.table /\ p.functions = fs
      BY <1>2, <1>5, <3>2, <3>3 DEF ParserStates, F
    <3> HIDE DEF p
    <3> QED
      BY <1>5, <2>1, <2>4, <3>4 DEF p, fs
  <2> QED
    BY <2>2, <2>3, <2>4
<1> QED
  BY <1>1, <1>3, <1>4, <1>5

LEMMA PathsAre ==
  ASSUME lines \in Seq(Lines), NEW i \in 1 .. Len(lines)
  PROVE  /\ TableAt(i) \in Seq(STRING) /\ PathAt(i) \in Seq(STRING)
         /\ i \in Headers => PathAt(i) = lines[i].path
         /\ i \in Assignments =>
              /\ PathAt(i) = TableAt(i) \o lines[i].key
              /\ lines[i].key \in Seq(STRING) /\ lines[i].key # <<>>
<1>1. TableAt(i) \in Seq(STRING)
  <2>1. Len(lines) \in Nat
    BY LinesAre
  <2>2. i \in 1 .. Len(lines) + 1
    BY <2>1
  <2> QED
    BY <2>2, TableIs
<1>2. LineIs(i) /\ (i \in Headers \/ i \in Assignments) /\ (i \in Assignments => i \notin Headers)
  BY LinesAre DEF Assignments
<1>3. CASE i \in Headers
  <2>1. lines[i].path \in Seq(STRING) /\ i \notin Assignments
    BY <1>2, <1>3 DEF LineIs
  <2> QED
    BY <1>1, <1>3, <2>1 DEF PathAt
<1>4. CASE i \in Assignments
  <2>1. lines[i].key \in Seq(STRING) /\ lines[i].key # <<>> /\ i \notin Headers
    BY <1>2, <1>4 DEF LineIs
  <2>2. PathAt(i) = TableAt(i) \o lines[i].key
    BY <2>1 DEF PathAt
  <2>3. TableAt(i) \o lines[i].key \in Seq(STRING)
    BY <1>1, <2>1, ConcatProperties
  <2> QED
    BY <1>1, <2>1, <2>2, <2>3
<1> QED
  BY <1>2, <1>3, <1>4

LEMMA OwnPrefix ==
  ASSUME NEW s \in Seq(STRING)
  PROVE  IsPrefix(s, s)
<1>1. Len(s) \in Nat
  BY LenProperties
<1> QED
  BY <1>1 DEF IsPrefix

\* A list stands below the header of its function.
LEMMA ListsHeader ==
  ASSUME lines \in Seq(Lines), NEW i \in 1 .. Len(lines), Lists(i)
  PROVE  /\ i \in Assignments /\ i \notin Headers
         /\ TableAt(i) = <<"functions", TableAt(i)[2]>>
         /\ TableAt(i)[2] \in STRING
         /\ \E h \in 1 .. Len(lines) : h < i /\ Declares(h, TableAt(i)[2])
<1>1. /\ Len(lines) \in Nat /\ Headers \subseteq 1 .. Len(lines)
      /\ Assignments = (1 .. Len(lines)) \ Headers
  BY LinesAre
<1>2. i \in Assignments /\ IsFunctionTable(TableAt(i)) /\ i \notin Headers
  BY <1>1 DEF Lists
<1>3. i \in 1 .. Len(lines) + 1
  BY <1>1
<1>4. /\ TableAt(i) \in Seq(STRING)
      /\ TableAt(i) = <<>> \/ \E h \in Headers : h < i /\ TableAt(i) = lines[h].path
  BY <1>3, TableIs
<1>5. Len(TableAt(i)) = 2
  BY <1>2 DEF IsFunctionTable
<1>6. TableAt(i) # <<>> /\ TableAt(i)[2] \in STRING
  <2> DEFINE t == TableAt(i)
  <2>1. t \in Seq(STRING) /\ Len(t) = 2
    BY <1>4, <1>5
  <2> HIDE DEF t
  <2>2. t # <<>> /\ 2 \in 1 .. Len(t)
    <3>1. Len(<<>>) = 0
      BY EmptySeq
    <3>2. 2 \in 1 .. 2 /\ 0 # 2
      OBVIOUS
    <3> QED
      BY <2>1, <3>1, <3>2
  <2>3. t[2] \in STRING
    BY <2>1, <2>2, ElementOfSeq
  <2> QED
    BY <2>2, <2>3 DEF t
<1>8. PICK h \in Headers : h < i /\ TableAt(i) = lines[h].path
  BY <1>4, <1>6
<1>9. Declares(h, TableAt(i)[2])
  BY <1>2, <1>8 DEF Declares
<1>10. TableAt(i) = <<"functions", TableAt(i)[2]>>
  BY <1>2, <1>4, FunctionTableIs
<1> QED
  BY <1>1, <1>2, <1>6, <1>8, <1>9, <1>10

\* A function has one list.
LEMMA ListsDiffer ==
  ASSUME lines \in Seq(Lines), ValidToml,
         NEW i \in 1 .. Len(lines), NEW j \in 1 .. Len(lines), Lists(i), Lists(j), i # j
  PROVE  TableAt(i)[2] # TableAt(j)[2]
<1> SUFFICES ASSUME TableAt(i)[2] = TableAt(j)[2] PROVE FALSE
  OBVIOUS
<1>1. /\ i \in Assignments /\ TableAt(i) = <<"functions", TableAt(i)[2]>>
      /\ j \in Assignments /\ TableAt(j) = <<"functions", TableAt(j)[2]>>
  BY ListsHeader
<1>2. TableAt(i) = TableAt(j) /\ lines[i].key = lines[j].key
  BY <1>1 DEF Lists
<1>3. PathAt(i) \in Seq(STRING) /\ PathAt(i) = TableAt(i) \o lines[i].key
  BY <1>1, PathsAre
<1>4. PathAt(j) = TableAt(j) \o lines[j].key
  BY <1>1, PathsAre
<1>5. IsPrefix(PathAt(i), PathAt(j))
  BY <1>2, <1>3, <1>4, OwnPrefix
<1> QED
  BY <1>1, <1>5 DEF ValidToml

\* One more line.
LEMMA OneMoreParsed ==
  ASSUME lines \in Seq(Lines), ValidToml,
         NEW k \in 1 .. Len(lines), NEW m \in ParserStates, Parsed(m, k - 1)
  PROVE  Parsed(ParseLine(m, lines[k]), k)
<1> DEFINE n == Len(lines)  p == ParseLine(m, lines[k])
<1>0. /\ n \in Nat /\ Headers \subseteq 1 .. n /\ Assignments = (1 .. n) \ Headers
      /\ LineIs(k) /\ k \in 1 .. n
  BY LinesAre
<1>00. \A i : i \in 1 .. k <=> i \in 1 .. k - 1 \/ i = k
  BY <1>0
<1>01. \A i \in 1 .. k : i \in 1 .. n
  BY <1>0
<1>1. CASE ~ m.ok
  <2>1. p = m
    BY <1>1, LineParsed
  <2>2. Wrong(k)
    BY <1>1, <1>00 DEF Parsed, Wrong
  <2> QED
    BY <1>1, <2>1, <2>2 DEF Parsed
<1>2. CASE m.ok /\ k \in Headers
  <2> DEFINE f == lines[k].path[2]
  <2>1. /\ p.ok /\ p.table = lines[k].path
        /\ p.functions = IF /\ ~ lines[k].array /\ IsFunctionTable(lines[k].path)
                            /\ f \notin DOMAIN m.functions
                         THEN Setting(m, f, {}) ELSE m.functions
    BY <1>2, LineParsed
  <2>2. IsFunctionTable(lines[k].path) => ~ lines[k].array
    BY <1>0, <1>2 DEF LineIs
  <2>3. Right(m, k - 1)
    BY <1>2 DEF Parsed
  <2>4. p.table = TableAt(k + 1)
    BY <1>0, <1>2, <2>1, TableNext
  <2>5. \A i \in 1 .. k : Lists(i) => i \in 1 .. k - 1 /\ TableAt(i)[2] \in DOMAIN m.functions
    <3> TAKE i \in 1 .. k
    <3> HAVE Lists(i)
    <3>1. i \in 1 .. n
      BY <1>01
    <3>2. PICK h \in 1 .. n : h < i /\ Declares(h, TableAt(i)[2])
      BY <3>1, ListsHeader
    <3>3. i # k
      BY <1>2, <3>1, ListsHeader
    <3>4. i \in 1 .. k - 1
      BY <1>00, <3>3
    <3>5. h \in 1 .. k - 1
      BY <1>0, <3>2, <3>4
    <3> QED
      BY <2>3, <3>2, <3>4, <3>5 DEF Right
  <2>6. \A g : g \in DOMAIN p.functions <=> \E j \in 1 .. k : Declares(j, g)
    <3> TAKE g
    <3>1. Declares(k, g) <=> IsFunctionTable(lines[k].path) /\ f = g
      BY <1>2 DEF Declares
    <3>2. g \in DOMAIN p.functions <=>
            g \in DOMAIN m.functions \/ (IsFunctionTable(lines[k].path) /\ f = g)
      BY <2>1, <2>2 DEF Setting
    <3>3. g \in DOMAIN m.functions <=> \E j \in 1 .. k - 1 : Declares(j, g)
      BY <2>3 DEF Right
    <3> QED
      BY <1>00, <3>1, <3>2, <3>3
  <2>7. \A g \in DOMAIN m.functions : p.functions[g] = m.functions[g]
    BY <2>1 DEF Setting
  <2>8. \A g \in DOMAIN p.functions : g \notin DOMAIN m.functions => p.functions[g] = {}
    BY <2>1 DEF Setting
  <2> HIDE DEF p
  <2>9. \A i \in 1 .. k : Lists(i) =>
          /\ lines[i].shape = "strings"
          /\ p.functions[TableAt(i)[2]] = lines[i].attrs
    BY <2>3, <2>5, <2>7 DEF Right
  <2>10. \A g \in DOMAIN p.functions :
           (\A i \in 1 .. k : Lists(i) => TableAt(i)[2] # g) => p.functions[g] = {}
    <3> TAKE g \in DOMAIN p.functions
    <3> HAVE \A i \in 1 .. k : Lists(i) => TableAt(i)[2] # g
    <3>1. CASE g \in DOMAIN m.functions
      <4>1. \A i \in 1 .. k - 1 : Lists(i) => TableAt(i)[2] # g
        BY <1>00
      <4> QED
        BY <2>3, <2>7, <3>1, <4>1 DEF Right
    <3> QED
      BY <2>8, <3>1
  <2> QED
    BY <2>1, <2>4, <2>6, <2>9, <2>10 DEF Parsed, Right, p
<1>3. CASE m.ok /\ k \in Assignments
  <2>1. Right(m, k - 1) /\ k \notin Headers
    BY <1>0, <1>3 DEF Parsed
  <2>2. (k - 1) + 1 = k
    BY <1>0
  <2>3. m.table = TableAt(k) /\ TableAt(k + 1) = TableAt(k)
    <3>1. m.table = TableAt((k - 1) + 1)
      BY <2>1 DEF Right
    <3>2. TableAt(k + 1) = TableAt(k)
      BY <1>0, <2>1, TableNext
    <3> QED
      BY <2>2, <3>1, <3>2
  <2>4. Lists(k) <=> IsFunctionTable(m.table) /\ lines[k].key = <<"attributes">>
    BY <1>3, <2>3 DEF Lists
  <2>5. \A g : ~ Declares(k, g)
    BY <2>1 DEF Declares
  <2>6. CASE ~ Lists(k)
    <3>1. p = m
      BY <1>3, <2>4, <2>6, LineParsed
    <3>2. Right(m, k)
      <4>1. m.table = TableAt(k + 1)
        BY <2>3
      <4>2. \A g : g \in DOMAIN m.functions <=> \E j \in 1 .. k : Declares(j, g)
        BY <1>00, <2>1, <2>5 DEF Right
      <4>3. \A i \in 1 .. k : Lists(i) =>
              /\ lines[i].shape = "strings"
              /\ m.functions[TableAt(i)[2]] = lines[i].attrs
        BY <1>00, <2>1, <2>6 DEF Right
      <4>4. \A g \in DOMAIN m.functions :
              (\A i \in 1 .. k : Lists(i) => TableAt(i)[2] # g) => m.functions[g] = {}
        BY <1>00, <2>1 DEF Right
      <4> QED
        BY <4>1, <4>2, <4>3, <4>4 DEF Right
    <3> HIDE DEF p
    <3> QED
      BY <1>3, <3>1, <3>2 DEF Parsed, p
  <2>7. CASE Lists(k) /\ lines[k].shape # "strings"
    <3>1. ~ p.ok
      BY <1>3, <2>4, <2>7, LineParsed
    <3>2. Wrong(k)
      BY <1>00, <2>7 DEF Wrong
    <3> QED
      BY <3>1, <3>2 DEF Parsed
  <2>8. CASE Lists(k) /\ lines[k].shape = "strings"
    <3> DEFINE f == TableAt(k)[2]
    <3>1. /\ p.ok /\ p.table = m.table
          /\ p.functions = Setting(m, f, lines[k].attrs)
      <4>1. IsFunctionTable(m.table) /\ lines[k].key = <<"attributes">> /\ lines[k].shape = "strings"
        BY <2>4, <2>8
      <4>2. /\ p.ok /\ p.table = m.table
            /\ p.functions = Setting(m, m.table[2], lines[k].attrs)
        BY <1>3, <4>1, LineParsed
      <4> HIDE DEF p
      <4>3. m.table[2] = f
        BY <2>3
      <4> QED
        BY <4>2, <4>3
    <3>2. f \in DOMAIN m.functions
      <4>1. PICK h \in 1 .. n : h < k /\ Declares(h, f)
        BY <1>0, <2>8, ListsHeader
      <4>2. h \in 1 .. k - 1
        BY <1>0, <4>1
      <4> QED
        BY <2>1, <4>1, <4>2 DEF Right
    <3>3. /\ DOMAIN p.functions = DOMAIN m.functions
          /\ \A g \in DOMAIN m.functions :
               p.functions[g] = IF g = f THEN lines[k].attrs ELSE m.functions[g]
      <4>1. DOMAIN m.functions \cup {f} = DOMAIN m.functions
        BY <3>2
      <4> QED
        BY <3>1, <4>1 DEF Setting
    <3> HIDE DEF p
    <3>4. p.table = TableAt(k + 1)
      BY <2>3, <3>1
    <3>5. \A g : g \in DOMAIN p.functions <=> \E j \in 1 .. k : Declares(j, g)
      BY <1>00, <2>1, <2>5, <3>3 DEF Right
    <3>6. \A i \in 1 .. k : Lists(i) =>
            /\ lines[i].shape = "strings"
            /\ p.functions[TableAt(i)[2]] = lines[i].attrs
      <4> TAKE i \in 1 .. k
      <4> HAVE Lists(i)
      <4>1. CASE i = k
        BY <2>8, <3>2, <3>3, <4>1
      <4>2. CASE i # k
        <5>1. i \in 1 .. n /\ i \in 1 .. k - 1
          BY <1>00, <1>01, <4>2
        <5>2. TableAt(i)[2] # f
          BY <1>0, <2>8, <4>2, <5>1, ListsDiffer
        <5>3. PICK h \in 1 .. n : h < i /\ Declares(h, TableAt(i)[2])
          BY <5>1, ListsHeader
        <5>4. h \in 1 .. k - 1
          BY <1>0, <5>1, <5>3
        <5>5. TableAt(i)[2] \in DOMAIN m.functions
          BY <2>1, <5>3, <5>4 DEF Right
        <5>6. /\ lines[i].shape = "strings"
              /\ m.functions[TableAt(i)[2]] = lines[i].attrs
          BY <2>1, <5>1 DEF Right
        <5> QED
          BY <3>3, <5>2, <5>5, <5>6
      <4> QED
        BY <4>1, <4>2
    <3>7. \A g \in DOMAIN p.functions :
            (\A i \in 1 .. k : Lists(i) => TableAt(i)[2] # g) => p.functions[g] = {}
      <4> TAKE g \in DOMAIN p.functions
      <4> HAVE \A i \in 1 .. k : Lists(i) => TableAt(i)[2] # g
      <4>1. g # f
        BY <1>00, <2>8
      <4>2. \A i \in 1 .. k - 1 : Lists(i) => TableAt(i)[2] # g
        BY <1>00
      <4> QED
        BY <2>1, <3>3, <4>1, <4>2 DEF Right
    <3> QED
      BY <3>1, <3>4, <3>5, <3>6, <3>7 DEF Parsed, Right, p
  <2> QED
    BY <2>6, <2>7, <2>8
<1> QED
  BY <1>0, <1>1, <1>2, <1>3

\* The whole manifest.
LEMMA ManifestParsed ==
  ASSUME lines \in Seq(Lines), ValidToml
  PROVE  Parsed(ParseManifest(lines), Len(lines))
<1> DEFINE n == Len(lines)  V == ParserStates  base == NoLines
           step == [p \in (1 .. n) \X V |-> ParseLine(p[2], lines[p[1]])]
<1>0. n \in Nat /\ DOMAIN lines = 1 .. n
  BY LinesAre
<1>1. base \in V
  <2>1. <<>> \in Seq(STRING) /\ <<>> \in [{} -> SUBSET STRING] /\ {} \in SUBSET STRING
    BY EmptySeq
  <2> QED
    BY <2>1 DEF NoLines, ParserStates
<1>2. ASSUME NEW k \in 1 .. n, NEW m \in V
      PROVE  step[<<k, m>>] = ParseLine(m, lines[k]) /\ ParseLine(m, lines[k]) \in V
  <2>1. ParseLine(m, lines[k]) \in V
    BY LineParsed
  <2>2. step[<<k, m>>] = ParseLine(m, lines[k])
    <3> HIDE DEF V, n
    <3> QED
      OBVIOUS
  <2> QED
    BY <2>1, <2>2
<1>3. step \in [(1 .. n) \X V -> V]
  <2> HIDE DEF V, n
  <2>1. ASSUME NEW p \in (1 .. n) \X V PROVE ParseLine(p[2], lines[p[1]]) \in V
    BY <1>2
  <2> QED
    BY <2>1
<1> HIDE DEF V, base
<1>4. PICK g : IsLeftFold(g, n, V, base, step)
  <2>1. \E g : IsLeftFold(g, n, V, base, step)
    <3> HIDE DEF step, n
    <3> QED
      BY <1>0, <1>1, <1>3, LeftFold
  <2> QED
    BY <2>1
<1>5. ASSUME NEW s \in SUBSET (1 .. n)
      PROVE  g[s] \in V /\ g[s] = IF s = {} THEN base ELSE ParseLine(g[s \ {Max(s)}], lines[Max(s)])
  <2>1. s # {} => Max(s) \in 1 .. n /\ g[s \ {Max(s)}] \in V
    <3> HIDE DEF step, n
    <3> QED
      BY <1>0, <1>4, MaxIs DEF IsLeftFold
  <2>2. s # {} => step[<<Max(s), g[s \ {Max(s)}]>>] = ParseLine(g[s \ {Max(s)}], lines[Max(s)])
    BY <1>2, <2>1
  <2> HIDE DEF step, n
  <2> QED
    BY <1>4, <2>2 DEF IsLeftFold
<1> HIDE DEF step
<1> DEFINE Rec(f) == [s \in SUBSET DOMAIN lines |->
                        IF s = {} THEN base ELSE ParseLine(f[s \ {Max(s)}], lines[Max(s)])]
           it == CHOOSE f : f = Rec(f)
<1>6. g = Rec(g)
  <2>1. g = [s \in SUBSET (1 .. n) |-> g[s]]
    BY <1>4 DEF IsLeftFold
  <2> HIDE DEF n
  <2> QED
    BY <1>0, <1>5, <2>1
<1>7. it = Rec(it)
  <2> HIDE DEF Rec
  <2> QED
    BY <1>6
<1>8. ParseManifest(lines) = it[DOMAIN lines]
  BY DEF ParseManifest, FoldLeft, MapThenFoldSet, NoLines, base
<1> HIDE DEF it
<1>9. it[{}] = base /\ \A s \in SUBSET (1 .. n) : s # {} =>
        it[s] = ParseLine(it[s \ {Max(s)}], lines[Max(s)])
  <2> HIDE DEF n
  <2> QED
    BY <1>0, <1>7
<1> HIDE DEF Rec
<1> DEFINE T == {k \in 0 .. n : it[1 .. k] \in V /\ Parsed(it[1 .. k], k)}
<1>10. 0 \in T
  <2>1. 0 \in 0 .. n /\ 1 .. 0 = {} /\ \A i : i \notin 1 .. 0
    BY <1>0
  <2>2. TableAt(0 + 1) = <<>>
    BY TableNext
  <2>3. Right(NoLines, 0)
    BY <2>1, <2>2 DEF Right, NoLines
  <2>4. Parsed(NoLines, 0)
    BY <2>3 DEF Parsed, NoLines
  <2> QED
    BY <1>1, <1>9, <2>1, <2>4 DEF base
<1>11. ASSUME NEW k \in 1 .. n, k - 1 \in T PROVE k \in T
  <2>1. /\ Max(1 .. k) = k /\ (1 .. k) \ {k} = 1 .. k - 1
        /\ 1 .. k \in SUBSET (1 .. n) /\ 1 .. k # {}
    BY <1>0, Ends
  <2>2. it[1 .. k] = ParseLine(it[1 .. k - 1], lines[k])
    BY <1>9, <2>1
  <2>3. it[1 .. k - 1] \in V /\ Parsed(it[1 .. k - 1], k - 1)
    BY <1>11
  <2>4. it[1 .. k] \in V
    BY <1>2, <2>2, <2>3
  <2>5. Parsed(it[1 .. k], k)
    BY <2>2, <2>3, OneMoreParsed DEF V
  <2>6. k \in 0 .. n
    BY <1>0
  <2> QED
    BY <2>4, <2>5, <2>6
<1>12. n \in T
  <2>1. \A k \in 0 .. n : k \in T
    <3> HIDE DEF T, n
    <3> QED
      BY <1>0, <1>10, <1>11, UpTo
  <2>2. n \in 0 .. n
    BY <1>0
  <2> HIDE DEF T
  <2> QED
    BY <2>1, <2>2
<1> QED
  BY <1>0, <1>8, <1>12

-----------------------------------------------------------------------------
(* What TOML makes of the same lines *)

LEMMA TwoLetters ==
  ASSUME NEW S, NEW u \in Seq(S), Len(u) = 2
  PROVE  u = <<u[1], u[2]>>
OBVIOUS

\* The ways to write the path of a function's attributes: in its table, or by
\* a dotted key that makes the table.
LEMMA PathSplit ==
  ASSUME NEW t \in Seq(STRING), NEW key \in Seq(STRING), key # <<>>, NEW f \in STRING,
         t \o key = <<"functions", f, "attributes">>
  PROVE  \/ IsFunctionTable(t) /\ t[2] = f /\ key = <<"attributes">>
         \/ \E j \in 1 .. Len(key) - 1 : t \o SubSeq(key, 1, j) = <<"functions", f>>
<1> DEFINE a == Len(t)  b == Len(key)  w == t \o key
<1>1. a \in Nat /\ b \in Nat \ {0}
  BY EmptySeq, LenProperties
<1>2. /\ Len(w) = a + b
      /\ \A i \in 1 .. a + b : w[i] = IF i <= a THEN t[i] ELSE key[i - a]
  BY ConcatProperties
<1>3. Len(w) = 3 /\ w[1] = "functions" /\ w[2] = f /\ w[3] = "attributes"
  <2>1. w = <<"functions", f, "attributes">>
    OBVIOUS
  <2> HIDE DEF w
  <2> QED
    BY <2>1
<1> HIDE DEF w
<1>30. a + b = 3
  BY <1>2, <1>3
<1>4. CASE a = 2
  <2>1. b = 1
    <3> HIDE DEF a, b
    <3> QED
      BY <1>1, <1>30, <1>4
  <2>2. t[1] = "functions" /\ t[2] = f /\ key[1] = "attributes"
    <3> HIDE DEF a, b
    <3> QED
      BY <1>2, <1>3, <1>4, <2>1
  <2>3. key = <<"attributes">>
    BY <2>1, <2>2
  <2> QED
    BY <1>4, <2>2, <2>3 DEF IsFunctionTable
<1>5. CASE a # 2
  <2> DEFINE j == 2 - a  r == SubSeq(key, 1, j)  u == t \o r
  <2>1. j \in 1 .. b - 1 /\ j \in Int /\ j >= 1 /\ a + j = 2
    <3> HIDE DEF a, b
    <3> QED
      BY <1>1, <1>30, <1>5
  <2> HIDE DEF j
  <2>2. \A i \in 1 .. j : i \in 1 .. Len(key) /\ key[i] \in STRING
    <3>1. \A i \in 1 .. j : i \in 1 .. b
      <4> HIDE DEF b
      <4> QED
        BY <1>1, <2>1
    <3> QED
      BY <3>1, ElementOfSeq
  <2>3. /\ r \in Seq(STRING) /\ Len(r) = IF 1 <= j THEN j - 1 + 1 ELSE 0
        /\ \A i \in 1 .. j - 1 + 1 : r[i] = key[1 + i - 1]
    <3> HIDE DEF r
    <3>1. 1 \in Int
      OBVIOUS
    <3> QED
      BY <2>1, <2>2, <3>1, SubSeqProperties DEF r
  <2> HIDE DEF r
  <2>4. Len(r) = j /\ \A i \in 1 .. j : r[i] = key[i]
    BY <2>1, <2>3
  <2>5. /\ u \in Seq(STRING) /\ Len(u) = a + Len(r)
        /\ \A i \in 1 .. a + Len(r) : u[i] = IF i <= a THEN t[i] ELSE r[i - a]
    BY <2>3, ConcatProperties
  <2> HIDE DEF u
  <2>6. Len(u) = 2 /\ u[1] = w[1] /\ u[2] = w[2]
    <3> HIDE DEF a, b
    <3>1. Len(u) = 2 /\ \A i \in 1 .. 2 : u[i] = IF i <= a THEN t[i] ELSE r[i - a]
      BY <2>1, <2>4, <2>5
    <3>2. \A i \in 1 .. 2 : w[i] = IF i <= a THEN t[i] ELSE key[i - a]
      BY <1>1, <1>2, <2>1
    <3>3. \A i \in 1 .. 2 : i <= a \/ i - a \in 1 .. j
      BY <1>1, <2>1
    <3>4. \A i \in 1 .. 2 : u[i] = w[i]
      BY <2>4, <3>1, <3>2, <3>3
    <3> QED
      BY <3>1, <3>4
  <2>7. u = <<"functions", f>>
    BY <1>3, <2>5, <2>6, TwoLetters
  <2> QED
    BY <2>1, <2>7 DEF u, r
<1> QED
  BY <1>4, <1>5

\* With its table opened by a header, the attributes are in the list below it.
LEMMA SaysIs ==
  ASSUME lines \in Seq(Lines), ValidToml, NEW f, NEW h \in 1 .. Len(lines), Declares(h, f),
         NEW i \in Assignments
  PROVE  SaysAttributes(i, f) <=>
           Lists(i) /\ TableAt(i)[2] = f /\ lines[i].shape = "strings"
<1>1. /\ i \in 1 .. Len(lines) /\ i \notin Headers /\ h \in Headers
      /\ lines[h].path \in Seq(STRING)
  BY LinesAre DEF Declares, LineIs
<1>2. lines[h].path = <<"functions", f>> /\ f \in STRING
  <2> DEFINE p == lines[h].path
  <2>1. p = <<"functions", p[2]>> /\ p[2] = f /\ Len(p) = 2
    BY <1>1, FunctionTableIs DEF Declares, IsFunctionTable
  <2> HIDE DEF p
  <2>2. 2 \in 1 .. Len(p)
    BY <2>1
  <2>3. p[2] \in STRING
    BY <1>1, <2>2, ElementOfSeq DEF p
  <2> QED
    BY <2>1, <2>3 DEF p
<1>3. /\ TableAt(i) \in Seq(STRING) /\ PathAt(i) \in Seq(STRING)
      /\ PathAt(i) = TableAt(i) \o lines[i].key
      /\ lines[i].key \in Seq(STRING) /\ lines[i].key # <<>>
  BY <1>1, PathsAre
<1>4. PathAt(h) = <<"functions", f>>
  BY <1>1, <1>2 DEF PathAt
<1>5. PathAt(i) # <<"functions", f>>
  <2> SUFFICES ASSUME PathAt(i) = <<"functions", f>> PROVE FALSE
    OBVIOUS
  <2>1. IsPrefix(PathAt(i), PathAt(h))
    BY <1>3, <1>4, OwnPrefix
  <2> QED
    BY <1>1, <2>1 DEF ValidToml
<1>6. ASSUME PathAt(i) = <<"functions", f, "attributes">>
      PROVE  Lists(i) /\ TableAt(i)[2] = f
  <2>1. \A j \in 1 .. Len(lines[i].key) - 1 :
          TableAt(i) \o SubSeq(lines[i].key, 1, j) # <<"functions", f>>
    <3> SUFFICES ASSUME NEW j \in 1 .. Len(lines[i].key) - 1,
                        TableAt(i) \o SubSeq(lines[i].key, 1, j) = <<"functions", f>>
                 PROVE  FALSE
      OBVIOUS
    <3>1. lines[h].path \in Dotted(i)
      BY <1>2 DEF Dotted
    <3> QED
      BY <1>1, <3>1 DEF ValidToml
  <2> DEFINE t == TableAt(i)  key == lines[i].key
  <2>2. t \in Seq(STRING) /\ key \in Seq(STRING) /\ key # <<>>
        /\ t \o key = <<"functions", f, "attributes">>
    BY <1>3, <1>6
  <2>3. \A j \in 1 .. Len(key) - 1 : t \o SubSeq(key, 1, j) # <<"functions", f>>
    BY <2>1
  <2> HIDE DEF t, key
  <2>4. IsFunctionTable(t) /\ t[2] = f /\ key = <<"attributes">>
    BY <1>2, <2>2, <2>3, PathSplit
  <2> QED
    BY <2>4 DEF Lists, t, key
<1>7. ASSUME Lists(i), TableAt(i)[2] = f
      PROVE  PathAt(i) = <<"functions", f, "attributes">>
  <2>1. TableAt(i) = <<"functions", f>> /\ lines[i].key = <<"attributes">>
    BY <1>1, <1>7, ListsHeader DEF Lists
  <2>2. <<"functions", f>> \o <<"attributes">> = <<"functions", f, "attributes">>
    <3> DEFINE S == {"functions", f, "attributes"}  p == <<"functions", f>>  c == "attributes"
    <3>1. p \in Seq(S) /\ c \in S
      OBVIOUS
    <3>2. Len(p) = 2 /\ p[1] = "functions" /\ p[2] = f
      OBVIOUS
    <3> HIDE DEF S, p, c
    <3> DEFINE u == Append(p, c)
    <3>3. u \in Seq(S) /\ Len(u) = 3 /\ u[1] = p[1] /\ u[2] = p[2] /\ u[3] = c
      <4>1. /\ u \in Seq(S) /\ Len(u) = Len(p) + 1
            /\ \A n \in 1 .. Len(p) : u[n] = p[n]
            /\ u[Len(p) + 1] = c
        BY <3>1, AppendProperties
      <4> HIDE DEF u
      <4> QED
        BY <3>2, <4>1
    <3>4. u = p \o <<c>>
      BY <3>1, AppendIsConcat
    <3> HIDE DEF u
    <3>5. u = <<u[1], u[2], u[3]>>
      BY <3>3
    <3> QED
      BY <3>2, <3>3, <3>4, <3>5 DEF p, c
  <2> QED
    BY <1>3, <2>1, <2>2
<1> QED
  BY <1>5, <1>6, <1>7 DEF SaysAttributes

LEMMA AttributesFound ==
  ASSUME lines \in Seq(Lines), ValidToml, ParseManifest(lines).ok,
         NEW f, NEW h \in 1 .. Len(lines), Declares(h, f)
  PROVE  AttributesOf(f) = ParseManifest(lines).functions[f]
<1> DEFINE m == ParseManifest(lines)  says == {j \in Assignments : SaysAttributes(j, f)}
<1>1. Right(m, Len(lines))
  BY ManifestParsed DEF Parsed
<1>2. f \in DOMAIN m.functions
  BY <1>1 DEF Right
<1>3. \A i \in 1 .. Len(lines) : Lists(i) =>
        /\ lines[i].shape = "strings"
        /\ m.functions[TableAt(i)[2]] = lines[i].attrs
  BY <1>1 DEF Right
<1>4. \A i \in Assignments : i \in 1 .. Len(lines)
  BY LinesAre
<1>5. \A i \in Assignments : SaysAttributes(i, f) <=> Lists(i) /\ TableAt(i)[2] = f
  BY <1>3, <1>4, SaysIs
<1>6. AttributesOf(f) = UNION {lines[i].attrs : i \in says}
  BY DEF AttributesOf
<1>7. CASE \E i \in 1 .. Len(lines) : Lists(i) /\ TableAt(i)[2] = f
  <2>1. PICK i \in 1 .. Len(lines) : Lists(i) /\ TableAt(i)[2] = f
    BY <1>7
  <2>2. i \in Assignments
    BY <2>1 DEF Lists
  <2>3. \A j \in Assignments : SaysAttributes(j, f) <=> j = i
    BY <1>4, <1>5, <2>1, <2>2, ListsDiffer
  <2>4. says = {i}
    BY <2>2, <2>3
  <2> HIDE DEF says
  <2>5. UNION {lines[j].attrs : j \in says} = lines[i].attrs
    BY <2>4
  <2> QED
    BY <1>3, <1>6, <2>1, <2>5
<1>8. CASE \A i \in 1 .. Len(lines) : Lists(i) => TableAt(i)[2] # f
  <2>1. says = {}
    BY <1>4, <1>5, <1>8
  <2>2. m.functions[f] = {}
    BY <1>1, <1>2, <1>8 DEF Right
  <2> HIDE DEF says
  <2>3. UNION {lines[j].attrs : j \in says} = {}
    BY <2>1
  <2> QED
    BY <1>6, <2>2, <2>3
<1> QED
  BY <1>7, <1>8

LEMMA DeclaredIs ==
  ASSUME lines \in Seq(Lines), NEW f, NEW h \in 1 .. Len(lines), Declares(h, f)
  PROVE  IsDeclared(f)
<1>1. h \in Headers /\ lines[h].path \in Seq(STRING) /\ h \in DOMAIN lines
  BY LinesAre DEF Declares, LineIs
<1>2. lines[h].path = <<"functions", f>>
  BY <1>1, FunctionTableIs DEF Declares
<1>3. PathAt(h) = lines[h].path
  BY <1>1 DEF PathAt
<1>4. IsPrefix(<<"functions", f>>, PathAt(h))
  BY <1>1, <1>2, <1>3, OwnPrefix
<1> QED
  BY <1>1, <1>4 DEF IsDeclared

\* With every function under a header, the ones declared are those the parser
\* finds, and no list is anything but a list.
LEMMA HeaderFormIs ==
  ASSUME lines \in Seq(Lines), InHeaderForm
  PROVE  /\ \A f : IsDeclared(f) => \E h \in 1 .. Len(lines) : Declares(h, f)
         /\ ~ Wrong(Len(lines))
<1>1. ASSUME NEW f, IsDeclared(f)
      PROVE  \E h \in 1 .. Len(lines) : Declares(h, f)
  <2>1. PICK i \in DOMAIN lines : IsPrefix(<<"functions", f>>, PathAt(i))
    BY <1>1 DEF IsDeclared
  <2> DEFINE p == PathAt(i)  q == <<"functions", f>>
  <2>2. i \in 1 .. Len(lines) /\ p \in Seq(STRING) /\ Len(p) \in Nat
    BY <2>1, LinesAre, PathsAre
  <2>3. Len(q) = 2 /\ q[1] = "functions" /\ q[2] = f /\ q \in Seq({"functions", f})
    OBVIOUS
  <2>4. Len(q) <= Len(p) /\ SubSeq(q, 1, Len(q)) = SubSeq(p, 1, Len(q))
    BY <2>1 DEF IsPrefix
  <2>5. SubSeq(q, 1, Len(q)) = q
    <3> HIDE DEF q
    <3> QED
      BY <2>3, SubSeqFull
  <2> HIDE DEF p, q
  <2>6. Len(p) >= 2 /\ SubSeq(p, 1, 2) = q
    BY <2>2, <2>3, <2>4, <2>5
  <2>7. p[1] = "functions"
    <3>1. SubSeq(p, 1, 2)[1] = p[1]
      BY <2>2, <2>6
    <3> QED
      BY <2>3, <2>6, <3>1
  <2>8. PICK h \in Headers : lines[h].path = q
    BY <2>1, <2>6, <2>7 DEF InHeaderForm, p
  <2>9. h \in 1 .. Len(lines) /\ Declares(h, f)
    BY <2>3, <2>8, LinesAre DEF Declares, IsFunctionTable
  <2> QED
    BY <2>9
<1>2. ASSUME NEW i \in 1 .. Len(lines), Lists(i) PROVE lines[i].shape = "strings"
  <2>1. /\ i \in Assignments /\ TableAt(i) = <<"functions", TableAt(i)[2]>>
        /\ lines[i].key = <<"attributes">> /\ i \in DOMAIN lines
    BY <1>2, ListsHeader, LinesAre DEF Lists
  <2>2. PathAt(i) = TableAt(i) \o lines[i].key
    BY <2>1, PathsAre
  <2>3. Len(PathAt(i)) >= 2 /\ PathAt(i)[1] = "functions"
    BY <2>1, <2>2
  <2> QED
    BY <2>1, <2>3 DEF InHeaderForm
<1> QED
  BY <1>1, <1>2 DEF Wrong

-----------------------------------------------------------------------------
(* A build and the manifest *)

LEMMA MarkersSame ==
  ASSUME NEW d
  PROVE  PartitionDecorators(d).markers = MarkersOf(d)
BY DEF PartitionDecorators, MarkersOf

\* What Problems finds nothing wrong with.
Fits(ms, f, functions) ==
  /\ ~ ({View, Mutating} \subseteq ms)
  /\ f \in DOMAIN functions
  /\ View \in ms => "view" \in functions[f]
  /\ Mutating \in ms => "view" \notin functions[f]
  /\ Payable \in ms <=> "payable" \in functions[f]
  /\ Entry \in ms => {"entry", "constructor"} \cap functions[f] # {}

LEMMA NoProblems ==
  ASSUME NEW intent, NEW functions
  PROVE  Problems(intent, functions) = {} <=> Fits(intent.markers, intent.fn, functions)
<1> DEFINE ms == intent.markers  f == intent.fn  attrs == functions[f]
           Wrongs(p) == CASE p = "view"     -> View \in ms /\ "view" \notin attrs
                          [] p = "mutating" -> Mutating \in ms /\ "view" \in attrs
                          [] p = "payable"  -> (Payable \in ms) # ("payable" \in attrs)
                          [] p = "entry"    -> Entry \in ms /\ {"entry", "constructor"} \cap attrs = {}
           four == {p \in {"view", "mutating", "payable", "entry"} : Wrongs(p)}
<1>1. Problems(intent, functions) =
        IF {View, Mutating} \subseteq ms THEN {"both"}
        ELSE IF f \notin DOMAIN functions THEN {"no table"} ELSE four
  BY DEF Problems
<1>2. /\ Wrongs("view") <=> View \in ms /\ "view" \notin attrs
      /\ Wrongs("mutating") <=> Mutating \in ms /\ "view" \in attrs
      /\ Wrongs("payable") <=> ~ (Payable \in ms <=> "payable" \in attrs)
      /\ Wrongs("entry") <=> Entry \in ms /\ {"entry", "constructor"} \cap attrs = {}
  OBVIOUS
<1> HIDE DEF Wrongs
<1>3. four = {} <=> ~ Wrongs("view") /\ ~ Wrongs("mutating") /\ ~ Wrongs("payable") /\ ~ Wrongs("entry")
  OBVIOUS
<1> HIDE DEF four
<1> QED
  BY <1>1, <1>2, <1>3 DEF Fits

\* A declaration fits the parser's tables when it agrees with the manifest,
\* and with the functions under headers only then.
LEMMA FitsIs ==
  ASSUME lines \in Seq(Lines), ValidToml, ParseManifest(lines).ok, NEW d
  PROVE  LET fits == Fits(MarkersOf(d), FunctionNameFor(d.declaredAs), ParseManifest(lines).functions)
         IN  /\ fits => Agrees(d)
             /\ InHeaderForm /\ Agrees(d) => fits
<1> DEFINE m == ParseManifest(lines)  f == FunctionNameFor(d.declaredAs)  ms == MarkersOf(d)
           fits == Fits(ms, f, m.functions)
<1>1. f \in DOMAIN m.functions <=> \E h \in 1 .. Len(lines) : Declares(h, f)
  BY ManifestParsed DEF Parsed, Right
<1>2. ASSUME NEW h \in 1 .. Len(lines), Declares(h, f)
      PROVE  IsDeclared(f) /\ AttributesOf(f) = m.functions[f] /\ f \in DOMAIN m.functions
  BY <1>1, <1>2, DeclaredIs, AttributesFound
<1> HIDE DEF m, f, ms
<1>3. ASSUME fits PROVE Agrees(d)
  <2>1. IsDeclared(f) /\ AttributesOf(f) = m.functions[f]
    BY <1>1, <1>2, <1>3 DEF Fits
  <2> QED
    BY <1>3, <2>1 DEF Agrees, Fits, f, ms
<1>4. ASSUME InHeaderForm, Agrees(d) PROVE fits
  <2>1. IsDeclared(f)
    BY <1>4 DEF Agrees, f
  <2>2. \E h \in 1 .. Len(lines) : Declares(h, f)
    BY <1>4, <2>1, HeaderFormIs
  <2>3. AttributesOf(f) = m.functions[f] /\ f \in DOMAIN m.functions
    BY <1>2, <2>2
  <2> QED
    BY <1>4, <2>3 DEF Agrees, Fits, f, ms
<1> QED
  BY <1>3, <1>4 DEF m, f, ms

\* A declaration's decorators, as the transform sees them.
DeclarationIs(d) == d.decorators \in Seq([name : Seq(STRING), args : BOOLEAN])

\* The manifest is one that otigen accepts, and a build answers for it.
Answered ==
  /\ lines \in Seq(Lines) /\ ValidToml
  /\ asked.op = "build" =>
       /\ \A d \in asked.x : DeclarationIs(d)
       /\ \E noManifest \in BOOLEAN :
            /\ noManifest => lines = <<>>
            /\ answer = AfterParse(asked.y, asked.x, lines, noManifest)

LEMMA BuildIsExact ==
  ASSUME Answered
  PROVE  IntentExact
<1> SUFFICES ASSUME asked.op = "build" PROVE IntentExact
  BY DEF IntentExact, Built
<1>0. lines \in Seq(Lines) /\ ValidToml
  BY DEF Answered
<1>1. PICK noManifest \in BOOLEAN :
        /\ noManifest => lines = <<>>
        /\ answer = AfterParse(asked.y, asked.x, lines, noManifest)
  BY DEF Answered
<1> DEFINE decls    == asked.x
           m        == ParseManifest(lines)
           unknown  == asked.y # <<>> /\ ~ IsSupportedAscVersion(asked.y)
           throws   == \E x \in decls : PartitionDecorators(x).throws
           marked   == {d \in decls : MarkersOf(d) # {}}
           intents  == CollectIntents(decls)
           contrary == noManifest \/ ~ m.ok \/ Reconcile(intents, m.functions) # {}
           fits(d)  == Fits(MarkersOf(d), FunctionNameFor(d.declaredAs), m.functions)
<1>2. /\ answer.outcome = "builds" <=> ~ unknown /\ ~ throws /\ (intents = {} \/ ~ contrary)
      /\ answer.outcome = "fails" <=> ~ unknown /\ (throws \/ (intents # {} /\ contrary))
  <2> HIDE DEF contrary, unknown, throws
  <2> QED
    BY <1>1 DEF AfterParse, Result, unknown, throws, contrary
<1>3. intents = {[fn |-> FunctionNameFor(d.declaredAs), markers |-> MarkersOf(d)] : d \in marked}
  BY MarkersSame DEF CollectIntents
<1>4. intents = {} <=> marked = {}
  <2> HIDE DEF marked, intents
  <2> QED
    BY <1>3
<1>5. Reconcile(intents, m.functions) = {} <=> \A d \in marked : fits(d)
  <2>1. Reconcile(intents, m.functions) = {} <=>
          \A i \in intents : Problems(i, m.functions) = {}
    BY DEF Reconcile
  <2>2. \A i \in intents : Problems(i, m.functions) = {} <=> Fits(i.markers, i.fn, m.functions)
    BY NoProblems
  <2>3. (\A i \in intents : Fits(i.markers, i.fn, m.functions)) <=> \A d \in marked : fits(d)
    <3> HIDE DEF marked, intents
    <3>1. ASSUME \A i \in intents : Fits(i.markers, i.fn, m.functions), NEW d \in marked
          PROVE  fits(d)
      <4> DEFINE i == [fn |-> FunctionNameFor(d.declaredAs), markers |-> MarkersOf(d)]
      <4>1. i \in intents /\ i.markers = MarkersOf(d) /\ i.fn = FunctionNameFor(d.declaredAs)
        BY <1>3
      <4> HIDE DEF i, m
      <4>2. Fits(i.markers, i.fn, m.functions)
        BY <3>1, <4>1
      <4> QED
        BY <4>1, <4>2
    <3>2. ASSUME \A d \in marked : fits(d), NEW i \in intents
          PROVE  Fits(i.markers, i.fn, m.functions)
      <4>1. PICK d \in marked :
              i = [fn |-> FunctionNameFor(d.declaredAs), markers |-> MarkersOf(d)]
        BY <1>3
      <4>2. i.markers = MarkersOf(d) /\ i.fn = FunctionNameFor(d.declaredAs)
        BY <4>1
      <4>3. fits(d)
        BY <3>2
      <4> HIDE DEF m
      <4> QED
        BY <4>2, <4>3
    <3> HIDE DEF m, fits
    <3> QED
      BY <3>1, <3>2
  <2> HIDE DEF marked, intents, m, fits
  <2> QED
    BY <2>1, <2>2, <2>3
<1>6. m.ok => \A d : /\ fits(d) => Agrees(d)
                     /\ InHeaderForm /\ Agrees(d) => fits(d)
  BY <1>0, FitsIs
<1>7. throws => \E d \in marked : \E x \in ToSet(d.decorators) : x.args
  BY DEF PartitionDecorators, MarkersOf
<1>8. InHeaderForm => m.ok
  <2>1. ~ m.ok => Wrong(Len(lines))
    BY <1>0, ManifestParsed DEF Parsed
  <2> QED
    BY <1>0, <2>1, HeaderFormIs
<1>9. noManifest => \A f : ~ IsDeclared(f)
  BY <1>1 DEF IsDeclared
<1>10. noManifest => \A d : ~ Agrees(d)
  BY <1>9 DEF Agrees
<1> HIDE DEF m, unknown, throws, intents, fits
<1>11. answer.outcome = "builds" => \A d \in marked : Agrees(d)
  BY <1>2, <1>4, <1>5, <1>6
<1>12. answer.outcome = "fails" /\ InHeaderForm =>
         \E d \in marked : ~ Agrees(d) \/ \E x \in ToSet(d.decorators) : x.args
  BY <1>2, <1>4, <1>5, <1>6, <1>7, <1>8, <1>10
<1> QED
  BY <1>11, <1>12 DEF IntentExact, Built

LEMMA AnsweredAlways == Spec => []Answered
<1>1. Init => Answered
  <2> SUFFICES ASSUME Init PROVE Answered
    OBVIOUS
  <2>1. lines = <<>> /\ asked.op = "none" /\ DOMAIN lines = {}
    BY DEF Init, None
  <2>2. Headers = {} /\ Assignments = {}
    BY <2>1 DEF Headers, Assignments
  <2>3. lines \in Seq(Lines)
    BY <2>1, EmptySeq
  <2>4. ValidToml
    BY <2>2 DEF ValidToml
  <2> QED
    BY <2>1, <2>3, <2>4 DEF Answered
<1>2. Answered /\ [Next]_vars => Answered'
  <2> SUFFICES ASSUME Answered, [Next]_vars PROVE Answered'
    OBVIOUS
  <2>1. lines' = lines => lines' \in Seq(Lines) /\ ValidToml'
    <3> SUFFICES ASSUME lines' = lines PROVE lines' \in Seq(Lines) /\ ValidToml'
      OBVIOUS
    <3>1. Headers' = Headers /\ Assignments' = Assignments
      BY DEF Headers, Assignments
    <3>2. \A i : TableAt(i)' = TableAt(i)
      BY <3>1 DEF TableAt
    <3>3. \A i : PathAt(i)' = PathAt(i) /\ Dotted(i)' = Dotted(i)
      BY <3>1, <3>2 DEF PathAt, Dotted
    <3> QED
      BY <3>1, <3>3 DEF Answered, ValidToml
  <2>2. ASSUME NEW op \in {"add", "sub", "mul", "div", "cmp", "extend"},
               NEW x, NEW y, NEW a, Ask(op, x, y, a)
        PROVE  Answered'
    <3>1. lines' = lines /\ asked'.op # "build"
      BY <2>2 DEF Ask
    <3> QED
      BY <2>1, <3>1 DEF Answered
  <2>3. CASE Adds \/ Subtracts \/ Multiplies \/ Divides \/ Compares \/ Extends
    BY <2>2, <2>3 DEF Adds, Subtracts, Multiplies, Divides, Compares, Extends
  <2>4. CASE Writes
    <3>1. PICK line \in Lines : lines' = Append(lines, line)
      BY <2>4 DEF Writes
    <3>2. lines' \in Seq(Lines)
      BY <3>1, AppendProperties DEF Answered
    <3>3. ValidToml' /\ asked'.op = "none"
      BY <2>4 DEF Writes, Idle, None
    <3> QED
      BY <3>2, <3>3 DEF Answered
  <2>5. ASSUME NEW decls, NEW version, NEW noManifest \in BOOLEAN,
               noManifest => lines = <<>>,
               \A d \in decls : DeclarationIs(d),
               Builds(decls, version, noManifest)
        PROVE  Answered'
    <3>1. /\ lines' = lines /\ asked'.x = decls /\ asked'.y = version
          /\ answer' = AfterParse(version, decls, lines, noManifest)
      BY <2>5 DEF Builds, Ask
    <3>2. \A d \in asked'.x : DeclarationIs(d)
      BY <2>5, <3>1
    <3>3. answer' = AfterParse(asked'.y, asked'.x, lines', noManifest)
      BY <3>1
    <3>4. \E n \in BOOLEAN :
            /\ n => lines' = <<>>
            /\ answer' = AfterParse(asked'.y, asked'.x, lines', n)
      BY <2>5, <3>1, <3>3
    <3> QED
      BY <2>1, <3>1, <3>2, <3>4 DEF Answered
  <2>6. CASE BuildsContract
    <3>1. PICK decls \in Contracts, version \in Versions, noManifest \in BOOLEAN :
            /\ noManifest => lines = <<>>
            /\ Builds(decls, version, noManifest)
      BY <2>6 DEF BuildsContract
    <3>2. \A d \in decls : DeclarationIs(d)
      BY DecoratorsAssumption DEF DeclarationIs
    <3> QED
      BY <2>5, <3>1, <3>2
  <2>7. CASE BuildsSpelling
    <3>1. PICK name \in Spellings, args \in BOOLEAN :
            Builds({[declaredAs |-> "get", decorators |-> <<[name |-> name, args |-> args]>>]},
                   <<>>, FALSE)
      BY <2>7 DEF BuildsSpelling
    <3>2. name \in Seq(STRING)
      BY DecoratorsAssumption
    <3>3. <<[name |-> name, args |-> args]>> \in Seq([name : Seq(STRING), args : BOOLEAN])
      BY <3>2
    <3> DEFINE ds == <<[name |-> name, args |-> args]>>
               decls == {[declaredAs |-> "get", decorators |-> ds]}
    <3>4. \A d \in decls : DeclarationIs(d)
      <4>1. ds \in Seq([name : Seq(STRING), args : BOOLEAN])
        BY <3>3
      <4> HIDE DEF ds
      <4>2. \A d \in decls : d.decorators = ds
        OBVIOUS
      <4> HIDE DEF decls
      <4> QED
        BY <4>1, <4>2 DEF DeclarationIs
    <3>5. Builds(decls, <<>>, FALSE) /\ FALSE \in BOOLEAN
      BY <3>1
    <3> HIDE DEF decls
    <3> QED
      BY <2>5, <3>4, <3>5
  <2>8. CASE Again
    <3>1. lines' = <<>> /\ asked'.op = "none" /\ DOMAIN lines' = {}
      BY <2>8 DEF Again, None
    <3>2. Headers' = {} /\ Assignments' = {}
      BY <3>1 DEF Headers, Assignments
    <3>3. lines' \in Seq(Lines)
      BY <3>1, EmptySeq
    <3>4. ValidToml'
      BY <3>2 DEF ValidToml
    <3> QED
      BY <3>1, <3>3, <3>4 DEF Answered
  <2>9. CASE UNCHANGED vars
    BY <2>1, <2>9 DEF vars, Answered
  <2> QED
    BY <2>3, <2>4, <2>6, <2>7, <2>8, <2>9 DEF Next
<1> QED
  BY <1>1, <1>2, PTL DEF Spec

\* Whatever lines the manifest has, in whatever order, and whatever the contract
\* declares: a build that goes through has no marker the manifest contradicts,
\* and with the functions under headers nothing but such a marker, or one with
\* arguments, makes a build fail.
THEOREM IntentAlwaysExact == Spec => []IntentExact
<1>1. Answered => IntentExact
  BY BuildIsExact
<1> QED
  BY <1>1, AnsweredAlways, PTL

-----------------------------------------------------------------------------
(* The distance of two names *)

LEMMA LeastIs ==
  ASSUME NEW s \in SUBSET Nat, s # {}
  PROVE  Min(s) \in s /\ \A y \in s : Min(s) <= y
<1>1. PICK m \in s : \A k \in s : m <= k
  BY MinimalNat
<1> QED
  BY <1>1 DEF Min

\* What an entry of the table is the least of: r are the rows above, w the row
\* so far.
Above(r, i, j) == r[i][j + 1] + 1
Beside(w, j)   == w[j] + 1
Across(a, b, r, i, j) == r[i][j] + (IF a[i] = b[j] THEN 0 ELSE 1)

Offers(a, b, r, w, i, j) ==
  {Above(r, i, j), Beside(w, j), Across(a, b, r, i, j)} \cup Swap(a, b, i, j, r[i - 1])

Rows(b) == {w \in Seq(Nat) : Len(w) = Len(b) + 1}

LEMMA RowEntry ==
  ASSUME NEW b \in Seq(STRING), NEW w \in Rows(b), NEW j \in 1 .. Len(b) + 1
  PROVE  w[j] \in Nat
<1>1. w \in Seq(Nat) /\ j \in 1 .. Len(w)
  BY DEF Rows
<1> QED
  BY <1>1, ElementOfSeq

LEMMA OffersAre ==
  ASSUME NEW a \in Seq(STRING), NEW b \in Seq(STRING),
         NEW r \in Seq(Rows(b)), NEW i \in 1 .. Len(a), Len(r) >= i,
         NEW w \in Seq(Nat), NEW j \in 1 .. Len(b), Len(w) >= j
  PROVE  /\ Offers(a, b, r, w, i, j) \in SUBSET Nat
         /\ Offers(a, b, r, w, i, j) # {}
         /\ Above(r, i, j) \in Nat /\ Beside(w, j) \in Nat /\ Across(a, b, r, i, j) \in Nat
<1> DEFINE n == Len(a)  m == Len(b)  p == Len(w)  q == Len(r)
<1>1. n \in Nat /\ m \in Nat /\ p \in Nat /\ p >= j /\ q \in Nat /\ q >= i
  BY LenProperties
<1>2. i \in 1 .. n /\ j \in 1 .. m
  OBVIOUS
<1> HIDE DEF n, m, p, q
<1>3. /\ i \in 1 .. q /\ j \in 1 .. p /\ j \in 1 .. m + 1 /\ j + 1 \in 1 .. m + 1
      /\ i > 1 => i - 1 \in 1 .. q
      /\ j > 1 => j - 1 \in 1 .. m + 1
  BY <1>1, <1>2
<1>4. r[i] \in Rows(b) /\ (i > 1 => r[i - 1] \in Rows(b))
  BY <1>3, ElementOfSeq DEF q
<1>5. r[i][j] \in Nat /\ r[i][j + 1] \in Nat /\ w[j] \in Nat
  BY <1>3, <1>4, RowEntry, ElementOfSeq DEF m, p
<1>6. i > 1 /\ j > 1 => r[i - 1][j - 1] \in Nat
  BY <1>3, <1>4, RowEntry DEF m
<1>7. Swap(a, b, i, j, r[i - 1]) \in SUBSET Nat
  BY <1>6 DEF Swap
<1>8. Above(r, i, j) \in Nat /\ Beside(w, j) \in Nat /\ Across(a, b, r, i, j) \in Nat
  <2> DEFINE x == r[i][j]  y == r[i][j + 1]  z == w[j]  c == IF a[i] = b[j] THEN 0 ELSE 1
  <2>1. x \in Nat /\ y \in Nat /\ z \in Nat /\ c \in Nat
    BY <1>5
  <2> HIDE DEF x, y, z, c
  <2>2. y + 1 \in Nat /\ z + 1 \in Nat /\ x + c \in Nat
    BY <2>1
  <2> QED
    BY <2>2 DEF Above, Beside, Across, x, y, z, c
<1> QED
  BY <1>7, <1>8 DEF Offers

\* A row follows its recurrence.
IsRow(a, b, r, w, i) ==
  /\ w \in Rows(b) /\ w[1] = i
  /\ \A j \in 1 .. Len(b) : w[j + 1] = Min(Offers(a, b, r, w, i, j))

LEMMA NextRowIs ==
  ASSUME NEW a \in Seq(STRING), NEW b \in Seq(STRING),
         NEW r \in Seq(Rows(b)), NEW i \in 1 .. Len(a), Len(r) = i
  PROVE  IsRow(a, b, r, NextRow(a, b, r, i), i)
<1> DEFINE m == Len(b)  V == Seq(Nat)
           More(w, j) == Append(w, Min(Offers(a, b, r, w, i, j)))
           step == [p \in (1 .. m) \X V |-> IF Len(p[2]) = p[1] THEN More(p[2], p[1]) ELSE p[2]]
           base == <<i>>
           Rec(f) == [j \in 0 .. m |-> IF j = 0 THEN base ELSE More(f[j - 1], j)]
           row == CHOOSE f : f = Rec(f)
<1>0. m \in Nat /\ i \in Nat
  BY LenProperties
<1>1. base \in V /\ Len(base) = 1 /\ base[1] = i
  BY <1>0
<1>2. ASSUME NEW j \in 1 .. m, NEW w \in V, Len(w) = j
      PROVE  /\ More(w, j) \in V /\ Len(More(w, j)) = j + 1
             /\ \A k \in 1 .. j : More(w, j)[k] = w[k]
             /\ More(w, j)[j + 1] = Min(Offers(a, b, r, w, i, j))
  <2> DEFINE c == Min(Offers(a, b, r, w, i, j))
  <2>1. c \in Nat
    <3>1. Len(w) >= j /\ Len(r) >= i
      <4>1. j >= j /\ i >= i
        BY <1>0
      <4> QED
        BY <1>2, <4>1
    <3>2. Offers(a, b, r, w, i, j) \in SUBSET Nat /\ Offers(a, b, r, w, i, j) # {}
      BY <3>1, OffersAre
    <3> QED
      BY <3>2, LeastIs
  <2> HIDE DEF c
  <2> QED
    BY <1>2, <2>1, AppendProperties DEF c
<1>3. step \in [(1 .. m) \X V -> V]
  <2> HIDE DEF m, More, V
  <2>1. ASSUME NEW p \in (1 .. m) \X V
        PROVE  (IF Len(p[2]) = p[1] THEN More(p[2], p[1]) ELSE p[2]) \in V
    BY <1>2
  <2> QED
    BY <2>1
<1>4. PICK f : IsRecursion(f, m, V, base, step)
  <2>1. \E f : IsRecursion(f, m, V, base, step)
    <3> HIDE DEF m, V, step, base
    <3> QED
      BY <1>0, <1>1, <1>3, RecursionUpTo
  <2> QED
    BY <2>1
<1> HIDE DEF V, base
<1>5. ASSUME NEW j \in 1 .. m, NEW w \in V, Len(w) = j
      PROVE  step[<<j, w>>] = More(w, j)
  <2> HIDE DEF m, More
  <2> QED
    BY <1>5
<1> HIDE DEF step
<1> DEFINE T == {j \in 0 .. m : f[j] \in V /\ Len(f[j]) = j + 1 /\ (j > 0 => f[j] = More(f[j - 1], j))}
<1>6. \A j \in 0 .. m : j \in T
  <2>1. 0 \in T
    BY <1>0, <1>1, <1>4 DEF IsRecursion
  <2>2. ASSUME NEW j \in 1 .. m, j - 1 \in T PROVE j \in T
    <3>1. f[j - 1] \in V /\ Len(f[j - 1]) = j /\ j \in 0 .. m
      BY <1>0, <2>2
    <3>2. f[j] = step[<<j, f[j - 1]>>]
      BY <1>4 DEF IsRecursion
    <3>3. f[j] = More(f[j - 1], j)
      BY <1>5, <3>1, <3>2
    <3>4. f[j] \in V /\ Len(f[j]) = j + 1
      BY <1>2, <3>1, <3>3
    <3> QED
      BY <3>1, <3>3, <3>4
  <2> HIDE DEF T, m
  <2> QED
    BY <1>0, <2>1, <2>2, UpTo
<1>7. f = Rec(f)
  <2>1. f = [j \in 0 .. m |-> f[j]]
    BY <1>4 DEF IsRecursion
  <2>2. \A j \in 0 .. m : f[j] = IF j = 0 THEN base ELSE More(f[j - 1], j)
    <3> TAKE j \in 0 .. m
    <3>1. f[0] = base
      BY <1>4 DEF IsRecursion
    <3>2. j # 0 => j > 0
      BY <1>0
    <3>3. j \in T
      BY <1>6
    <3> HIDE DEF More
    <3> QED
      BY <3>1, <3>2, <3>3
  <2> HIDE DEF m, More
  <2> QED
    BY <2>1, <2>2
<1>8. row = Rec(row)
  <2> HIDE DEF Rec
  <2> QED
    BY <1>7
<1>9. NextRow(a, b, r, i) = row[m]
  BY DEF NextRow, Offers, Above, Beside, Across, base
<1> HIDE DEF row, T
<1>10. row[0] = base /\ \A j \in 1 .. m : row[j] = More(row[j - 1], j)
  <2>1. 0 \in 0 .. m /\ \A j \in 1 .. m : j \in 0 .. m /\ j # 0
    BY <1>0
  <2> HIDE DEF m, More
  <2> QED
    BY <1>8, <2>1
<1> DEFINE U == {j \in 0 .. m : /\ row[j] \in V /\ Len(row[j]) = j + 1 /\ row[j][1] = i
                                /\ \A k \in 1 .. j : row[j][k + 1] = Min(Offers(a, b, r, row[j], i, k))}
<1>11. 0 \in U
  <2>1. 0 \in 0 .. m /\ \A k : k \notin 1 .. 0
    BY <1>0
  <2> QED
    BY <1>1, <1>10, <2>1
<1>12. ASSUME NEW j \in 1 .. m, j - 1 \in U PROVE j \in U
  <2> DEFINE w == row[j - 1]  v == row[j]
  <2>1. /\ w \in V /\ Len(w) = j /\ w[1] = i /\ j \in 0 .. m
        /\ \A k \in 1 .. j - 1 : w[k + 1] = Min(Offers(a, b, r, w, i, k))
    BY <1>0, <1>12
  <2>2. v = More(w, j)
    BY <1>10
  <2> HIDE DEF w, v
  <2>3. /\ v \in V /\ Len(v) = j + 1
        /\ \A k \in 1 .. j : v[k] = w[k]
        /\ v[j + 1] = Min(Offers(a, b, r, w, i, j))
    BY <1>2, <2>1, <2>2
  <2>4. \A k \in 1 .. j : Offers(a, b, r, v, i, k) = Offers(a, b, r, w, i, k)
    BY <2>3 DEF Offers, Beside
  <2>5. \A k \in 1 .. j : v[k + 1] = Min(Offers(a, b, r, v, i, k))
    <3> TAKE k \in 1 .. j
    <3>1. CASE k = j
      BY <2>3, <2>4, <3>1
    <3>2. CASE k # j
      <4>1. k \in 1 .. j - 1 /\ k + 1 \in 1 .. j
        BY <1>0, <3>2
      <4>2. v[k + 1] = w[k + 1]
        BY <2>3, <4>1
      <4> QED
        BY <2>1, <2>4, <4>1, <4>2
    <3> QED
      BY <3>1, <3>2
  <2>6. v[1] = i
    <3>1. 1 \in 1 .. j
      BY <1>0
    <3> QED
      BY <2>1, <2>3, <3>1
  <2> QED
    BY <2>1, <2>3, <2>5, <2>6 DEF v
<1>13. m \in U
  <2>1. \A j \in 0 .. m : j \in U
    <3> HIDE DEF U, m
    <3> QED
      BY <1>0, <1>11, <1>12, UpTo
  <2>2. m \in 0 .. m
    BY <1>0
  <2> HIDE DEF U
  <2> QED
    BY <2>1, <2>2
<1> QED
  BY <1>9, <1>13 DEF IsRow, Rows, V

LEMMA OffersSame ==
  ASSUME NEW a, NEW b, NEW r, NEW s, NEW w, NEW i \in Nat \ {0}, NEW j,
         \A k \in 1 .. i : r[k] = s[k]
  PROVE  Offers(a, b, r, w, i, j) = Offers(a, b, s, w, i, j)
<1>1. r[i] = s[i]
  <2>1. i \in 1 .. i
    OBVIOUS
  <2> QED
    BY <2>1
<1>2. Swap(a, b, i, j, r[i - 1]) = Swap(a, b, i, j, s[i - 1])
  <2>1. CASE i = 1
    BY <2>1 DEF Swap
  <2>2. CASE i # 1
    <3>1. i - 1 \in 1 .. i
      BY <2>2
    <3>2. r[i - 1] = s[i - 1]
      BY <3>1
    <3> QED
      BY <3>2
  <2> QED
    BY <2>1, <2>2
<1> QED
  BY <1>1, <1>2 DEF Offers, Above, Across

\* The first k rows after that of the empty name.
IsTable(a, b, r, k) ==
  /\ r \in Seq(Rows(b)) /\ Len(r) = k + 1
  /\ \A j \in 1 .. Len(b) + 1 : r[1][j] = j - 1
  /\ \A i \in 1 .. k : IsRow(a, b, r, r[i + 1], i)

LEMMA TableGrows ==
  ASSUME NEW a \in Seq(STRING), NEW b \in Seq(STRING), NEW k \in 1 .. Len(a),
         NEW r, IsTable(a, b, r, k - 1)
  PROVE  IsTable(a, b, Append(r, NextRow(a, b, r, k)), k)
<1> DEFINE w == NextRow(a, b, r, k)  s == Append(r, w)
<1>0. k \in Nat /\ k >= 1
  BY LenProperties
<1>1. r \in Seq(Rows(b)) /\ Len(r) = k
  BY <1>0 DEF IsTable
<1>2. IsRow(a, b, r, w, k)
  BY <1>1, NextRowIs
<1>3. w \in Rows(b)
  BY <1>2 DEF IsRow
<1> HIDE DEF w
<1>4. /\ s \in Seq(Rows(b)) /\ Len(s) = k + 1
      /\ \A i \in 1 .. k : s[i] = r[i]
      /\ s[k + 1] = w
  BY <1>1, <1>3, AppendProperties
<1> HIDE DEF s
<1>5. \A j \in 1 .. Len(b) + 1 : s[1][j] = j - 1
  <2>1. 1 \in 1 .. k
    BY <1>0
  <2> QED
    BY <1>4, <2>1 DEF IsTable
<1>6. ASSUME NEW i \in 1 .. k PROVE IsRow(a, b, s, s[i + 1], i)
  <2>1. i \in Nat \ {0} /\ \A x \in 1 .. i : x \in 1 .. k
    BY <1>0
  <2>2. \A x \in 1 .. i : r[x] = s[x]
    BY <1>4, <2>1
  <2>3. \A v, j : Offers(a, b, r, v, i, j) = Offers(a, b, s, v, i, j)
    BY <2>1, <2>2, OffersSame
  <2>4. IsRow(a, b, r, s[i + 1], i)
    <3>1. CASE i = k
      BY <1>2, <1>4, <3>1
    <3>2. CASE i # k
      <4>1. i \in 1 .. k - 1 /\ i + 1 \in 1 .. k
        BY <1>0, <3>2
      <4> QED
        BY <1>4, <4>1 DEF IsTable
    <3> QED
      BY <3>1, <3>2
  <2> QED
    BY <2>3, <2>4 DEF IsRow
<1>7. IsTable(a, b, s, k)
  BY <1>4, <1>5, <1>6 DEF IsTable
<1> QED
  BY <1>7 DEF s, w

LEMMA DistanceInTable ==
  ASSUME NEW a \in Seq(STRING), NEW b \in Seq(STRING)
  PROVE  \E r : /\ IsTable(a, b, r, Len(a))
                /\ OsaDistance(a, b) = r[Len(a) + 1][Len(b) + 1]
<1> DEFINE n == Len(a)  V == Seq(Rows(b))
           first == [j \in 1 .. Len(b) + 1 |-> j - 1]
           base == <<first>>
           More(r, k) == Append(r, NextRow(a, b, r, k))
           step == [p \in (1 .. n) \X V |-> IF Len(p[2]) = p[1] THEN More(p[2], p[1]) ELSE p[2]]
           Rec(f) == [i \in 0 .. n |-> IF i = 0 THEN base ELSE More(f[i - 1], i)]
           rows == CHOOSE f : f = Rec(f)
<1>0. n \in Nat
  BY LenProperties
<1>1. base \in V /\ IsTable(a, b, base, 0)
  <2> DEFINE m == Len(b)
  <2>1. m \in Nat
    BY LenProperties
  <2>2. first \in Rows(b)
    <3>1. m + 1 \in Nat /\ DOMAIN first = 1 .. m + 1 /\ \A j \in 1 .. m + 1 : j - 1 \in Nat
      BY <2>1
    <3>2. first \in [1 .. m + 1 -> Nat]
      <4> HIDE DEF m
      <4> QED
        BY <3>1 DEF m
    <3> HIDE DEF m, first
    <3>3. first \in Seq(Nat) /\ Len(first) = m + 1
      BY <3>1, <3>2
    <3> QED
      BY <3>3 DEF Rows, m
  <2>3. \A j \in 1 .. Len(b) + 1 : first[j] = j - 1
    OBVIOUS
  <2> HIDE DEF first
  <2>4. base \in V /\ Len(base) = 1 /\ base[1] = first
    BY <2>2
  <2>5. \A i : i \notin 1 .. 0
    OBVIOUS
  <2> HIDE DEF base
  <2> QED
    BY <2>3, <2>4, <2>5 DEF IsTable
<1> HIDE DEF base
<1>2. ASSUME NEW k \in 1 .. n, NEW r \in V, Len(r) = k PROVE More(r, k) \in V
  <2>1. IsRow(a, b, r, NextRow(a, b, r, k), k)
    BY <1>2, NextRowIs
  <2>2. NextRow(a, b, r, k) \in Rows(b)
    BY <2>1 DEF IsRow
  <2> QED
    BY <2>2, AppendProperties
<1>3. step \in [(1 .. n) \X V -> V]
  <2> HIDE DEF n, More, V
  <2>1. ASSUME NEW p \in (1 .. n) \X V
        PROVE  (IF Len(p[2]) = p[1] THEN More(p[2], p[1]) ELSE p[2]) \in V
    BY <1>2
  <2> QED
    BY <2>1
<1>4. PICK f : IsRecursion(f, n, V, base, step)
  <2>1. \E f : IsRecursion(f, n, V, base, step)
    <3> HIDE DEF n, V, step
    <3> QED
      BY <1>0, <1>1, <1>3, RecursionUpTo
  <2> QED
    BY <2>1
<1>5. ASSUME NEW k \in 1 .. n, NEW r \in V, Len(r) = k
      PROVE  step[<<k, r>>] = More(r, k)
  <2> HIDE DEF n, More, V
  <2> QED
    BY <1>5
<1> HIDE DEF step
<1> DEFINE T == {k \in 0 .. n : IsTable(a, b, f[k], k) /\ (k > 0 => f[k] = More(f[k - 1], k))}
<1>6. \A k \in 0 .. n : k \in T
  <2>1. 0 \in T
    BY <1>0, <1>1, <1>4 DEF IsRecursion
  <2>2. ASSUME NEW k \in 1 .. n, k - 1 \in T PROVE k \in T
    <3>1. IsTable(a, b, f[k - 1], k - 1) /\ k \in 0 .. n
      BY <1>0, <2>2
    <3>2. f[k - 1] \in V /\ Len(f[k - 1]) = k
      BY <1>0, <3>1 DEF IsTable
    <3>3. f[k] = step[<<k, f[k - 1]>>]
      BY <1>4 DEF IsRecursion
    <3>4. f[k] = More(f[k - 1], k)
      BY <1>5, <3>2, <3>3
    <3>5. IsTable(a, b, f[k], k)
      BY <3>1, <3>4, TableGrows
    <3> QED
      BY <3>1, <3>4, <3>5
  <2> HIDE DEF T, n
  <2> QED
    BY <1>0, <2>1, <2>2, UpTo
<1>7. f = Rec(f)
  <2>1. f = [i \in 0 .. n |-> f[i]]
    BY <1>4 DEF IsRecursion
  <2>2. \A i \in 0 .. n : f[i] = IF i = 0 THEN base ELSE More(f[i - 1], i)
    <3> TAKE i \in 0 .. n
    <3>1. f[0] = base
      BY <1>4 DEF IsRecursion
    <3>2. i # 0 => i > 0
      BY <1>0
    <3>3. i \in T
      BY <1>6
    <3> HIDE DEF More
    <3> QED
      BY <3>1, <3>2, <3>3
  <2> HIDE DEF n, More
  <2> QED
    BY <2>1, <2>2
<1>8. rows = Rec(rows)
  <2> HIDE DEF Rec
  <2> QED
    BY <1>7
<1>9. OsaDistance(a, b) = rows[n][n + 1][Len(b) + 1]
  BY DEF OsaDistance, base
<1> HIDE DEF rows, T
<1>10. rows[0] = base /\ \A k \in 1 .. n : rows[k] = More(rows[k - 1], k)
  <2>1. 0 \in 0 .. n /\ \A k \in 1 .. n : k \in 0 .. n /\ k # 0
    BY <1>0
  <2> HIDE DEF n, More
  <2> QED
    BY <1>8, <2>1
<1> DEFINE U == {k \in 0 .. n : IsTable(a, b, rows[k], k)}
<1>11. 0 \in U
  BY <1>0, <1>1, <1>10
<1>12. ASSUME NEW k \in 1 .. n, k - 1 \in U PROVE k \in U
  <2>1. IsTable(a, b, rows[k - 1], k - 1) /\ k \in 0 .. n
    BY <1>0, <1>12
  <2>2. rows[k] = More(rows[k - 1], k)
    BY <1>10
  <2>3. IsTable(a, b, rows[k], k)
    BY <2>1, <2>2, TableGrows
  <2> QED
    BY <2>1, <2>3
<1>13. n \in U
  <2>1. \A k \in 0 .. n : k \in U
    <3> HIDE DEF U, n
    <3> QED
      BY <1>0, <1>11, <1>12, UpTo
  <2>2. n \in 0 .. n
    BY <1>0
  <2> HIDE DEF U
  <2> QED
    BY <2>1, <2>2
<1> QED
  BY <1>9, <1>13

-----------------------------------------------------------------------------
(* The entries of the table that are zero or one *)

\* The distance of the first i and the first j letters.
D(r, i, j) == r[i + 1][j + 1]

Swapped(a, b, i, j) == i > 1 /\ j > 1 /\ a[i] = b[j - 1] /\ a[i - 1] = b[j]

LEMMA Borders ==
  ASSUME NEW a \in Seq(STRING), NEW b \in Seq(STRING), NEW r, IsTable(a, b, r, Len(a))
  PROVE  /\ \A j \in 0 .. Len(b) : D(r, 0, j) = j
         /\ \A i \in 0 .. Len(a) : D(r, i, 0) = i
         /\ \A i \in 0 .. Len(a), j \in 0 .. Len(b) : D(r, i, j) \in Nat
<1> DEFINE n == Len(a)  m == Len(b)
<1>1. n \in Nat /\ m \in Nat
  BY LenProperties
<1> HIDE DEF n, m
<1>2. /\ r \in Seq(Rows(b)) /\ Len(r) = n + 1
      /\ \A j \in 1 .. m + 1 : r[1][j] = j - 1
      /\ \A i \in 1 .. n : r[i + 1][1] = i
  BY DEF IsTable, IsRow, n, m
<1>3. \A j \in 0 .. m : D(r, 0, j) = j
  <2> TAKE j \in 0 .. m
  <2>1. j + 1 \in 1 .. m + 1 /\ (j + 1) - 1 = j /\ 0 + 1 = 1
    BY <1>1
  <2> QED
    BY <1>2, <2>1 DEF D
<1>4. \A i \in 0 .. n : D(r, i, 0) = i
  <2> TAKE i \in 0 .. n
  <2>1. CASE i = 0
    <3>1. 0 \in 0 .. m
      BY <1>1
    <3> QED
      BY <1>3, <2>1, <3>1
  <2>2. CASE i # 0
    <3>1. i \in 1 .. n /\ 0 + 1 = 1
      BY <1>1, <2>2
    <3> QED
      BY <1>2, <3>1 DEF D
  <2> QED
    BY <2>1, <2>2
<1>5. \A i \in 0 .. n, j \in 0 .. m : D(r, i, j) \in Nat
  <2> TAKE i \in 0 .. n, j \in 0 .. m
  <2>1. i + 1 \in 1 .. n + 1 /\ j + 1 \in 1 .. m + 1
    BY <1>1
  <2>2. r[i + 1] \in Rows(b)
    BY <1>2, <2>1, ElementOfSeq
  <2>3. r[i + 1][j + 1] \in Nat
    BY <2>1, <2>2, RowEntry DEF m
  <2> QED
    BY <2>3 DEF D
<1> QED
  BY <1>3, <1>4, <1>5 DEF n, m

LEMMA Recurrence ==
  ASSUME NEW a \in Seq(STRING), NEW b \in Seq(STRING), NEW r, IsTable(a, b, r, Len(a)),
         NEW i \in 1 .. Len(a), NEW j \in 1 .. Len(b)
  PROVE  /\ D(r, i, j) = 0 <=> a[i] = b[j] /\ D(r, i - 1, j - 1) = 0
         /\ D(r, i, j) <= 1 <=>
              \/ D(r, i - 1, j) = 0 \/ D(r, i, j - 1) = 0 \/ D(r, i - 1, j - 1) = 0
              \/ a[i] = b[j] /\ D(r, i - 1, j - 1) <= 1
              \/ Swapped(a, b, i, j) /\ D(r, i - 2, j - 2) = 0
<1> DEFINE n == Len(a)  m == Len(b)  w == r[i + 1]
           s == Offers(a, b, r, w, i, j)
           x == D(r, i - 1, j)  y == D(r, i, j - 1)  z == D(r, i - 1, j - 1)
           t == D(r, i - 2, j - 2)  c == IF a[i] = b[j] THEN 0 ELSE 1
<1>1. n \in Nat /\ m \in Nat /\ i \in 1 .. n /\ j \in 1 .. m
  BY LenProperties
<1>2. r \in Seq(Rows(b)) /\ Len(r) = n + 1 /\ IsRow(a, b, r, w, i)
  BY DEF IsTable
<1>3. w \in Seq(Nat) /\ Len(w) = m + 1 /\ w[j + 1] = Min(s)
  BY <1>2 DEF IsRow, Rows
<1>4. Len(r) >= i /\ Len(w) >= j
  <2> HIDE DEF n, m, w
  <2>1. n + 1 >= i /\ m + 1 >= j
    BY <1>1
  <2> QED
    BY <1>2, <1>3, <2>1
<1>5. s \in SUBSET Nat /\ s # {}
  BY <1>2, <1>3, <1>4, OffersAre
<1>6. /\ x \in Nat /\ y \in Nat /\ z \in Nat
      /\ Swapped(a, b, i, j) => t \in Nat
  <2> HIDE DEF n, m
  <2>1. /\ i \in 0 .. n /\ i - 1 \in 0 .. n /\ j \in 0 .. m /\ j - 1 \in 0 .. m
        /\ i > 1 => i - 2 \in 0 .. n
        /\ j > 1 => j - 2 \in 0 .. m
    BY <1>1
  <2> QED
    BY <2>1, Borders DEF Swapped, n, m
<1>7. s = {x + 1, y + 1, z + c} \cup (IF Swapped(a, b, i, j) THEN {t + 1} ELSE {})
  <2>1. /\ (i - 1) + 1 = i /\ (j - 1) + 1 = j /\ (i - 2) + 1 = i - 1 /\ (j - 2) + 1 = j - 1
    BY <1>1
  <2>2. Above(r, i, j) = x + 1
    BY <2>1 DEF Above, D
  <2>3. Beside(w, j) = y + 1
    BY <2>1 DEF Beside, D
  <2>4. Across(a, b, r, i, j) = z + c
    BY <2>1 DEF Across, D
  <2>5. Swap(a, b, i, j, r[i - 1]) = IF Swapped(a, b, i, j) THEN {t + 1} ELSE {}
    BY <2>1 DEF Swap, Swapped, D
  <2> HIDE DEF x, y, z, t, c, w
  <2> QED
    BY <2>2, <2>3, <2>4, <2>5 DEF Offers
<1>8. D(r, i, j) = Min(s)
  BY <1>3 DEF D
<1> DEFINE l == Min(s)
<1> HIDE DEF s
<1>9. l \in s /\ \A e \in s : l <= e
  BY <1>5, LeastIs
<1> HIDE DEF l
<1>10. c \in {0, 1} /\ (c = 0 <=> a[i] = b[j])
  OBVIOUS
<1> HIDE DEF c
<1>11. l \in Nat /\ l <= x + 1 /\ l <= y + 1 /\ l <= z + c
       /\ (Swapped(a, b, i, j) => l <= t + 1)
  <2> HIDE DEF x, y, z, t
  <2> QED
    BY <1>5, <1>7, <1>9
<1>12. l = x + 1 \/ l = y + 1 \/ l = z + c \/ (Swapped(a, b, i, j) /\ l = t + 1)
  <2> HIDE DEF x, y, z, t
  <2> QED
    BY <1>7, <1>9
<1> HIDE DEF x, y, z, t
<1>13. l = 0 <=> c = 0 /\ z = 0
  BY <1>6, <1>10, <1>11, <1>12
<1>14. l <= 1 <=> x = 0 \/ y = 0 \/ z = 0 \/ (c = 0 /\ z <= 1) \/ (Swapped(a, b, i, j) /\ t = 0)
  BY <1>6, <1>10, <1>11, <1>12
<1> QED
  BY <1>8, <1>10, <1>13, <1>14 DEF l, x, y, z, t

Same(a, b, i) == \A k \in 1 .. i : a[k] = b[k]

OneOther(a, b, i) == \E p \in 1 .. i : \A k \in (1 .. i) \ {p} : a[k] = b[k]

OneSwap(a, b, i) ==
  \E p \in 1 .. i - 1 : /\ a[p] = b[p + 1] /\ a[p + 1] = b[p]
                        /\ \A k \in (1 .. i) \ {p, p + 1} : a[k] = b[k]

\* The first i of a, without one of them, are the first i - 1 of b.
OneLess(a, b, i) ==
  \E p \in 1 .. i : /\ \A k \in 1 .. p - 1 : a[k] = b[k]
                    /\ \A k \in p .. i - 1 : a[k + 1] = b[k]

\* At most one edit turns the first i of a into the first j of b.
Near(a, b, i, j) ==
  \/ i = j /\ (Same(a, b, i) \/ OneOther(a, b, i) \/ OneSwap(a, b, i))
  \/ i = j + 1 /\ OneLess(a, b, i)
  \/ j = i + 1 /\ OneLess(b, a, j)

LEMMA SameNext ==
  ASSUME NEW a, NEW b, NEW i \in Nat \ {0}
  PROVE  Same(a, b, i) <=> Same(a, b, i - 1) /\ a[i] = b[i]
<1>1. \A k : k \in 1 .. i <=> k \in 1 .. i - 1 \/ k = i
  OBVIOUS
<1> QED
  BY <1>1 DEF Same

LEMMA OneLessNext ==
  ASSUME NEW a, NEW b, NEW i \in Nat, i > 1
  PROVE  OneLess(a, b, i) <=> Same(a, b, i - 1) \/ (a[i] = b[i - 1] /\ OneLess(a, b, i - 1))
<1>1. ASSUME OneLess(a, b, i)
      PROVE  Same(a, b, i - 1) \/ (a[i] = b[i - 1] /\ OneLess(a, b, i - 1))
  <2>1. PICK p \in 1 .. i : /\ \A k \in 1 .. p - 1 : a[k] = b[k]
                            /\ \A k \in p .. i - 1 : a[k + 1] = b[k]
    BY <1>1 DEF OneLess
  <2>2. CASE p = i
    BY <2>1, <2>2 DEF Same
  <2>3. CASE p # i
    <3>1. p \in 1 .. i - 1 /\ i - 1 \in p .. i - 1 /\ (i - 1) + 1 = i
      BY <2>3
    <3>2. a[i] = b[i - 1]
      BY <2>1, <3>1
    <3>3. \A k \in p .. (i - 1) - 1 : k \in p .. i - 1
      BY <3>1
    <3>4. \A k \in p .. (i - 1) - 1 : a[k + 1] = b[k]
      BY <2>1, <3>3
    <3> QED
      BY <2>1, <3>1, <3>2, <3>4 DEF OneLess
  <2> QED
    BY <2>2, <2>3
<1>2. ASSUME Same(a, b, i - 1) PROVE OneLess(a, b, i)
  <2>1. i \in 1 .. i /\ \A k : k \notin i .. i - 1
    OBVIOUS
  <2>2. \A k \in 1 .. i - 1 : a[k] = b[k]
    BY <1>2 DEF Same
  <2> QED
    BY <2>1, <2>2 DEF OneLess
<1>3. ASSUME a[i] = b[i - 1], OneLess(a, b, i - 1) PROVE OneLess(a, b, i)
  <2>1. PICK p \in 1 .. i - 1 : /\ \A k \in 1 .. p - 1 : a[k] = b[k]
                                /\ \A k \in p .. (i - 1) - 1 : a[k + 1] = b[k]
    BY <1>3 DEF OneLess
  <2>2. p \in 1 .. i /\ (i - 1) + 1 = i
        /\ \A k \in p .. i - 1 : k = i - 1 \/ k \in p .. (i - 1) - 1
    OBVIOUS
  <2>3. \A k \in p .. i - 1 : a[k + 1] = b[k]
    BY <1>3, <2>1, <2>2
  <2> QED
    BY <2>1, <2>2, <2>3 DEF OneLess
<1> QED
  BY <1>1, <1>2, <1>3

LEMMA OneOtherNext ==
  ASSUME NEW a, NEW b, NEW i \in Nat \ {0}
  PROVE  OneOther(a, b, i) <=> Same(a, b, i - 1) \/ (a[i] = b[i] /\ OneOther(a, b, i - 1))
<1>0. /\ \A k : k \in 1 .. i <=> k \in 1 .. i - 1 \/ k = i
      /\ i \notin 1 .. i - 1
  OBVIOUS
<1>1. ASSUME OneOther(a, b, i)
      PROVE  Same(a, b, i - 1) \/ (a[i] = b[i] /\ OneOther(a, b, i - 1))
  <2>1. PICK p \in 1 .. i : \A k \in (1 .. i) \ {p} : a[k] = b[k]
    BY <1>1 DEF OneOther
  <2>2. CASE p = i
    BY <1>0, <2>1, <2>2 DEF Same
  <2>3. CASE p # i
    BY <1>0, <2>1, <2>3 DEF OneOther
  <2> QED
    BY <2>2, <2>3
<1>2. ASSUME Same(a, b, i - 1) PROVE OneOther(a, b, i)
  BY <1>0, <1>2 DEF OneOther, Same
<1>3. ASSUME a[i] = b[i], OneOther(a, b, i - 1) PROVE OneOther(a, b, i)
  BY <1>0, <1>3 DEF OneOther
<1> QED
  BY <1>1, <1>2, <1>3

LEMMA OneSwapNext ==
  ASSUME NEW a, NEW b, NEW i \in Nat \ {0}
  PROVE  OneSwap(a, b, i) <=> \/ Swapped(a, b, i, i) /\ Same(a, b, i - 2)
                              \/ a[i] = b[i] /\ OneSwap(a, b, i - 1)
<1>0. /\ \A k : k \in 1 .. i <=> k \in 1 .. i - 1 \/ k = i
      /\ i \notin 1 .. i - 1
      /\ \A k : k \in (1 .. i) \ {i - 1, i} <=> k \in 1 .. i - 2
      /\ (i - 1) + 1 = i /\ (i - 1) - 1 = i - 2
  OBVIOUS
<1>1. ASSUME OneSwap(a, b, i)
      PROVE  \/ Swapped(a, b, i, i) /\ Same(a, b, i - 2)
             \/ a[i] = b[i] /\ OneSwap(a, b, i - 1)
  <2>1. PICK p \in 1 .. i - 1 : /\ a[p] = b[p + 1] /\ a[p + 1] = b[p]
                                /\ \A k \in (1 .. i) \ {p, p + 1} : a[k] = b[k]
    BY <1>1 DEF OneSwap
  <2>2. CASE p = i - 1
    <3>1. i > 1
      BY <2>2
    <3>2. a[i] = b[i - 1] /\ a[i - 1] = b[i]
      BY <1>0, <2>1, <2>2
    <3>3. \A k \in 1 .. i - 2 : a[k] = b[k]
      BY <1>0, <2>1, <2>2
    <3> QED
      BY <3>1, <3>2, <3>3 DEF Swapped, Same
  <2>3. CASE p # i - 1
    <3>1. p \in 1 .. (i - 1) - 1 /\ i \notin {p, p + 1}
      BY <2>3
    <3>2. a[i] = b[i]
      BY <1>0, <2>1, <3>1
    <3>3. \A k \in (1 .. i - 1) \ {p, p + 1} : a[k] = b[k]
      BY <1>0, <2>1
    <3> QED
      BY <2>1, <3>1, <3>2, <3>3 DEF OneSwap
  <2> QED
    BY <2>2, <2>3
<1>2. ASSUME Swapped(a, b, i, i), Same(a, b, i - 2) PROVE OneSwap(a, b, i)
  <2>1. i - 1 \in 1 .. i - 1
    BY <1>2 DEF Swapped
  <2>2. a[i - 1] = b[(i - 1) + 1] /\ a[(i - 1) + 1] = b[i - 1]
    BY <1>0, <1>2 DEF Swapped
  <2>3. \A k \in (1 .. i) \ {i - 1, (i - 1) + 1} : a[k] = b[k]
    BY <1>0, <1>2 DEF Same
  <2> QED
    BY <2>1, <2>2, <2>3 DEF OneSwap
<1>3. ASSUME a[i] = b[i], OneSwap(a, b, i - 1) PROVE OneSwap(a, b, i)
  <2>1. PICK p \in 1 .. (i - 1) - 1 : /\ a[p] = b[p + 1] /\ a[p + 1] = b[p]
                                      /\ \A k \in (1 .. i - 1) \ {p, p + 1} : a[k] = b[k]
    BY <1>3 DEF OneSwap
  <2>2. p \in 1 .. i - 1
    OBVIOUS
  <2>3. \A k \in (1 .. i) \ {p, p + 1} : a[k] = b[k]
    BY <1>0, <1>3, <2>1
  <2> QED
    BY <2>1, <2>2, <2>3 DEF OneSwap
<1> QED
  BY <1>1, <1>2, <1>3

LEMMA NearNext ==
  ASSUME NEW a, NEW b, NEW i \in Nat \ {0}, NEW j \in Nat \ {0}
  PROVE  Near(a, b, i, j) <=>
           \/ i - 1 = j /\ Same(a, b, j)
           \/ i = j - 1 /\ Same(a, b, i)
           \/ i - 1 = j - 1 /\ Same(a, b, i - 1)
           \/ a[i] = b[j] /\ Near(a, b, i - 1, j - 1)
           \/ Swapped(a, b, i, j) /\ i - 2 = j - 2 /\ Same(a, b, i - 2)
<1>1. CASE i = j
  <2>1. Near(a, b, i, j) <=> Same(a, b, i) \/ OneOther(a, b, i) \/ OneSwap(a, b, i)
    BY <1>1 DEF Near
  <2>2. Near(a, b, i - 1, j - 1) <=>
          Same(a, b, i - 1) \/ OneOther(a, b, i - 1) \/ OneSwap(a, b, i - 1)
    BY <1>1 DEF Near
  <2>3. i - 1 # j /\ i # j - 1 /\ i - 1 = j - 1 /\ i - 2 = j - 2
    BY <1>1
  <2> QED
    BY <1>1, <2>1, <2>2, <2>3, SameNext, OneOtherNext, OneSwapNext
<1>2. CASE i = j + 1
  <2>1. i > 1 /\ i - 1 = j /\ i - 1 = (j - 1) + 1 /\ i # j - 1 /\ i - 1 # j - 1 /\ i - 2 # j - 2
    BY <1>2
  <2>2. Near(a, b, i, j) <=> OneLess(a, b, i)
    BY <1>2 DEF Near
  <2>3. Near(a, b, i - 1, j - 1) <=> OneLess(a, b, i - 1)
    BY <1>2 DEF Near
  <2> QED
    BY <2>1, <2>2, <2>3, OneLessNext
<1>3. CASE j = i + 1
  <2>1. j > 1 /\ j - 1 = i /\ j - 1 = (i - 1) + 1 /\ i - 1 # j /\ i - 1 # j - 1 /\ i - 2 # j - 2
    BY <1>3
  <2>2. Near(a, b, i, j) <=> OneLess(b, a, j)
    BY <1>3 DEF Near
  <2>3. Near(a, b, i - 1, j - 1) <=> OneLess(b, a, j - 1)
    BY <1>3 DEF Near
  <2>4. Same(b, a, i) <=> Same(a, b, i)
    BY DEF Same
  <2> QED
    BY <2>1, <2>2, <2>3, <2>4, OneLessNext
<1>4. CASE i # j /\ i # j + 1 /\ j # i + 1
  BY <1>4 DEF Near
<1> QED
  BY <1>1, <1>2, <1>3, <1>4

\* Up to one, the table counts the edits.
LEMMA TableCounts ==
  ASSUME NEW a \in Seq(STRING), NEW b \in Seq(STRING), NEW r, IsTable(a, b, r, Len(a))
  PROVE  D(r, Len(a), Len(b)) <= 1 <=> Near(a, b, Len(a), Len(b))
<1> DEFINE n == Len(a)  m == Len(b)
<1>1. n \in Nat /\ m \in Nat
  BY LenProperties
<1>2. /\ \A j \in 0 .. m : D(r, 0, j) = j
      /\ \A i \in 0 .. n : D(r, i, 0) = i
  BY Borders
<1>3. \A i \in 1 .. n, j \in 1 .. m :
         /\ D(r, i, j) = 0 <=> a[i] = b[j] /\ D(r, i - 1, j - 1) = 0
         /\ D(r, i, j) <= 1 <=>
              \/ D(r, i - 1, j) = 0 \/ D(r, i, j - 1) = 0 \/ D(r, i - 1, j - 1) = 0
              \/ a[i] = b[j] /\ D(r, i - 1, j - 1) <= 1
              \/ Swapped(a, b, i, j) /\ D(r, i - 2, j - 2) = 0
  BY Recurrence
<1> HIDE DEF n, m
<1> DEFINE T == {i \in 0 .. n : \A j \in 0 .. m : D(r, i, j) = 0 <=> i = j /\ Same(a, b, i)}
<1>4. 0 \in T
  <2>1. Same(a, b, 0) /\ 0 \in 0 .. n
    BY <1>1 DEF Same
  <2>2. \A j \in 0 .. m : D(r, 0, j) = 0 <=> 0 = j
    BY <1>2
  <2> QED
    BY <2>1, <2>2
<1>5. ASSUME NEW i \in 1 .. n, i - 1 \in T PROVE i \in T
  <2>1. ASSUME NEW j \in 0 .. m
        PROVE  D(r, i, j) = 0 <=> i = j /\ Same(a, b, i)
    <3>1. CASE j = 0
      <4>1. i # 0 /\ i \in 0 .. n
        BY <1>1
      <4>2. D(r, i, 0) = i
        BY <1>2, <4>1
      <4> QED
        BY <3>1, <4>1, <4>2
    <3>2. CASE j # 0
      <4>1. j \in 1 .. m /\ j - 1 \in 0 .. m /\ (i = j <=> i - 1 = j - 1) /\ i \in Nat \ {0}
        BY <1>1, <3>2
      <4>2. D(r, i, j) = 0 <=> a[i] = b[j] /\ D(r, i - 1, j - 1) = 0
        BY <1>3, <4>1
      <4>3. D(r, i - 1, j - 1) = 0 <=> i - 1 = j - 1 /\ Same(a, b, i - 1)
        BY <1>5, <4>1
      <4>4. Same(a, b, i) <=> Same(a, b, i - 1) /\ a[i] = b[i]
        BY <4>1, SameNext
      <4> QED
        BY <4>1, <4>2, <4>3, <4>4
    <3> QED
      BY <3>1, <3>2
  <2>2. i \in 0 .. n
    BY <1>1
  <2> QED
    BY <2>1, <2>2
<1>6. \A i \in 0 .. n : i \in T
  <2> HIDE DEF T
  <2> QED
    BY <1>1, <1>4, <1>5, UpTo
<1>7. \A i \in 0 .. n, j \in 0 .. m : D(r, i, j) = 0 <=> i = j /\ Same(a, b, i)
  BY <1>6
<1> HIDE DEF T
<1> DEFINE U == {i \in 0 .. n : \A j \in 0 .. m : D(r, i, j) <= 1 <=> Near(a, b, i, j)}
<1>8. ASSUME NEW j \in 0 .. m PROVE Near(a, b, 0, j) <=> j <= 1
  <2>1. CASE j = 0
    BY <2>1 DEF Near, Same
  <2>2. CASE j = 1
    <3>1. 1 \in 1 .. 1 /\ (\A k : k \notin 1 .. 1 - 1)
      OBVIOUS
    <3>2. OneLess(b, a, 1)
      BY <3>1 DEF OneLess
    <3> QED
      BY <2>2, <3>2 DEF Near
  <2>3. CASE j # 0 /\ j # 1
    BY <1>1, <2>3 DEF Near
  <2> QED
    BY <2>1, <2>2, <2>3
<1>9. ASSUME NEW i \in 1 .. n PROVE Near(a, b, i, 0) <=> i <= 1
  <2>1. CASE i = 1
    <3>1. 1 \in 1 .. 1 /\ (\A k : k \notin 1 .. 1 - 1)
      OBVIOUS
    <3>2. OneLess(a, b, 1)
      BY <3>1 DEF OneLess
    <3> QED
      BY <2>1, <3>2 DEF Near
  <2>2. CASE i # 1
    BY <1>1, <2>2 DEF Near
  <2> QED
    BY <2>1, <2>2
<1>10. 0 \in U
  <2>1. 0 \in 0 .. n
    BY <1>1
  <2>2. \A j \in 0 .. m : D(r, 0, j) <= 1 <=> Near(a, b, 0, j)
    BY <1>2, <1>8
  <2> QED
    BY <2>1, <2>2
<1>11. ASSUME NEW i \in 1 .. n, i - 1 \in U PROVE i \in U
  <2>1. ASSUME NEW j \in 0 .. m
        PROVE  D(r, i, j) <= 1 <=> Near(a, b, i, j)
    <3>1. CASE j = 0
      <4>1. i \in 0 .. n
        BY <1>1
      <4>2. D(r, i, 0) = i
        BY <1>2, <4>1
      <4> QED
        BY <1>9, <3>1, <4>2
    <3>2. CASE j # 0
      <4>1. /\ j \in 1 .. m /\ j - 1 \in 0 .. m /\ i \in 0 .. n /\ i - 1 \in 0 .. n
            /\ i \in Nat \ {0} /\ j \in Nat \ {0}
            /\ i > 1 => i - 2 \in 0 .. n
            /\ j > 1 => j - 2 \in 0 .. m
        BY <1>1, <3>2
      <4>2. D(r, i, j) <= 1 <=>
              \/ D(r, i - 1, j) = 0 \/ D(r, i, j - 1) = 0 \/ D(r, i - 1, j - 1) = 0
              \/ a[i] = b[j] /\ D(r, i - 1, j - 1) <= 1
              \/ Swapped(a, b, i, j) /\ D(r, i - 2, j - 2) = 0
        BY <1>3, <4>1
      <4>3. /\ D(r, i - 1, j) = 0 <=> i - 1 = j /\ Same(a, b, i - 1)
            /\ D(r, i, j - 1) = 0 <=> i = j - 1 /\ Same(a, b, i)
            /\ D(r, i - 1, j - 1) = 0 <=> i - 1 = j - 1 /\ Same(a, b, i - 1)
        BY <1>7, <4>1
      <4>4. Swapped(a, b, i, j) =>
              (D(r, i - 2, j - 2) = 0 <=> i - 2 = j - 2 /\ Same(a, b, i - 2))
        BY <1>7, <4>1 DEF Swapped
      <4>5. D(r, i - 1, j - 1) <= 1 <=> Near(a, b, i - 1, j - 1)
        BY <1>11, <4>1
      <4>6. Near(a, b, i, j) <=>
              \/ i - 1 = j /\ Same(a, b, j)
              \/ i = j - 1 /\ Same(a, b, i)
              \/ i - 1 = j - 1 /\ Same(a, b, i - 1)
              \/ a[i] = b[j] /\ Near(a, b, i - 1, j - 1)
              \/ Swapped(a, b, i, j) /\ i - 2 = j - 2 /\ Same(a, b, i - 2)
        BY <4>1, NearNext
      <4> QED
        BY <4>2, <4>3, <4>4, <4>5, <4>6
    <3> QED
      BY <3>1, <3>2
  <2>2. i \in 0 .. n
    BY <1>1
  <2> QED
    BY <2>1, <2>2
<1>12. \A i \in 0 .. n : i \in U
  <2> HIDE DEF U
  <2> QED
    BY <1>1, <1>10, <1>11, UpTo
<1>13. n \in 0 .. n /\ m \in 0 .. m
  BY <1>1
<1>14. D(r, n, m) <= 1 <=> Near(a, b, n, m)
  BY <1>12, <1>13
<1> QED
  BY <1>14 DEF n, m

-----------------------------------------------------------------------------
(* The edits *)

LEMMA RemoveAtIs ==
  ASSUME NEW a \in Seq(STRING), NEW i \in 1 .. Len(a)
  PROVE  /\ RemoveAt(a, i) \in Seq(STRING) /\ Len(RemoveAt(a, i)) = Len(a) - 1
         /\ \A k \in 1 .. i - 1 : RemoveAt(a, i)[k] = a[k]
         /\ \A k \in i .. Len(a) - 1 : RemoveAt(a, i)[k] = a[k + 1]
<1> DEFINE n == Len(a)  s == SubSeq(a, 1, i - 1)  t == SubSeq(a, i + 1, n)  w == s \o t
<1>1. n \in Nat /\ i \in 1 .. n /\ \A k \in 1 .. n : a[k] \in STRING
  BY LenProperties, ElementOfSeq
<1> HIDE DEF n
<1>2. s \in Seq(STRING) /\ Len(s) = i - 1 /\ \A k \in 1 .. i - 1 : s[k] = a[k]
  <2>1. /\ 1 \in Int /\ i - 1 \in Int /\ \A k \in 1 .. i - 1 : a[k] \in STRING
        /\ (IF 1 <= i - 1 THEN (i - 1) - 1 + 1 ELSE 0) = i - 1
        /\ (i - 1) - 1 + 1 = i - 1
        /\ \A k \in 1 .. i - 1 : 1 + k - 1 = k
    BY <1>1
  <2>2. /\ s \in Seq(STRING) /\ Len(s) = IF 1 <= i - 1 THEN (i - 1) - 1 + 1 ELSE 0
        /\ \A k \in 1 .. (i - 1) - 1 + 1 : s[k] = a[1 + k - 1]
    <3> HIDE DEF s
    <3> QED
      BY <2>1, SubSeqProperties DEF s
  <2> HIDE DEF s
  <2> QED
    BY <2>1, <2>2
<1>3. t \in Seq(STRING) /\ Len(t) = n - i /\ \A k \in 1 .. n - i : t[k] = a[i + k]
  <2>1. /\ i + 1 \in Int /\ n \in Int /\ \A k \in i + 1 .. n : a[k] \in STRING
        /\ (IF i + 1 <= n THEN n - (i + 1) + 1 ELSE 0) = n - i
        /\ n - (i + 1) + 1 = n - i
        /\ \A k \in 1 .. n - i : (i + 1) + k - 1 = i + k
    BY <1>1
  <2>2. /\ t \in Seq(STRING) /\ Len(t) = IF i + 1 <= n THEN n - (i + 1) + 1 ELSE 0
        /\ \A k \in 1 .. n - (i + 1) + 1 : t[k] = a[(i + 1) + k - 1]
    <3> HIDE DEF t
    <3> QED
      BY <2>1, SubSeqProperties DEF t
  <2> HIDE DEF t
  <2> QED
    BY <2>1, <2>2
<1> HIDE DEF s, t
<1>4. /\ w \in Seq(STRING) /\ Len(w) = Len(s) + Len(t)
      /\ \A k \in 1 .. Len(s) + Len(t) : w[k] = IF k <= Len(s) THEN s[k] ELSE t[k - Len(s)]
  BY <1>2, <1>3, ConcatProperties
<1> HIDE DEF w
<1>5. Len(s) + Len(t) = n - 1
  BY <1>1, <1>2, <1>3
<1>6. Len(w) = n - 1 /\ \A k \in 1 .. n - 1 : w[k] = IF k <= i - 1 THEN s[k] ELSE t[k - (i - 1)]
  BY <1>2, <1>4, <1>5
<1>7. \A k \in 1 .. i - 1 : w[k] = a[k]
  <2>1. \A k \in 1 .. i - 1 : k \in 1 .. n - 1 /\ k <= i - 1
    BY <1>1
  <2> QED
    BY <1>2, <1>6, <2>1
<1>8. \A k \in i .. n - 1 : w[k] = a[k + 1]
  <2> TAKE k \in i .. n - 1
  <2>1. /\ k \in 1 .. n - 1 /\ ~ (k <= i - 1) /\ k - (i - 1) \in 1 .. n - i
        /\ i + (k - (i - 1)) = k + 1
    BY <1>1
  <2>2. w[k] = t[k - (i - 1)]
    BY <1>6, <2>1
  <2>3. t[k - (i - 1)] = a[i + (k - (i - 1))]
    BY <1>3, <2>1
  <2> QED
    BY <2>1, <2>2, <2>3
<1>9. RemoveAt(a, i) = w
  BY DEF RemoveAt, w, s, t, n
<1> QED
  BY <1>4, <1>6, <1>7, <1>8, <1>9 DEF n

LEMMA RemovedIs ==
  ASSUME NEW a \in Seq(STRING), NEW b \in Seq(STRING)
  PROVE  (\E i \in DOMAIN a : RemoveAt(a, i) = b) <=>
           Len(a) = Len(b) + 1 /\ OneLess(a, b, Len(a))
<1> DEFINE n == Len(a)  m == Len(b)
<1>1. n \in Nat /\ m \in Nat /\ DOMAIN a = 1 .. n
  BY LenProperties
<1>2. ASSUME NEW i \in 1 .. n, RemoveAt(a, i) = b
      PROVE  n = m + 1 /\ OneLess(a, b, n)
  <2>1. /\ m = n - 1
        /\ \A k \in 1 .. i - 1 : b[k] = a[k]
        /\ \A k \in i .. n - 1 : b[k] = a[k + 1]
    BY <1>2, RemoveAtIs
  <2> HIDE DEF n, m
  <2>2. n = m + 1
    BY <1>1, <2>1
  <2> QED
    BY <2>1, <2>2 DEF OneLess
<1>3. ASSUME n = m + 1, OneLess(a, b, n)
      PROVE  \E i \in 1 .. n : RemoveAt(a, i) = b
  <2>1. PICK p \in 1 .. n : /\ \A k \in 1 .. p - 1 : a[k] = b[k]
                            /\ \A k \in p .. n - 1 : a[k + 1] = b[k]
    BY <1>3 DEF OneLess
  <2> DEFINE w == RemoveAt(a, p)
  <2>2. /\ w \in Seq(STRING) /\ Len(w) = n - 1
        /\ \A k \in 1 .. p - 1 : w[k] = a[k]
        /\ \A k \in p .. n - 1 : w[k] = a[k + 1]
    BY RemoveAtIs
  <2> HIDE DEF w
  <2>3. Len(w) = m
    <3> HIDE DEF n, m
    <3> QED
      BY <1>1, <1>3, <2>2
  <2>4. \A k \in 1 .. m : k \in 1 .. p - 1 \/ k \in p .. n - 1
    <3> HIDE DEF n, m
    <3> QED
      BY <1>1, <1>3
  <2>5. \A k \in 1 .. m : w[k] = b[k]
    <3> HIDE DEF n, m
    <3> QED
      BY <2>1, <2>2, <2>4
  <2>6. w = b
    BY <2>2, <2>3, <2>5, SeqEqual
  <2> QED
    BY <2>6 DEF w
<1> HIDE DEF n, m
<1> QED
  BY <1>1, <1>2, <1>3 DEF n, m

LEMMA SwappedIs ==
  ASSUME NEW a \in Seq(STRING), NEW b \in Seq(STRING), Len(a) = Len(b),
         NEW i \in 1 .. Len(a) - 1
  PROVE  b = [a EXCEPT ![i] = a[i + 1], ![i + 1] = a[i]] <=>
           /\ a[i] = b[i + 1] /\ a[i + 1] = b[i]
           /\ \A k \in (1 .. Len(a)) \ {i, i + 1} : a[k] = b[k]
<1> DEFINE n == Len(a)  w == [a EXCEPT ![i] = a[i + 1], ![i + 1] = a[i]]
<1>1. n \in Nat /\ a \in [1 .. n -> STRING] /\ b \in [1 .. n -> STRING]
  BY LenProperties
<1>2. i \in 1 .. n - 1
  OBVIOUS
<1> HIDE DEF n
<1>3. i \in 1 .. n /\ i + 1 \in 1 .. n /\ i # i + 1
  BY <1>1, <1>2
<1>4. /\ w = [k \in 1 .. n |-> w[k]]
      /\ w[i] = a[i + 1] /\ w[i + 1] = a[i]
      /\ \A k \in (1 .. n) \ {i, i + 1} : w[k] = a[k]
  BY <1>1, <1>3
<1> HIDE DEF w
<1>5. b = w <=> \A k \in 1 .. n : b[k] = w[k]
  BY <1>1, <1>4
<1>6. b = w <=> /\ a[i] = b[i + 1] /\ a[i + 1] = b[i]
                /\ \A k \in (1 .. n) \ {i, i + 1} : a[k] = b[k]
  BY <1>3, <1>4, <1>5
<1> QED
  BY <1>6 DEF w, n

LEMMA NearIsOneEdit ==
  ASSUME NEW a \in Seq(STRING), NEW b \in Seq(STRING), a # b
  PROVE  Near(a, b, Len(a), Len(b)) <=> OneEdit(a, b)
<1> DEFINE n == Len(a)  m == Len(b)
<1>1. n \in Nat /\ m \in Nat /\ DOMAIN a = 1 .. n /\ DOMAIN b = 1 .. m
  BY LenProperties
<1>2. (\E i \in DOMAIN a : RemoveAt(a, i) = b) <=> n = m + 1 /\ OneLess(a, b, n)
  BY RemovedIs
<1>3. (\E i \in DOMAIN b : RemoveAt(b, i) = a) <=> m = n + 1 /\ OneLess(b, a, m)
  BY RemovedIs
<1>4. n = m => ~ Same(a, b, n)
  <2> SUFFICES ASSUME n = m, Same(a, b, n) PROVE a = b
    OBVIOUS
  <2>1. \A k \in 1 .. Len(a) : a[k] = b[k]
    BY DEF Same
  <2> QED
    BY <2>1, SeqEqual
<1>5. n = m /\ OneOther(a, b, n) <=>
        n = m /\ \E i \in DOMAIN a : \A j \in DOMAIN a \ {i} : a[j] = b[j]
  BY <1>1 DEF OneOther
<1>6. n = m => (OneSwap(a, b, n) <=>
        \E i \in 1 .. n - 1 : b = [a EXCEPT ![i] = a[i + 1], ![i + 1] = a[i]])
  <2> HAVE n = m
  <2>1. \A i \in 1 .. n - 1 :
          b = [a EXCEPT ![i] = a[i + 1], ![i + 1] = a[i]] <=>
            /\ a[i] = b[i + 1] /\ a[i + 1] = b[i]
            /\ \A k \in (1 .. n) \ {i, i + 1} : a[k] = b[k]
    BY SwappedIs
  <2> HIDE DEF n, m
  <2> QED
    BY <2>1 DEF OneSwap
<1> HIDE DEF n, m
<1> QED
  BY <1>2, <1>3, <1>4, <1>5, <1>6 DEF Near, OneEdit, n, m

\* The names the transform warns of are those one edit away.
LEMMA DistanceIsOneEdit ==
  ASSUME NEW a \in Seq(STRING), NEW b \in Seq(STRING), a # b
  PROVE  OsaDistance(a, b) <= 1 <=> OneEdit(a, b)
<1>1. PICK r : /\ IsTable(a, b, r, Len(a))
               /\ OsaDistance(a, b) = r[Len(a) + 1][Len(b) + 1]
  BY DistanceInTable
<1>2. D(r, Len(a), Len(b)) <= 1 <=> Near(a, b, Len(a), Len(b))
  BY <1>1, TableCounts
<1> QED
  BY <1>1, <1>2, NearIsOneEdit DEF D


LEMMA WarningsAre ==
  ASSUME NEW d, DeclarationIs(d)
  PROVE  PartitionDecorators(d).warnings =
           {n \in {x.name : x \in ToSet(d.decorators)} \ IntentMarkers :
              \E m \in IntentMarkers : OneEdit(n, m)}
<1> DEFINE s == ToSet(d.decorators)
<1>1. \A x \in s : x.name \in Seq(STRING)
  <2>1. \A i \in DOMAIN d.decorators : d.decorators[i] \in [name : Seq(STRING), args : BOOLEAN]
    BY ElementOfSeq, LenProperties DEF DeclarationIs
  <2> QED
    BY <2>1 DEF ToSet
<1> HIDE DEF s
<1>2. \A m \in IntentMarkers : m \in Seq(STRING)
  BY MarkersAssumption
<1>3. ASSUME NEW n \in Seq(STRING), n \notin IntentMarkers
      PROVE  NearestMarker(n) # {} <=> \E m \in IntentMarkers : OneEdit(n, m)
  <2>1. \A m \in IntentMarkers : OsaDistance(n, m) <= 1 <=> OneEdit(n, m)
    BY <1>2, <1>3, DistanceIsOneEdit
  <2> QED
    BY <2>1 DEF NearestMarker
<1>4. PartitionDecorators(d).warnings =
        {x.name : x \in {y \in s : y.name \notin IntentMarkers /\ NearestMarker(y.name) # {}}}
  BY DEF PartitionDecorators, s
<1>5. \A x \in s : x.name \notin IntentMarkers =>
        (NearestMarker(x.name) # {} <=> \E m \in IntentMarkers : OneEdit(x.name, m))
  BY <1>1, <1>3
<1>6. {x.name : x \in {y \in s : y.name \notin IntentMarkers /\ NearestMarker(y.name) # {}}} =
        {n \in {x.name : x \in s} \ IntentMarkers : \E m \in IntentMarkers : OneEdit(n, m)}
  <2> HIDE DEF s
  <2> QED
    BY <1>5
<1> QED
  BY <1>4, <1>6 DEF s

\* Whatever the names: a build that goes through has warned of exactly those a
\* letter more, less or other, or two neighbours swapped, make a marker of.
THEOREM NearMissAlwaysWarned == Spec => []NearMissWarned
<1>1. ASSUME Answered PROVE NearMissWarned
  <2> SUFFICES ASSUME asked.op = "build", answer.outcome = "builds"
               PROVE  NearMissWarned
    BY DEF NearMissWarned, Built
  <2>1. PICK noManifest \in BOOLEAN : answer = AfterParse(asked.y, asked.x, lines, noManifest)
    BY <1>1 DEF Answered
  <2> DEFINE warned == UNION {PartitionDecorators(d).warnings : d \in asked.x}
             namesOf(d) == {x.name : x \in ToSet(d.decorators)}
             near == {n \in (UNION {namesOf(d) : d \in asked.x}) \ IntentMarkers :
                        \E m \in IntentMarkers : OneEdit(n, m)}
  <2>2. answer.warnings = warned
    BY <2>1 DEF AfterParse, Result
  <2>3. \A d \in asked.x : PartitionDecorators(d).warnings =
          {n \in namesOf(d) \ IntentMarkers : \E m \in IntentMarkers : OneEdit(n, m)}
    BY <1>1, WarningsAre DEF Answered
  <2>4. warned = near
    <3> HIDE DEF namesOf
    <3> QED
      BY <2>3
  <2> QED
    BY <2>2, <2>4 DEF NearMissWarned
<1> QED
  BY <1>1, AnsweredAlways, PTL
=============================================================================
