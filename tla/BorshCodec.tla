----------------------------- MODULE BorshCodec -----------------------------
(***************************************************************************)
(* Borsh as the SDKs write and read it.  Bytes are numbers; a byte string  *)
(* or a string is the sequence of its bytes, an address or a hash one of   *)
(* thirty-two, and a vector of u64 the sequence of its numbers.            *)
(***************************************************************************)
EXTENDS Integers, SequencesExt

Variable == {"bytes", "string"}
Prefixed == Variable \cup {"vec_u64"}
Signed   == {"i8", "i16", "i32", "i64", "i128"}

\* The bytes of a value of a fixed type.
Width ==
  [u8 |-> 1, i8 |-> 1, bool |-> 1, u16 |-> 2, i16 |-> 2, u32 |-> 4, i32 |-> 4,
   u64 |-> 8, i64 |-> 8, u128 |-> 16, i128 |-> 16, address |-> 32, hash32 |-> 32]

\* A negative number keeps its sign instead.
ToLeBytesSigned(v, w) ==
  LET rest[k \in 0 .. w] == IF k = 0 THEN v ELSE rest[k - 1] \div 256
  IN  [k \in 1 .. w |-> IF v < 0 THEN rest[k - 1] ELSE rest[k - 1] % 256]

\* The w low bytes of v in two's complement, the lowest first.
ToLeBytes(v, w) ==
  LET rest[k \in 0 .. w] == IF k = 0 THEN v ELSE rest[k - 1] \div 256
  IN  [k \in 1 .. w |-> rest[k - 1] % 256]

FromLeBytes(b, signed) ==
  FoldRight(LAMBDA x, acc : acc * 256 + x, b,
            IF signed /\ b[Len(b)] > 127 THEN -1 ELSE 0)

\* The bytes of a fixed value: raw, one, or the number's.
FixedBytes(ty, v) ==
  IF ty \in {"address", "hash32"} THEN v
  ELSE IF ty = "bool" THEN <<IF v THEN 1 ELSE 0>>
  ELSE ToLeBytes(v, Width[ty])

ReadFixed(ty, b) ==
  IF ty \in {"address", "hash32"} THEN b
  ELSE IF ty = "bool" THEN b[1] # 0
  ELSE FromLeBytes(b, ty \in Signed)

-----------------------------------------------------------------------------
(* The values of a type *)

Ascii(b) == \A i \in DOMAIN b : b[i] < 128

Ty == DOMAIN Width \cup Prefixed

\* What is left of a number when all its w bytes but the highest are taken.
Highest(v, w) ==
  LET rest[k \in 0 .. w - 1] == IF k = 0 THEN v ELSE rest[k - 1] \div 256
  IN  rest[w - 1]

InWidth(v, w, signed) ==
  v \in Int /\ Highest(v, w) \in IF signed THEN -128 .. 127 ELSE 0 .. 255

\* A count is a u32, and one of 2^31 or more could not be read back.
MaxCount == 2147483647

HasType(ty, v) ==
  /\ ty = "bool" => v \in BOOLEAN
  /\ ty \in {"address", "hash32"} => v \in Seq(0 .. 255) /\ Len(v) = 32
  /\ ty \in Variable => v \in Seq(0 .. 255) /\ Len(v) <= MaxCount
  /\ ty = "string" => Ascii(v)
  /\ ty = "vec_u64" =>
       v \in Seq(Nat) /\ Len(v) <= MaxCount /\ \A i \in DOMAIN v : InWidth(v[i], 8, FALSE)
  /\ ty \in DOMAIN Width \ {"bool", "address", "hash32"} =>
       InWidth(v, Width[ty], ty \in Signed)

\* The tuples with an element of each of the sets.
TuplesOf(sets) ==
  FoldLeft(LAMBDA S, T : {Append(s, v) : s \in S, v \in T}, {<<>>}, sets)

-----------------------------------------------------------------------------
(* Encoding a tuple of fields: one after the other *)

\* A vector is its count and its elements.
VecU64(v) == ToLeBytes(Len(v), 4) \o FlattenSeq([i \in DOMAIN v |-> ToLeBytes(v[i], 8)])

Encode(ty, v) ==
  IF ty = "vec_u64" THEN VecU64(v)
  ELSE IF ty \in Variable THEN ToLeBytes(Len(v), 4) \o v
  ELSE FixedBytes(ty, v)

EncodeAll(tys, values) ==
  FlattenSeq([i \in DOMAIN tys |-> Encode(tys[i], values[i])])

-----------------------------------------------------------------------------
(* Decoding with a cursor.                                                  *)

Cursor(ok, pos, values) == [ok |-> ok, pos |-> pos, values |-> values]
NewDecoder  == Cursor(TRUE, 0, <<>>)

\* The next n bytes, if there are.  A length of 2^31 or more is a negative
\* number: Go's take refuses it, AssemblyScript's does not, but then fails in
\* the allocation or in a copy that leaves the memory.  A sum of position and
\* length that exceeds 32 bits passes the check of both and fails right behind
\* it, in Go's slice expression and in AssemblyScript's allocation.
Has(data, pos, n) == n >= 0 /\ n <= Len(data) - pos
Taken(data, pos, n) == SubSeq(data, pos + 1, pos + n)

ReadVecU64(b) ==
  [i \in 1 .. Len(b) \div 8 |-> FromLeBytes(SubSeq(b, 8 * i - 7, 8 * i), FALSE)]

\* String.UTF8.decodeUnsafe checks nothing: of bytes that are no UTF-8 it makes
\* some other text, for which one unit stands that is no byte.
Garbled == 65533
DecodeUnsafe(b) == IF Ascii(b) THEN b ELSE <<Garbled>>

\* One field, with the bytes a decoder takes for a boolean and what it does
\* with the bytes of a string: "strict" refuses what is no UTF-8, "raw" keeps
\* it and "decoded" makes what it can of it.  A count of words beyond the bytes
\* there are is not multiplied: it fails as it is.
Field(data, cur, ty, bools, text) ==
  LET from  == IF ty \in Prefixed THEN cur.pos + 4 ELSE cur.pos
      count == IF Has(data, cur.pos, 4)
               THEN FromLeBytes(Taken(data, cur.pos, 4), TRUE) ELSE -1
      n     == IF ty \notin Prefixed THEN Width[ty]
               ELSE IF ty = "vec_u64" /\ count <= Len(data) THEN 8 * count
               ELSE count
      b     == Taken(data, from, n)
  IN  IF \/ ~ cur.ok
         \/ ~ Has(data, from, n)
         \/ ty = "bool" /\ b[1] \notin bools
         \/ ty = "string" /\ text = "strict" /\ ~ Ascii(b)
      THEN Cursor(FALSE, cur.pos, <<>>)
      ELSE Cursor(TRUE, from + n,
                  Append(cur.values,
                         CASE ty = "string"  -> IF text = "decoded" THEN DecodeUnsafe(b) ELSE b
                           [] ty = "bytes"   -> b
                           [] ty = "vec_u64" -> ReadVecU64(b)
                           [] OTHER          -> ReadFixed(ty, b)))

\* The borsh crate's deserialize, and try_from_slice, which wants it all.
RustPrefix(tys, data) ==
  FoldLeft(LAMBDA cur, ty : Field(data, cur, ty, {0, 1}, "strict"), NewDecoder, tys)

TryFromSlice(tys, data) ==
  LET cur == RustPrefix(tys, data) IN [cur EXCEPT !.ok = cur.ok /\ cur.pos = Len(data)]

\* The comparison with one is off by one: only a zero is a boolean.
GoDecoderNoTrue(tys, data) ==
  FoldLeft(LAMBDA cur, ty : Field(data, cur, ty, {0}, "raw"), NewDecoder, tys)

\* Go's Decoder: what is left over is not looked at.
GoDecoder(tys, data) ==
  FoldLeft(LAMBDA cur, ty : Field(data, cur, ty, {0, 1}, "raw"), NewDecoder, tys)

\* AssemblyScript's BorshDecoder: any byte but zero is true, and no bytes of a
\* string are refused.
BorshDecoder(tys, data) ==
  FoldLeft(LAMBDA cur, ty : Field(data, cur, ty, 0 .. 255, "decoded"), NewDecoder, tys)
=============================================================================
