------------------------ MODULE TypedStorageProofs --------------------------
(***************************************************************************)
(* No two entries of a contract's storage share a slot; what lies in a     *)
(* slot is of its entry's type and reads alike for every implementation;   *)
(* and TypedStorage implements TypedMap.                                   *)
(***************************************************************************)
EXTENDS TypedStorage, SequenceTheorems, TLAPS

Bytes == Seq(Nat)

\* Concatenation, for the steps that need to know nothing about it.
Cat(a, b) == a \o b

-----------------------------------------------------------------------------
(* Concatenations *)

LEMMA ConcatCancel ==
  ASSUME NEW a \in Bytes, NEW b \in Bytes, NEW x \in Bytes, NEW y \in Bytes,
         a \o x = b \o y, Len(a) = Len(b)
  PROVE  a = b /\ x = y
<1>1. Len(a \o x) = Len(a) + Len(x) /\ Len(b \o y) = Len(b) + Len(y)
  BY ConcatProperties DEF Bytes
<1>2. Len(x) = Len(y)
  BY <1>1, LenProperties DEF Bytes
<1>3. ASSUME NEW j \in 1 .. Len(a) PROVE a[j] = b[j]
  <2>1. (a \o x)[j] = a[j] /\ (b \o y)[j] = b[j]
    BY ConcatProperties, LenProperties DEF Bytes
  <2> QED
    BY <2>1
<1>4. ASSUME NEW j \in 1 .. Len(x) PROVE x[j] = y[j]
  <2>1. Len(a) \in Nat /\ Len(x) \in Nat
    BY LenProperties DEF Bytes
  <2> DEFINE at == Len(a) + j
  <2>2. at \in 1 .. Len(a) + Len(x) /\ at > Len(a) /\ at - Len(a) = j
    BY <2>1
  <2>3. /\ (a \o x)[at] = IF at <= Len(a) THEN a[at] ELSE x[at - Len(a)]
        /\ (b \o y)[at] = IF at <= Len(b) THEN b[at] ELSE y[at - Len(b)]
    <3> HIDE DEF at
    <3>1. at \in 1 .. Len(a) + Len(x) /\ at \in 1 .. Len(b) + Len(y)
      BY <1>2, <2>2
    <3>2. (a \o x)[at] = IF at <= Len(a) THEN a[at] ELSE x[at - Len(a)]
      BY <3>1, ConcatProperties DEF Bytes
    <3>3. (b \o y)[at] = IF at <= Len(b) THEN b[at] ELSE y[at - Len(b)]
      BY <3>1, ConcatProperties DEF Bytes
    <3> QED
      BY <3>2, <3>3
  <2> QED
    BY <2>1, <2>2, <2>3
<1> QED
  BY <1>2, <1>3, <1>4, SeqEqual DEF Bytes

LEMMA ConcatPrefix ==
  ASSUME NEW a \in Bytes, NEW b \in Bytes, NEW x \in Bytes, NEW y \in Bytes,
         a \o x = b \o y, Len(a) <= Len(b)
  PROVE  SubSeq(b, 1, Len(a)) = a
<1>1. Len(a) \in Nat /\ Len(b) \in Nat
  BY LenProperties DEF Bytes
<1> DEFINE p == SubSeq(b, 1, Len(a))
<1>2. p \in Bytes /\ Len(p) = Len(a) /\ \A j \in 1 .. Len(a) : p[j] = b[j]
  BY <1>1, SubSeqProperties DEF Bytes
<1>3. ASSUME NEW j \in 1 .. Len(a) PROVE a[j] = b[j]
  <2>1. j \in 1 .. Len(b)
    BY <1>1
  <2>2. (a \o x)[j] = a[j] /\ (b \o y)[j] = b[j]
    BY <1>1, <2>1, ConcatProperties, LenProperties DEF Bytes
  <2> QED
    BY <2>2
<1> QED
  BY <1>2, <1>3, SeqEqual DEF Bytes

-----------------------------------------------------------------------------
(* Keys *)

USE DEF Bytes

\* One encoded key cannot be the beginning of another of its type.
LEMMA KeyPrefixFree ==
  ASSUME NEW t \in Scalar, t.kind \notin {"vec", "custom"},
         NEW k \in Bytes, NEW l \in Bytes, HasType(t, k), HasType(t, l),
         NEW x \in Bytes, NEW y \in Bytes,
         Cat(EncodeKey(t, k), x) = Cat(EncodeKey(t, l), y)
  PROVE  k = l /\ x = y
<1>9. EncodeKey(t, k) \o x = EncodeKey(t, l) \o y
  BY DEF Cat
<1>0. Len(k) \in Nat /\ Len(l) \in Nat
  BY LenProperties
<1>1. CASE t.kind \in {"fixed", "bool"}
  <2>1. EncodeKey(t, k) = k /\ EncodeKey(t, l) = l
    BY <1>1 DEF EncodeKey
  <2>2. Len(k) = Len(l)
    <3>1. CASE t.kind = "fixed"
      BY <3>1 DEF HasType
    <3>2. CASE t.kind = "bool"
      <4>1. k \in {<<0>>, <<1>>} /\ l \in {<<0>>, <<1>>}
        BY <3>2 DEF HasType
      <4> QED
        BY <4>1
    <3> QED
      BY <1>1, <3>1, <3>2
  <2> QED
    BY <1>9, <2>1, <2>2, ConcatCancel
<1>2. CASE t.kind \in {"bytes", "string"}
  <2> DEFINE p == <<Len(k)>> \o k
             q == <<Len(l)>> \o l
  <2>1. EncodeKey(t, k) = p /\ EncodeKey(t, l) = q
    BY <1>2 DEF EncodeKey
  <2>2. /\ p \in Bytes /\ Len(p) = 1 + Len(k) /\ p[1] = Len(k)
        /\ q \in Bytes /\ Len(q) = 1 + Len(l) /\ q[1] = Len(l)
    BY <1>0, ConcatProperties
  <2>3. (p \o x)[1] = p[1] /\ (q \o y)[1] = q[1]
    <3> HIDE DEF p, q
    <3> QED
      BY <1>0, <2>2, ConcatProperties, LenProperties
  <2>4. Len(k) = Len(l)
    BY <1>9, <2>1, <2>2, <2>3
  <2>5. p = q /\ x = y
    <3> HIDE DEF p, q
    <3>1. p \o x = q \o y
      BY <1>9, <2>1
    <3>2. p \in Bytes /\ q \in Bytes /\ Len(p) = Len(q)
      BY <2>2, <2>4
    <3> QED
      BY <3>1, <3>2, ConcatCancel
  <2>6. <<Len(k)>> \in Bytes /\ <<Len(l)>> \in Bytes
    BY <1>0
  <2>7. Len(<<Len(k)>>) = Len(<<Len(l)>>)
    OBVIOUS
  <2>8. <<Len(k)>> \o k = <<Len(l)>> \o l
    BY <2>5
  <2>9. k = l
    BY <2>6, <2>7, <2>8, ConcatCancel
  <2> QED
    BY <2>5, <2>9
<1>3. t.kind \in ScalarKind
  BY DEF Scalar
<1> QED
  BY <1>1, <1>2, <1>3 DEF ScalarKind

-----------------------------------------------------------------------------
(* Entries *)

\* What an entry is made of.
LEMMA EntryShape ==
  ASSUME NEW e \in Entry
  PROVE  /\ e = <<e[1], e[2]>>
         /\ e[1] \in Name /\ e[1] \in Bytes
         /\ Owner(e[1]) \in Impl /\ Declares(Owner(e[1]), e[1])
         /\ FieldOf(e) \in Field /\ LowerField(FieldOf(e))
         /\ e[2] \in Seq(Bytes)
         /\ Len(e[2]) = Len(FieldOf(e).keys)
         /\ \A j \in DOMAIN e[2] : HasType(FieldOf(e).keys[j], e[2][j])
<1>1. /\ e \in Name \X UNION {[1 .. a -> Key] : a \in 0 .. 3}
      /\ \E i \in Impl : Declares(i, e[1])
      /\ IsEntry(FieldOf(e), e[2])
  BY DEF Entry
<1>2. e = <<e[1], e[2]>> /\ e[1] \in Name
  BY <1>1
<1>3. Owner(e[1]) \in Impl /\ Declares(Owner(e[1]), e[1])
  BY <1>1 DEF Owner
<1>4. /\ Name \subseteq Bytes /\ Key \subseteq Bytes
      /\ Code \in [Impl -> [Name -> Field \cup {Undeclared}]]
      /\ \A i \in Impl, n \in Name : Declares(i, n) => LowerField(Code[i][n])
  BY StorageAssumption
<1>5. FieldOf(e) \in Field \cup {Undeclared} /\ FieldOf(e) # Undeclared
  BY <1>2, <1>3, <1>4 DEF FieldOf, Declares
<1>6. LowerField(FieldOf(e))
  BY <1>2, <1>3, <1>4 DEF FieldOf
<1>7. PICK a \in 0 .. 3 : e[2] \in [1 .. a -> Key]
  BY <1>1
<1>8. e[2] \in [1 .. a -> Bytes]
  BY <1>4, <1>7
<1>9. e[2] \in Seq(Bytes)
  BY <1>8, IsASeq
<1> QED
  BY <1>1, <1>2, <1>3, <1>4, <1>5, <1>6, <1>9 DEF IsEntry

\* An encoded key is bytes.
LEMMA KeyType ==
  ASSUME NEW t, NEW k \in Bytes
  PROVE  EncodeKey(t, k) \in Bytes
<1>1. <<Len(k)>> \in Bytes
  BY LenProperties
<1>2. <<Len(k)>> \o k \in Bytes
  BY <1>1, ConcatProperties
<1> QED
  BY <1>2 DEF EncodeKey

\* The encoded keys of an entry, and what they add to its field's name.
LEMMA KeysShape ==
  ASSUME NEW e \in Entry
  PROVE  /\ Len(e[2]) \in 0 .. 3
         /\ Len(KeysOf(e)) = Len(e[2])
         /\ \A j \in 1 .. Len(e[2]) :
              /\ e[2][j] \in Bytes
              /\ KeysOf(e)[j] = EncodeKey(FieldOf(e).keys[j], e[2][j])
              /\ KeysOf(e)[j] \in Bytes
         /\ Joined(KeysOf(e)) \in Bytes
<1>1. Len(e[2]) \in 0 .. 3
  <2>1. FieldOf(e).keys \in Seq(Scalar)
    BY EntryShape DEF Field
  <2>2. LowerField(FieldOf(e))
    BY EntryShape
  <2>3. Len(FieldOf(e).keys) <= 3
    BY <2>2 DEF LowerField
  <2>4. Len(FieldOf(e).keys) \in Nat
    BY <2>1, LenProperties
  <2>5. Len(e[2]) = Len(FieldOf(e).keys)
    BY EntryShape
  <2> DEFINE n == Len(e[2])
             m == Len(FieldOf(e).keys)
  <2> HIDE DEF n, m
  <2>6. m <= 3 /\ m \in Nat /\ n = m
    BY <2>3, <2>4, <2>5 DEF n, m
  <2>7. n \in 0 .. 3
    BY <2>6
  <2> QED
    BY <2>7 DEF n
<1>2. Len(KeysOf(e)) = Len(e[2])
  BY <1>1 DEF KeysOf, KeyBytes
<1>3. ASSUME NEW j \in 1 .. Len(e[2])
      PROVE  /\ e[2][j] \in Bytes
             /\ KeysOf(e)[j] = EncodeKey(FieldOf(e).keys[j], e[2][j])
             /\ KeysOf(e)[j] \in Bytes
  <2>1. e[2][j] \in Bytes
    BY EntryShape, LenProperties
  <2>2. KeysOf(e)[j] = EncodeKey(FieldOf(e).keys[j], e[2][j])
    BY DEF KeysOf, KeyBytes
  <2> QED
    BY <2>1, <2>2, KeyType
<1>4. Joined(KeysOf(e)) \in Bytes
  <2> DEFINE kb == KeysOf(e)
  <2>1. /\ Len(kb) \in 0 .. 3
        /\ Len(kb) > 0 => kb[1] \in Bytes
        /\ Len(kb) > 1 => kb[2] \in Bytes
        /\ Len(kb) > 2 => kb[3] \in Bytes
    BY <1>1, <1>2, <1>3
  <2> HIDE DEF kb
  <2>2. Len(kb) > 1 => kb[1] \o kb[2] \in Bytes
    BY <2>1, ConcatProperties
  <2>3. Len(kb) > 2 => kb[1] \o (kb[2] \o kb[3]) \in Bytes
    <3>1. Len(kb) > 2 => kb[2] \o kb[3] \in Bytes
      BY <2>1, ConcatProperties
    <3> QED
      BY <2>1, <3>1, ConcatProperties
  <2>4. <<>> \in Bytes
    OBVIOUS
  <2> QED
    BY <2>1, <2>2, <2>3, <2>4 DEF Joined, kb
<1> QED
  BY <1>1, <1>2, <1>3, <1>4

\* Where slots meet, the longer of two field names starts with the shorter.
LEMMA SameName ==
  ASSUME NEW d \in Entry, NEW e \in Entry, SlotOf(d) = SlotOf(e),
         Len(d[1]) <= Len(e[1])
  PROVE  d[1] = e[1]
<1>1. d[1] \in Bytes /\ e[1] \in Bytes /\ d[1] \in Name /\ e[1] \in Name
  BY EntryShape
<1> DEFINE x == Joined(KeysOf(d))
           y == Joined(KeysOf(e))
<1>2. x \in Bytes /\ y \in Bytes
  BY KeysShape
<1>3. d[1] \o x = e[1] \o y
  BY DEF SlotOf, Preimage
<1>4. CASE FieldOf(d).keys = <<>>
  <2>1. Len(KeysOf(d)) = 0
    <3>1. Len(e[2]) = Len(FieldOf(e).keys) /\ Len(d[2]) = Len(FieldOf(d).keys)
      BY EntryShape
    <3> QED
      BY <1>4, <3>1, KeysShape
  <2>2. x = <<>>
    BY <2>1 DEF Joined
  <2> HIDE DEF x, y
  <2>3. Len(d[1]) + Len(x) = Len(e[1]) + Len(y)
    <3>1. Len(d[1] \o x) = Len(d[1]) + Len(x) /\ Len(e[1] \o y) = Len(e[1]) + Len(y)
      BY <1>1, <1>2, ConcatProperties
    <3> QED
      BY <1>3, <3>1
  <2>4. Len(d[1]) = Len(e[1])
    <3>1. Len(d[1]) \in Nat /\ Len(e[1]) \in Nat /\ Len(y) \in Nat /\ Len(x) = 0
      BY <1>1, <1>2, <2>2, LenProperties
    <3> QED
      BY <2>3, <3>1
  <2> QED
    BY <1>1, <1>2, <1>3, <2>4, ConcatCancel
<1>5. CASE FieldOf(d).keys # <<>>
  <2>1. SubSeq(e[1], 1, Len(d[1])) = d[1]
    <3> HIDE DEF x, y
    <3> QED
      BY <1>1, <1>2, <1>3, ConcatPrefix
  <2>2. /\ Owner(d[1]) \in Impl /\ Declares(Owner(d[1]), d[1])
        /\ Owner(e[1]) \in Impl /\ Declares(Owner(e[1]), e[1])
    BY EntryShape
  <2>3. Code[Owner(d[1])][d[1]].keys # <<>>
    BY <1>5 DEF FieldOf
  <2> QED
    BY <1>1, <2>1, <2>2, <2>3, NoShadow
<1> QED
  BY <1>4, <1>5

\* Two keys at one place of a field, with whatever follows them.
LEMMA SameKey ==
  ASSUME NEW d \in Entry, NEW e \in Entry, FieldOf(d) = FieldOf(e),
         NEW j \in 1 .. Len(d[2]), j \in 1 .. Len(e[2]),
         NEW x \in Bytes, NEW y \in Bytes, Cat(KeysOf(d)[j], x) = Cat(KeysOf(e)[j], y)
  PROVE  d[2][j] = e[2][j] /\ x = y
<1> DEFINE t == FieldOf(d).keys[j]
<1>1. t \in Scalar /\ t.kind \notin {"vec", "custom"}
  <2>1. /\ FieldOf(d).keys \in Seq(Scalar)
        /\ j \in DOMAIN FieldOf(d).keys
    <3>1. FieldOf(d) \in Field /\ Len(d[2]) = Len(FieldOf(d).keys)
      BY EntryShape
    <3>2. FieldOf(d).keys \in Seq(Scalar)
      BY <3>1 DEF Field
    <3> QED
      BY <3>1, <3>2, LenProperties
  <2>2. LowerField(FieldOf(d))
    BY EntryShape
  <2>3. \A i \in DOMAIN FieldOf(d).keys : FieldOf(d).keys[i].kind \notin {"vec", "custom"}
    BY <2>2 DEF LowerField
  <2> QED
    BY <2>1, <2>3, LenProperties
<1>2. HasType(t, d[2][j]) /\ HasType(t, e[2][j])
  <2>1. j \in DOMAIN d[2] /\ j \in DOMAIN e[2]
    BY EntryShape, LenProperties
  <2> QED
    BY <2>1, EntryShape
<1>3. d[2][j] \in Bytes /\ e[2][j] \in Bytes
  BY KeysShape
<1>4. Cat(EncodeKey(t, d[2][j]), x) = Cat(EncodeKey(t, e[2][j]), y)
  BY KeysShape
<1> DEFINE k == d[2][j]
           l == e[2][j]
<1> HIDE DEF t, k, l, Bytes
<1>5. HasType(t, k) /\ HasType(t, l)
  BY <1>2 DEF k, l
<1>6. k \in Bytes /\ l \in Bytes
  BY <1>3 DEF k, l
<1>7. Cat(EncodeKey(t, k), x) = Cat(EncodeKey(t, l), y)
  BY <1>4 DEF k, l
<1>8. k = l /\ x = y
  BY <1>1, <1>5, <1>6, <1>7, KeyPrefixFree
<1> QED
  BY <1>8 DEF k, l

(* Different entries have different slots: for any schemas whose map names *)
(* do not begin other fields' names, and any keys, the hashed bytes name   *)
(* the field and every key (encode_key_to_bytes of the storage macros).    *)
THEOREM DistinctSlots ==
  \A d, e \in Entry : SlotOf(d) = SlotOf(e) => d = e
<1> SUFFICES ASSUME NEW d \in Entry, NEW e \in Entry, SlotOf(d) = SlotOf(e)
             PROVE  d = e
  OBVIOUS
<1>1. d[1] = e[1]
  <2>1. Len(d[1]) \in Nat /\ Len(e[1]) \in Nat
    BY EntryShape, LenProperties
  <2>2. CASE Len(d[1]) <= Len(e[1])
    BY <2>2, SameName
  <2>3. CASE Len(e[1]) <= Len(d[1])
    BY <2>3, SameName
  <2> QED
    BY <2>1, <2>2, <2>3
<1>2. FieldOf(d) = FieldOf(e)
  BY <1>1 DEF FieldOf
<1> DEFINE dk == KeysOf(d)
           ek == KeysOf(e)
<1>3. Joined(dk) = Joined(ek)
  <2>1. d[1] \in Bytes /\ Joined(dk) \in Bytes /\ Joined(ek) \in Bytes
    BY EntryShape, KeysShape
  <2>2. d[1] \o Joined(dk) = d[1] \o Joined(ek)
    BY <1>1 DEF SlotOf, Preimage
  <2> QED
    BY <2>1, <2>2, ConcatCancel
<1>4. Len(d[2]) = Len(e[2]) /\ Len(d[2]) \in 0 .. 3
  <2>1. Len(d[2]) = Len(FieldOf(d).keys)
    BY EntryShape
  <2>2. Len(e[2]) = Len(FieldOf(e).keys)
    BY EntryShape
  <2> QED
    BY <1>2, <2>1, <2>2, KeysShape
<1>5. /\ Len(dk) = Len(d[2]) /\ Len(ek) = Len(d[2])
      /\ \A j \in 1 .. Len(d[2]) : dk[j] \in Bytes /\ ek[j] \in Bytes
  BY <1>4, KeysShape
<1>6. \A j \in 1 .. Len(d[2]) : d[2][j] = e[2][j]
  <2> DEFINE n  == Len(d[2])
             js == d[2]
             ks == e[2]
  <2>1. \A j \in 1 .. n : \A x, y \in Bytes :
          Cat(dk[j], x) = Cat(ek[j], y) => js[j] = ks[j] /\ x = y
    <3> HIDE DEF Bytes, n, js, ks, dk, ek
    <3> SUFFICES ASSUME NEW j \in 1 .. n, NEW x \in Bytes, NEW y \in Bytes,
                        Cat(dk[j], x) = Cat(ek[j], y)
                 PROVE  js[j] = ks[j] /\ x = y
      OBVIOUS
    <3>1. j \in 1 .. Len(d[2]) /\ j \in 1 .. Len(e[2])
      BY <1>4 DEF n
    <3>2. Cat(KeysOf(d)[j], x) = Cat(KeysOf(e)[j], y)
      BY DEF dk, ek
    <3>3. d[2][j] = e[2][j] /\ x = y
      BY <1>2, <3>1, <3>2, SameKey
    <3> QED
      BY <3>3 DEF js, ks
  <2>2. n \in 0 .. 3
    BY <1>4
  <2>3. Len(dk) = n /\ Len(ek) = n
    BY <1>5
  <2>4. \A j \in 1 .. n : dk[j] \in Bytes /\ ek[j] \in Bytes
    BY <1>5
  <2> HIDE DEF n, js, ks, dk, ek, Bytes
  <2>5. ASSUME NEW j \in 1 .. n, dk[j] = ek[j]
        PROVE  js[j] = ks[j]
    <3>1. <<>> \in Bytes /\ Cat(dk[j], <<>>) = Cat(ek[j], <<>>)
      BY <2>5 DEF Bytes
    <3> QED
      BY <2>1, <3>1
  <2>6. CASE n = 1
    <3>1. dk[1] = ek[1]
      BY <1>3, <2>3, <2>6 DEF Joined
    <3> QED
      BY <2>5, <2>6, <3>1 DEF n, js, ks
  <2>7. CASE n = 2
    <3>1. Cat(dk[1], dk[2]) = Cat(ek[1], ek[2])
      BY <1>3, <2>3, <2>7 DEF Joined, Cat
    <3>2. js[1] = ks[1] /\ dk[2] = ek[2]
      BY <2>1, <2>4, <2>7, <3>1
    <3>3. js[2] = ks[2]
      BY <2>5, <2>7, <3>2
    <3> QED
      BY <2>7, <3>2, <3>3 DEF n, js, ks
  <2>8. CASE n = 3
    <3>1. Cat(dk[1], Cat(dk[2], dk[3])) = Cat(ek[1], Cat(ek[2], ek[3]))
      <4>1. Joined(dk) = dk[1] \o (dk[2] \o dk[3])
        BY <2>3, <2>8 DEF Joined
      <4>2. Joined(ek) = ek[1] \o (ek[2] \o ek[3])
        BY <2>3, <2>8 DEF Joined
      <4> QED
        BY <1>3, <4>1, <4>2 DEF Cat
    <3>2. Cat(dk[2], dk[3]) \in Bytes /\ Cat(ek[2], ek[3]) \in Bytes
      <4>1. dk[2] \in Bytes /\ dk[3] \in Bytes /\ ek[2] \in Bytes /\ ek[3] \in Bytes
        BY <2>4, <2>8
      <4> QED
        BY <4>1, ConcatProperties DEF Bytes, Cat
    <3>3. js[1] = ks[1] /\ Cat(dk[2], dk[3]) = Cat(ek[2], ek[3])
      BY <2>1, <2>8, <3>1, <3>2
    <3>4. js[2] = ks[2] /\ dk[3] = ek[3]
      BY <2>1, <2>4, <2>8, <3>3
    <3>5. js[3] = ks[3]
      BY <2>5, <2>8, <3>4
    <3> QED
      BY <2>8, <3>3, <3>4, <3>5 DEF n, js, ks
  <2>9. CASE n = 0
    BY <2>9 DEF n
  <2> QED
    BY <2>2, <2>6, <2>7, <2>8, <2>9
<1>7. d[2] = e[2]
  BY <1>4, <1>6, EntryShape, SeqEqual
<1> QED
  BY <1>1, <1>7, EntryShape

-----------------------------------------------------------------------------
(* Values to bytes and back *)

\* A field that two implementations share, of one SDK each, is of a type that
\* both store alike.
NoMixedText ==
  \A i, j \in Impl, n \in Name :
    Declares(i, n) /\ Declares(j, n) /\ SdkOf[i] # SdkOf[j] =>
      Code[i][n].value.kind \notin {"bytes", "string"}

\* What reading bytes makes of them, in the SDK of implementation i.
Back(i, t, b) ==
  IF SdkOf[i] = "go" THEN GoDecode(t, b)
  ELSE Decoded(IF b = <<>> THEN DefaultOf(t) ELSE RustDecode(t, b))

LEMMA DropFirst ==
  ASSUME NEW x \in Nat, NEW v \in Bytes
  PROVE  LET b == <<x>> \o v
         IN  /\ b \in Bytes /\ Len(b) = 1 + Len(v) /\ b[1] = x /\ b # <<>>
             /\ SubSeq(b, 2, 1 + Len(v)) = v
<1> DEFINE b == <<x>> \o v
           n == Len(v)
           w == SubSeq(b, 2, 1 + n)
<1>1. <<x>> \in Bytes /\ Len(<<x>>) = 1 /\ n \in Nat
  BY LenProperties
<1>2. /\ b \in Bytes /\ Len(b) = 1 + n /\ b[1] = x
      /\ \A j \in 1 .. n : b[j + 1] = v[j] /\ j + 1 \in 1 .. Len(b)
  <2>1. /\ b \in Bytes /\ Len(b) = 1 + n
        /\ \A j \in 1 .. 1 + n : b[j] = IF j <= 1 THEN <<x>>[j] ELSE v[j - 1]
    BY <1>1, ConcatProperties
  <2> HIDE DEF b, n
  <2>2. b[1] = x
    BY <1>1, <2>1
  <2>3. ASSUME NEW j \in 1 .. n PROVE b[j + 1] = v[j] /\ j + 1 \in 1 .. Len(b)
    <3> DEFINE i == j + 1
    <3>1. i \in 1 .. 1 + n /\ ~ (i <= 1) /\ i - 1 = j
      BY <1>1
    <3> HIDE DEF i
    <3>2. b[i] = v[j]
      BY <2>1, <3>1
    <3> QED
      BY <2>1, <3>1, <3>2 DEF i
  <2> QED
    BY <2>1, <2>2, <2>3
<1>3. b # <<>>
  BY <1>1, <1>2
<1>4. w \in Bytes /\ Len(w) = n /\ \A j \in 1 .. n : w[j] = b[j + 1]
  <2>1. \A i \in 2 .. 1 + n : b[i] \in Nat
    <3>1. \A i \in 2 .. 1 + n : i \in 1 .. Len(b)
      BY <1>1, <1>2
    <3> HIDE DEF b, n
    <3> QED
      BY <1>2, <3>1, ElementOfSeq
  <2> HIDE DEF b, n
  <2>2. /\ w \in Bytes
        /\ Len(w) = IF 2 <= 1 + n THEN (1 + n) - 2 + 1 ELSE 0
        /\ \A j \in 1 .. (1 + n) - 2 + 1 : w[j] = b[2 + j - 1]
    BY <1>1, <2>1, SubSeqProperties
  <2> HIDE DEF w
  <2>3. Len(w) = n /\ (1 + n) - 2 + 1 = n
    BY <1>1, <2>2
  <2>4. ASSUME NEW j \in 1 .. n PROVE w[j] = b[j + 1]
    <3>1. 2 + j - 1 = j + 1 /\ j \in 1 .. (1 + n) - 2 + 1
      BY <1>1, <2>3
    <3> QED
      BY <2>2, <3>1
  <2> QED
    BY <2>2, <2>3, <2>4
<1>5. w = v
  <2>1. \A j \in 1 .. Len(w) : w[j] = v[j]
    BY <1>2, <1>4
  <2> HIDE DEF w
  <2> QED
    BY <1>4, <2>1, SeqEqual DEF n
<1> QED
  BY <1>2, <1>3, <1>5

LEMMA Whole ==
  ASSUME NEW v \in Bytes
  PROVE  /\ SubSeq(v, 1, Len(v)) = v
         /\ Fit(Len(v), v) = v
<1> DEFINE n == Len(v)
           w == SubSeq(v, 1, n)
<1>1. n \in Nat /\ \A j \in 1 .. n : v[j] \in Nat
  BY LenProperties, ElementOfSeq
<1>2. w = v
  <2>1. /\ w \in Bytes /\ Len(w) = IF 1 <= n THEN n - 1 + 1 ELSE 0
        /\ \A j \in 1 .. n - 1 + 1 : w[j] = v[1 + j - 1]
    <3> HIDE DEF n
    <3> QED
      BY <1>1, SubSeqProperties
  <2> HIDE DEF w
  <2>2. Len(w) = n /\ n - 1 + 1 = n
    BY <1>1, <2>1
  <2>3. \A j \in 1 .. n : w[j] = v[j]
    <3> SUFFICES ASSUME NEW j \in 1 .. n PROVE w[j] = v[j]
      OBVIOUS
    <3>1. 1 + j - 1 = j /\ j \in 1 .. n - 1 + 1
      BY <1>1, <2>2
    <3> QED
      BY <2>1, <3>1
  <2> QED
    BY <2>1, <2>2, <2>3, SeqEqual
<1>3. Fit(n, v) = v
  <2>1. Fit(n, v) = [j \in 1 .. n |-> v[j]]
    <3>1. \A j \in 1 .. n : j <= Len(v)
      BY <1>1
    <3> QED
      BY <3>1 DEF Fit
  <2>2. v = [j \in 1 .. n |-> v[j]]
    BY LenProperties
  <2> QED
    BY <2>1, <2>2
<1> QED
  BY <1>2, <1>3

LEMMA DivExact ==
  ASSUME NEW n \in Nat, NEW w \in Nat, w > 0, n % w = 0
  PROVE  n \div w \in Nat /\ (n \div w) * w = n
OBVIOUS

\* Bytes, strings and vecs with their count in front, as Go reads them.
LEMMA PrefixedIs ==
  ASSUME NEW t \in Scalar, t.kind \in {"bytes", "string", "vec"},
         t.kind = "vec" => t.width > 0, NEW v \in Bytes, HasType(t, v)
  PROVE  LET b    == Prefixed(t, v)
             size == IF t.kind = "vec" THEN t.width ELSE 1
         IN  /\ b \in Bytes /\ b # <<>> /\ Len(b) = 1 + Len(v)
             /\ b[1] * size = Len(v)
             /\ SubSeq(b, 2, 1 + b[1] * size) = v
<1> DEFINE size == IF t.kind = "vec" THEN t.width ELSE 1
           x    == IF t.kind = "vec" THEN Len(v) \div t.width ELSE Len(v)
           b    == <<x>> \o v
<1>1. Len(v) \in Nat /\ t.width \in Nat
  BY LenProperties DEF Scalar
<1>2. x \in Nat /\ x * size = Len(v)
  <2>1. CASE t.kind = "vec"
    <3>1. Len(v) % t.width = 0 /\ t.width > 0
      BY <2>1 DEF HasType
    <3> QED
      BY <1>1, <2>1, <3>1, DivExact
  <2>2. CASE t.kind # "vec"
    BY <1>1, <2>2
  <2> QED
    BY <2>1, <2>2
<1>3. Prefixed(t, v) = b
  BY DEF Prefixed
<1> HIDE DEF x, size
<1>4. /\ b \in Bytes /\ Len(b) = 1 + Len(v) /\ b[1] = x /\ b # <<>>
      /\ SubSeq(b, 2, 1 + Len(v)) = v
  BY <1>2, DropFirst
<1>5. b[1] * size = Len(v) /\ SubSeq(b, 2, 1 + b[1] * size) = v
  BY <1>2, <1>4
<1> QED
  BY <1>3, <1>4, <1>5 DEF size

LEMMA DefaultIs ==
  ASSUME NEW t \in Scalar, t.kind = "vec" => t.width > 0
  PROVE  HasType(t, DefaultOf(t)) /\ DefaultOf(t) \in Bytes
<1>1. t.width \in Nat /\ t.kind \in ScalarKind /\ (t.kind = "bool" => t.width = 1)
  BY DEF Scalar
<1>2. CASE t.kind = "fixed"
  <2>1. DefaultOf(t) = Zeros(t.width) /\ Zeros(t.width) \in [1 .. t.width -> Nat]
    BY <1>2 DEF DefaultOf, FixedWidth, Zeros
  <2> QED
    BY <1>1, <1>2, <2>1 DEF HasType
<1>3. CASE t.kind = "bool"
  <2>1. DefaultOf(t) = [j \in 1 .. 1 |-> 0]
    BY <1>1, <1>3 DEF DefaultOf, FixedWidth, Zeros
  <2>2. [j \in 1 .. 1 |-> 0] = <<0>>
    OBVIOUS
  <2> QED
    BY <1>3, <2>1, <2>2 DEF HasType
<1>4. CASE t.kind \in {"bytes", "string"}
  BY <1>4, StorageAssumption DEF DefaultOf, FixedWidth, HasType
<1>5. CASE t.kind = "vec"
  <2>1. DefaultOf(t) = <<>> /\ Len(<<>>) = 0
    BY <1>5 DEF DefaultOf, FixedWidth
  <2>2. 0 % t.width = 0
    BY <1>1, <1>5
  <2> QED
    BY <1>5, <2>1, <2>2 DEF HasType
<1>6. CASE t.kind = "custom"
  BY <1>6, StorageAssumption DEF DefaultOf, FixedWidth, HasType
<1> QED
  BY <1>1, <1>2, <1>3, <1>4, <1>5, <1>6 DEF ScalarKind

(* What one implementation writes, every other that has the field reads.   *)
LEMMA RoundTrip ==
  ASSUME NEW t \in Scalar, t.kind = "vec" => t.width > 0,
         NEW v \in Bytes, HasType(t, v), NEW i \in Impl, NEW j \in Impl,
         SdkOf[i] # SdkOf[j] => t.kind \notin {"bytes", "string"}
  PROVE  Back(j, t, Encode(i, t, v)) = Decoded(v)
<1>1. /\ t.width \in Nat /\ t.kind \in ScalarKind /\ (t.kind = "bool" => t.width = 1)
      /\ Len(v) \in Nat
  BY LenProperties DEF Scalar
<1>2. SdkOf[i] \in {"rust", "go"} /\ SdkOf[j] \in {"rust", "go"}
  BY StorageAssumption
<1>3. CASE t.kind = "fixed"
  <2>1. Encode(i, t, v) = v /\ Len(v) = t.width
    BY <1>3 DEF Encode, RustEncode, GoEncode, HasType
  <2>2. GoDecode(t, v) = Decoded(v)
    <3>1. ~ (Len(v) < t.width)
      BY <1>1, <2>1
    <3>2. GoDecode(t, v) = Decoded(SubSeq(v, 1, t.width))
      BY <1>3, <3>1 DEF GoDecode
    <3>3. SubSeq(v, 1, t.width) = v
      BY <2>1, Whole
    <3> QED
      BY <3>2, <3>3
  <2>3. v # <<>> => RustDecode(t, v) = v
    BY <1>3, <2>1, Whole DEF RustDecode
  <2>4. v = <<>> => DefaultOf(t) = v
    <3> SUFFICES ASSUME v = <<>> PROVE DefaultOf(t) = <<>>
      OBVIOUS
    <3>1. t.width = 0
      BY <2>1
    <3>2. Zeros(0) = <<>>
      BY DEF Zeros
    <3> QED
      BY <1>3, <3>1, <3>2 DEF DefaultOf, FixedWidth
  <2> QED
    BY <2>1, <2>2, <2>3, <2>4 DEF Back
<1>4. CASE t.kind = "bool"
  <2>1. Encode(i, t, v) = v /\ v \in {<<0>>, <<1>>}
    BY <1>4 DEF Encode, RustEncode, GoEncode, HasType
  <2>2. Len(v) = 1 /\ v[1] \in {0, 1} /\ v # <<>> /\ v = <<v[1]>>
    BY <2>1
  <2>3. GoDecode(t, v) = Decoded(v)
    BY <1>4, <2>2 DEF GoDecode
  <2>4. RustDecode(t, v) = v
    BY <1>4, <2>1, <2>2 DEF RustDecode
  <2> QED
    BY <2>1, <2>2, <2>3, <2>4 DEF Back
<1>5. CASE t.kind \in {"bytes", "string"}
  <2>1. SdkOf[i] = SdkOf[j]
    BY <1>5
  <2>2. CASE SdkOf[i] = "go"
    <3>1. Encode(i, t, v) = Prefixed(t, v)
      BY <1>5, <2>2 DEF Encode, GoEncode
    <3> DEFINE b == Prefixed(t, v)
    <3>2. /\ Len(b) = 1 + Len(v) /\ b[1] * 1 = Len(v)
          /\ SubSeq(b, 2, 1 + b[1] * 1) = v
      BY <1>5, PrefixedIs
    <3> HIDE DEF b
    <3>3. ~ (Len(b) < 1) /\ ~ (Len(b) < 1 + b[1] * 1)
      BY <1>1, <3>2
    <3>4. GoDecode(t, b) = Decoded(SubSeq(b, 2, 1 + b[1] * 1))
      BY <1>5, <3>3 DEF GoDecode
    <3> QED
      BY <2>1, <2>2, <3>1, <3>2, <3>4 DEF Back, b
  <2>3. CASE SdkOf[i] = "rust"
    <3>1. Encode(i, t, v) = v
      BY <1>5, <2>3 DEF Encode, RustEncode
    <3>2. RustDecode(t, v) = v
      BY <1>5 DEF RustDecode, HasType
    <3>3. DefaultOf(t) = <<>>
      BY <1>5 DEF DefaultOf, FixedWidth
    <3> QED
      BY <2>1, <2>3, <3>1, <3>2, <3>3 DEF Back
  <2> QED
    BY <1>2, <2>2, <2>3
<1>6. CASE t.kind = "vec"
  <2> DEFINE b == Prefixed(t, v)
  <2>1. Encode(i, t, v) = b
    BY <1>6 DEF Encode, RustEncode, GoEncode
  <2>2. /\ b # <<>> /\ Len(b) = 1 + Len(v) /\ b[1] * t.width = Len(v)
        /\ SubSeq(b, 2, 1 + b[1] * t.width) = v
    BY <1>6, PrefixedIs
  <2> HIDE DEF b
  <2>3. GoDecode(t, b) = Decoded(v) /\ RustDecode(t, b) = v
    <3>1. ~ (Len(b) < 1) /\ ~ (Len(b) < 1 + b[1] * t.width)
      BY <1>1, <2>2
    <3>2. GoDecode(t, b) = Decoded(SubSeq(b, 2, 1 + b[1] * t.width))
      BY <1>6, <3>1 DEF GoDecode
    <3>3. RustDecode(t, b) = SubSeq(b, 2, 1 + b[1] * t.width)
      BY <1>6, <3>1 DEF RustDecode
    <3> QED
      BY <2>2, <3>2, <3>3
  <2> QED
    BY <2>1, <2>2, <2>3 DEF Back
<1>7. CASE t.kind = "custom"
  <2>1. Encode(i, t, v) = v /\ v \in Codec
    BY <1>7 DEF Encode, RustEncode, GoEncode, HasType
  <2>2. GoDecode(t, v) = Decoded(v) /\ RustDecode(t, v) = v
    BY <1>7, <2>1 DEF GoDecode, RustDecode
  <2>3. v = <<>> => DefaultOf(t) = v
    BY <1>7, <2>1, SelfDelimiting, StorageAssumption DEF DefaultOf, FixedWidth
  <2> QED
    BY <2>1, <2>2, <2>3 DEF Back
<1> QED
  BY <1>1, <1>3, <1>4, <1>5, <1>6, <1>7 DEF ScalarKind

-----------------------------------------------------------------------------
(* The invariant *)

SlotsOf == {SlotOf(e) : e \in Entry}

\* What an occupied slot holds: the bytes that some implementation with the
\* field makes of a value of its type.
Holds(slots) ==
  /\ DOMAIN slots \subseteq SlotsOf
  /\ \A e \in Entry : SlotOf(e) \in DOMAIN slots =>
       \E i \in Impl : \E v \in Value :
         /\ Declares(i, e[1]) /\ HasType(TypeOf(e), v)
         /\ slots[SlotOf(e)] = Encode(i, TypeOf(e), v)

LastIs ==
  last # Nothing =>
    /\ running
    /\ last.entry \in EntriesOf(impl)
    /\ HasType(TypeOf(last.entry), last.value)

SInv ==
  /\ impl \in Impl /\ running \in BOOLEAN /\ ops \in 0 .. MaxOps
  /\ Holds(slot) /\ Holds(undo) /\ LastIs

LEMMA TypeIs ==
  ASSUME NEW e \in Entry
  PROVE  /\ TypeOf(e) \in Scalar /\ (TypeOf(e).kind = "vec" => TypeOf(e).width > 0)
         /\ \A i \in Impl : Declares(i, e[1]) => TypeOf(e) = Code[i][e[1]].value
         /\ \A i \in Impl : Declares(i, e[1]) => FieldOf(e) = Code[i][e[1]]
<1>1. FieldOf(e) \in Field /\ LowerField(FieldOf(e)) /\ e[1] \in Name
      /\ Owner(e[1]) \in Impl /\ Declares(Owner(e[1]), e[1])
  BY EntryShape
<1>2. TypeOf(e) \in Scalar /\ (TypeOf(e).kind = "vec" => TypeOf(e).width > 0)
  BY <1>1 DEF TypeOf, Field, LowerField
<1>3. \A i \in Impl : Declares(i, e[1]) => FieldOf(e) = Code[i][e[1]]
  BY <1>1, SharedTypes DEF FieldOf
<1> QED
  BY <1>2, <1>3 DEF TypeOf

\* Two implementations that have an entry's field store it alike, or are of
\* one SDK.
LEMMA StoredAlike ==
  ASSUME NoMixedText, NEW e \in Entry, NEW i \in Impl, NEW j \in Impl,
         Declares(i, e[1]), Declares(j, e[1]), SdkOf[i] # SdkOf[j]
  PROVE  TypeOf(e).kind \notin {"bytes", "string"}
BY TypeIs, EntryShape DEF NoMixedText

LEMMA ViewIs ==
  ASSUME NEW i, NEW e, NEW slots
  PROVE  View(i, e, slots) =
           IF SlotOf(e) \notin DOMAIN slots THEN Decoded(DefaultOf(TypeOf(e)))
           ELSE Back(i, TypeOf(e), slots[SlotOf(e)])
BY DEF View, Back

\* Whoever reads an entry finds the value that was written.
LEMMA ViewOfHeld ==
  ASSUME NoMixedText, NEW e \in Entry, NEW j \in Impl, Declares(j, e[1]),
         NEW i \in Impl, Declares(i, e[1]),
         NEW v \in Value, HasType(TypeOf(e), v),
         NEW slots, SlotOf(e) \in DOMAIN slots,
         slots[SlotOf(e)] = Encode(i, TypeOf(e), v)
  PROVE  View(j, e, slots) = Decoded(v)
<1>1. v \in Bytes
  BY StorageAssumption
<1>2. /\ TypeOf(e) \in Scalar /\ (TypeOf(e).kind = "vec" => TypeOf(e).width > 0)
      /\ SdkOf[i] # SdkOf[j] => TypeOf(e).kind \notin {"bytes", "string"}
  BY TypeIs, StoredAlike
<1>3. Back(j, TypeOf(e), Encode(i, TypeOf(e), v)) = Decoded(v)
  BY <1>1, <1>2, RoundTrip
<1> QED
  BY <1>3, ViewIs

LEMMA ViewType ==
  ASSUME NoMixedText, NEW slots, Holds(slots), NEW e \in Entry
  PROVE  \E v : /\ HasType(TypeOf(e), v)
                /\ \A j \in Impl : Declares(j, e[1]) => View(j, e, slots) = Decoded(v)
<1>1. CASE SlotOf(e) \notin DOMAIN slots
  <2>1. HasType(TypeOf(e), DefaultOf(TypeOf(e)))
    BY TypeIs, DefaultIs
  <2>2. \A j \in Impl : View(j, e, slots) = Decoded(DefaultOf(TypeOf(e)))
    BY <1>1, ViewIs
  <2> QED
    BY <2>1, <2>2
<1>2. CASE SlotOf(e) \in DOMAIN slots
  <2>1. PICK i \in Impl : \E v \in Value :
          /\ Declares(i, e[1]) /\ HasType(TypeOf(e), v)
          /\ slots[SlotOf(e)] = Encode(i, TypeOf(e), v)
    BY <1>2 DEF Holds
  <2>2. PICK v \in Value :
          /\ Declares(i, e[1]) /\ HasType(TypeOf(e), v)
          /\ slots[SlotOf(e)] = Encode(i, TypeOf(e), v)
    BY <2>1
  <2>3. \A j \in Impl : Declares(j, e[1]) => View(j, e, slots) = Decoded(v)
    BY <1>2, <2>2, ViewOfHeld
  <2> QED
    BY <2>2, <2>3
<1> QED
  BY <1>1, <1>2

-----------------------------------------------------------------------------
(* Every step keeps it *)

LEMMA PutIs ==
  ASSUME NEW e \in Entry, NEW b
  PROVE  LET s == Put(SlotOf(e), b)
         IN  /\ DOMAIN s = DOMAIN slot \cup {SlotOf(e)} /\ s[SlotOf(e)] = b
             /\ \A d \in Entry : d # e =>
                  /\ SlotOf(d) \in DOMAIN s <=> SlotOf(d) \in DOMAIN slot
                  /\ SlotOf(d) \in DOMAIN slot => s[SlotOf(d)] = slot[SlotOf(d)]
<1>1. \A d \in Entry : d # e => SlotOf(d) # SlotOf(e)
  BY DistinctSlots
<1> QED
  BY <1>1 DEF Put

LEMMA WithoutIs ==
  ASSUME NEW e \in Entry
  PROVE  LET s == Without(SlotOf(e))
         IN  /\ DOMAIN s = DOMAIN slot \ {SlotOf(e)}
             /\ \A d \in Entry : d # e =>
                  /\ SlotOf(d) \in DOMAIN s <=> SlotOf(d) \in DOMAIN slot
                  /\ SlotOf(d) \in DOMAIN slot => s[SlotOf(d)] = slot[SlotOf(d)]
<1>1. \A d \in Entry : d # e => SlotOf(d) # SlotOf(e)
  BY DistinctSlots
<1> QED
  BY <1>1 DEF Without

LEMMA PutHolds ==
  ASSUME SInv, NEW e \in EntriesOf(impl), NEW v \in Value, HasType(TypeOf(e), v)
  PROVE  Holds(Put(SlotOf(e), Encode(impl, TypeOf(e), v)))
<1> DEFINE b == Encode(impl, TypeOf(e), v)
           s == Put(SlotOf(e), b)
<1>1. e \in Entry /\ Declares(impl, e[1]) /\ impl \in Impl
  BY DEF EntriesOf, SInv
<1>2. /\ DOMAIN s = DOMAIN slot \cup {SlotOf(e)} /\ s[SlotOf(e)] = b
      /\ \A d \in Entry : d # e =>
           /\ SlotOf(d) \in DOMAIN s <=> SlotOf(d) \in DOMAIN slot
           /\ SlotOf(d) \in DOMAIN slot => s[SlotOf(d)] = slot[SlotOf(d)]
  BY <1>1, PutIs
<1> HIDE DEF s
<1>3. DOMAIN s \subseteq SlotsOf
  BY <1>1, <1>2 DEF SInv, Holds, SlotsOf
<1>4. ASSUME NEW d \in Entry, SlotOf(d) \in DOMAIN s
      PROVE  \E i \in Impl : \E w \in Value :
               /\ Declares(i, d[1]) /\ HasType(TypeOf(d), w)
               /\ s[SlotOf(d)] = Encode(i, TypeOf(d), w)
  <2>1. CASE d = e
    BY <1>1, <1>2, <2>1
  <2>2. CASE d # e
    <3>1. SlotOf(d) \in DOMAIN slot /\ s[SlotOf(d)] = slot[SlotOf(d)]
      BY <1>2, <1>4, <2>2
    <3> QED
      BY <3>1 DEF SInv, Holds
  <2> QED
    BY <2>1, <2>2
<1>5. Holds(s)
  BY <1>3, <1>4 DEF Holds
<1> QED
  BY <1>5 DEF s

LEMMA WithoutHolds ==
  ASSUME SInv, NEW e \in Entry
  PROVE  Holds(Without(SlotOf(e)))
<1> DEFINE s == Without(SlotOf(e))
<1>1. /\ DOMAIN s = DOMAIN slot \ {SlotOf(e)}
      /\ \A d \in Entry : d # e =>
           /\ SlotOf(d) \in DOMAIN s <=> SlotOf(d) \in DOMAIN slot
           /\ SlotOf(d) \in DOMAIN slot => s[SlotOf(d)] = slot[SlotOf(d)]
  BY WithoutIs
<1> HIDE DEF s
<1>2. DOMAIN s \subseteq SlotsOf
  BY <1>1 DEF SInv, Holds
<1>3. ASSUME NEW d \in Entry, SlotOf(d) \in DOMAIN s
      PROVE  SlotOf(d) \in DOMAIN slot /\ s[SlotOf(d)] = slot[SlotOf(d)]
  BY <1>1, <1>3
<1>4. Holds(s)
  BY <1>2, <1>3 DEF SInv, Holds
<1> QED
  BY <1>4 DEF s

LEMMA EncodeBytes ==
  ASSUME NEW t \in Scalar, t.kind = "vec" => t.width > 0,
         NEW v \in Bytes, HasType(t, v), NEW i \in Impl
  PROVE  Encode(i, t, v) \in Bytes
<1>1. t.kind \in {"bytes", "string", "vec"} => Prefixed(t, v) \in Bytes
  BY PrefixedIs
<1> QED
  BY <1>1 DEF Encode, RustEncode, GoEncode

LEMMA HeldBytes ==
  ASSUME NEW slots, Holds(slots), NEW e \in Entry, SlotOf(e) \in DOMAIN slots
  PROVE  slots[SlotOf(e)] \in Bytes
<1>1. PICK i \in Impl : \E v \in Value :
        /\ Declares(i, e[1]) /\ HasType(TypeOf(e), v)
        /\ slots[SlotOf(e)] = Encode(i, TypeOf(e), v)
  BY DEF Holds
<1>2. PICK v \in Value :
        /\ HasType(TypeOf(e), v)
        /\ slots[SlotOf(e)] = Encode(i, TypeOf(e), v)
  BY <1>1
<1>3. v \in Bytes
  BY StorageAssumption
<1> QED
  BY <1>2, <1>3, TypeIs, EncodeBytes

\* A read's status says whether the host refused it, found nothing or copied
\* out the bytes of the slot.
LEMMA LoadIs ==
  ASSUME SInv, NEW e \in Entry
  PROVE  /\ LoadStatus(e) < SloadMissing <=> CheckKeys(HostOf(e), KeysOf(e)) # StatusOk
         /\ LoadStatus(e) = SloadMissing => SlotOf(e) \notin DOMAIN slot
         /\ LoadStatus(e) >= 0 => /\ SlotOf(e) \in DOMAIN slot
                                  /\ LoadStatus(e) = Len(slot[SlotOf(e)])
         /\ LoadStatus(e) < SloadMissing \/ LoadStatus(e) = SloadMissing
            \/ LoadStatus(e) >= 0
<1> DEFINE c == CheckKeys(HostOf(e), KeysOf(e))
<1>1. c \in {0, -31, -32, -33}
  BY DEF CheckKeys, StatusOk, UnknownField, FieldKindMismatch, KeyTypeMismatch
<1>2. SlotOf(e) \in DOMAIN slot => Len(slot[SlotOf(e)]) \in Nat
  BY HeldBytes, LenProperties DEF SInv
<1> HIDE DEF c
<1>3. LoadStatus(e) =
        IF c # StatusOk THEN c
        ELSE IF SlotOf(e) \notin DOMAIN slot THEN SloadMissing
        ELSE Len(slot[SlotOf(e)])
  BY DEF LoadStatus, c
<1>4. CASE c # StatusOk
  BY <1>1, <1>3, <1>4 DEF StatusOk, SloadMissing, c
<1>5. CASE c = StatusOk /\ SlotOf(e) \notin DOMAIN slot
  BY <1>3, <1>5 DEF StatusOk, SloadMissing, c
<1>6. CASE c = StatusOk /\ SlotOf(e) \in DOMAIN slot
  BY <1>2, <1>3, <1>6 DEF StatusOk, SloadMissing, c
<1> QED
  BY <1>4, <1>5, <1>6

\* What the Rust accessor returns: the value there, if the host let it look.
RustSees(e) ==
  IF LoadStatus(e) <= 0 THEN DefaultOf(TypeOf(e))
  ELSE RustDecode(TypeOf(e), slot[SlotOf(e)])

LEMMA RustReads ==
  ASSUME NoMixedText, SInv, NEW e \in EntriesOf(impl), SdkOf[impl] = "rust"
  PROVE  /\ HasType(TypeOf(e), RustSees(e))
         /\ CheckKeys(HostOf(e), KeysOf(e)) = StatusOk =>
              Decoded(RustSees(e)) = View(Owner(e[1]), e, slot)
<1>1. e \in Entry /\ Declares(impl, e[1]) /\ impl \in Impl /\ Holds(slot)
  BY DEF EntriesOf, SInv
<1>2. Owner(e[1]) \in Impl /\ Declares(Owner(e[1]), e[1])
  BY <1>1, EntryShape
<1>3. PICK v : /\ HasType(TypeOf(e), v)
               /\ \A j \in Impl : Declares(j, e[1]) => View(j, e, slot) = Decoded(v)
  BY <1>1, ViewType
<1>4. View(impl, e, slot) = Decoded(v) /\ View(Owner(e[1]), e, slot) = Decoded(v)
  BY <1>1, <1>2, <1>3
<1>5. HasType(TypeOf(e), DefaultOf(TypeOf(e)))
  BY <1>1, TypeIs, DefaultIs
<1>6. CASE LoadStatus(e) < SloadMissing
  <2>1. LoadStatus(e) <= 0 /\ CheckKeys(HostOf(e), KeysOf(e)) # StatusOk
    <3>1. CheckKeys(HostOf(e), KeysOf(e)) # StatusOk
      BY <1>1, <1>6, LoadIs
    <3>2. CheckKeys(HostOf(e), KeysOf(e)) \in {-31, -32, -33}
      BY <3>1 DEF CheckKeys, StatusOk, UnknownField, FieldKindMismatch, KeyTypeMismatch
    <3>3. LoadStatus(e) = CheckKeys(HostOf(e), KeysOf(e))
      BY <3>1 DEF LoadStatus
    <3> QED
      BY <3>1, <3>2, <3>3
  <2> QED
    BY <1>5, <2>1 DEF RustSees
<1>7. CASE LoadStatus(e) = SloadMissing
  <2>1. SlotOf(e) \notin DOMAIN slot
    BY <1>1, <1>7, LoadIs
  <2>2. RustSees(e) = DefaultOf(TypeOf(e))
    BY <1>7 DEF RustSees, SloadMissing
  <2>3. View(Owner(e[1]), e, slot) = Decoded(DefaultOf(TypeOf(e)))
    BY <2>1, ViewIs
  <2> QED
    BY <1>5, <2>2, <2>3
<1>8. CASE LoadStatus(e) >= 0
  <2>1. SlotOf(e) \in DOMAIN slot /\ LoadStatus(e) = Len(slot[SlotOf(e)])
    BY <1>1, <1>8, LoadIs
  <2> DEFINE b == slot[SlotOf(e)]
  <2>2. b \in Bytes
    BY <1>1, <2>1, HeldBytes
  <2>3. View(impl, e, slot) = Back(impl, TypeOf(e), b)
    BY <2>1, ViewIs
  <2> HIDE DEF b
  <2>4. Back(impl, TypeOf(e), b) =
          Decoded(IF b = <<>> THEN DefaultOf(TypeOf(e)) ELSE RustDecode(TypeOf(e), b))
    BY DEF Back
  <2>5. b = <<>> <=> Len(b) <= 0
    <3>1. Len(b) \in Nat /\ (Len(b) = 0 <=> b = <<>>)
      BY <2>2, EmptySeq, LenProperties
    <3> QED
      BY <3>1
  <2>6. Decoded(RustSees(e)) = Decoded(v)
    <3>1. LoadStatus(e) = Len(b)
      BY <2>1 DEF b
    <3>2. RustSees(e) = IF b = <<>> THEN DefaultOf(TypeOf(e)) ELSE RustDecode(TypeOf(e), b)
      BY <2>5, <3>1 DEF RustSees, b
    <3> QED
      BY <1>4, <2>3, <2>4, <3>2
  <2>7. RustSees(e) = v
    BY <2>6 DEF Decoded
  <2> QED
    BY <1>3, <1>4, <2>7
<1> QED
  BY <1>1, <1>6, <1>7, <1>8, LoadIs

\* What the Go author decodes is the value there.
LEMMA GoReads ==
  ASSUME NoMixedText, SInv, NEW e \in EntriesOf(impl), SdkOf[impl] = "go",
         LoadStatus(e) >= 0
  PROVE  LET d == GoDecode(TypeOf(e), slot[SlotOf(e)])
         IN  /\ d = Decoded(d.value)
             /\ HasType(TypeOf(e), d.value)
             /\ d = View(Owner(e[1]), e, slot)
<1>1. e \in Entry /\ Declares(impl, e[1]) /\ impl \in Impl /\ Holds(slot)
  BY DEF EntriesOf, SInv
<1>2. Owner(e[1]) \in Impl /\ Declares(Owner(e[1]), e[1])
  BY <1>1, EntryShape
<1>3. PICK v : /\ HasType(TypeOf(e), v)
               /\ \A j \in Impl : Declares(j, e[1]) => View(j, e, slot) = Decoded(v)
  BY <1>1, ViewType
<1>4. View(impl, e, slot) = Decoded(v) /\ View(Owner(e[1]), e, slot) = Decoded(v)
  BY <1>1, <1>2, <1>3
<1>5. SlotOf(e) \in DOMAIN slot
  BY <1>1, LoadIs
<1> DEFINE d == GoDecode(TypeOf(e), slot[SlotOf(e)])
<1>6. d = Decoded(v)
  BY <1>4, <1>5 DEF View
<1>7. d.value = v
  BY <1>6 DEF Decoded
<1> HIDE DEF d
<1>8. /\ d = Decoded(d.value) /\ HasType(TypeOf(e), d.value)
      /\ d = View(Owner(e[1]), e, slot)
  BY <1>3, <1>4, <1>6, <1>7
<1> QED
  BY <1>8 DEF d

-----------------------------------------------------------------------------

\* The two outcomes of an operation.
LEMMA DoneSInv ==
  ASSUME SInv, running, ops < MaxOps, NEW slots, Holds(slots),
         NEW op, op \in {"write", "delete", "read"},
         NEW e \in EntriesOf(impl), NEW v, HasType(TypeOf(e), v),
         Done(slots, Did(op, e, v))
  PROVE  SInv'
<1>1. /\ slot' = slots /\ last' = Did(op, e, v) /\ ops' = ops + 1
      /\ impl' = impl /\ undo' = undo /\ running' = running
  BY DEF Done
<1>2. ops' \in 0 .. MaxOps
  BY <1>1, StorageAssumption DEF SInv
<1>3. Holds(slot') /\ Holds(undo')
  BY <1>1 DEF SInv
<1>4. LastIs'
  BY <1>1 DEF LastIs, Did
<1> QED
  BY <1>1, <1>2, <1>3, <1>4 DEF SInv

LEMMA UndoneSInv ==
  ASSUME SInv, Undone
  PROVE  SInv'
<1>1. /\ running' = FALSE /\ slot' = undo /\ ops' = 0 /\ last' = Nothing
      /\ impl' = impl /\ undo' = undo
  BY DEF Undone
<1>2. ops' \in 0 .. MaxOps /\ Holds(slot') /\ Holds(undo') /\ LastIs'
  BY <1>1, StorageAssumption DEF SInv, LastIs
<1> QED
  BY <1>1, <1>2 DEF SInv

LEMMA StepSInv ==
  ASSUME NoMixedText, SInv, Next
  PROVE  SInv'
<1>1. ASSUME NEW i \in Impl, Upgrade(i) PROVE SInv'
  BY <1>1 DEF Upgrade, SInv, LastIs
<1>2. CASE Enter
  BY <1>2, StorageAssumption DEF Enter, SInv, LastIs
<1>3. CASE Leave
  <2>1. /\ impl' = impl /\ slot' = slot /\ undo' = slot
        /\ running' = FALSE /\ ops' = 0 /\ last' = Nothing
    BY <1>3 DEF Leave
  <2>2. ops' \in 0 .. MaxOps /\ Holds(slot') /\ Holds(undo') /\ LastIs'
    BY <2>1, StorageAssumption DEF SInv, LastIs
  <2> QED
    BY <2>1, <2>2 DEF SInv
<1>4. CASE Abort
  BY <1>4, UndoneSInv DEF Abort
<1>5. ASSUME NEW e \in EntriesOf(impl), NEW v \in Value, HasType(TypeOf(e), v),
             Write(e, v)
      PROVE  SInv'
  <2> DEFINE b  == Encode(impl, TypeOf(e), v)
             rc == CheckStore(HostOf(e), KeysOf(e), b)
             s  == IF rc = StatusOk THEN Put(SlotOf(e), b) ELSE slot
  <2>1. running /\ ops < MaxOps
    BY <1>5 DEF Write, Acting
  <2>2. Undone \/ Done(s, Did("write", e, v))
    BY <1>5 DEF Write, SchemaCheck
  <2>3. Holds(s)
    BY <1>5, PutHolds DEF SInv
  <2> HIDE DEF s
  <2> QED
    BY <1>5, <2>1, <2>2, <2>3, DoneSInv, UndoneSInv
<1>6. ASSUME NEW e \in EntriesOf(impl), Delete(e) PROVE SInv'
  <2> DEFINE rc == CheckKeys(HostOf(e), KeysOf(e))
             s  == IF rc = StatusOk THEN Without(SlotOf(e)) ELSE slot
             v  == DefaultOf(TypeOf(e))
  <2>1. running /\ ops < MaxOps
    BY <1>6 DEF Delete, Acting
  <2>2. Undone \/ Done(s, Did("delete", e, v))
    BY <1>6 DEF Delete, SchemaCheck
  <2>3. Holds(s)
    <3>1. e \in Entry
      BY DEF EntriesOf
    <3> QED
      BY <3>1, WithoutHolds DEF SInv
  <2>4. HasType(TypeOf(e), v)
    <3>1. e \in Entry
      BY DEF EntriesOf
    <3> QED
      BY <3>1, TypeIs, DefaultIs
  <2> HIDE DEF s, v
  <2> QED
    BY <2>1, <2>2, <2>3, <2>4, DoneSInv, UndoneSInv
<1>7. ASSUME NEW e \in EntriesOf(impl), RustRead(e) PROVE SInv'
  <2>1. running /\ ops < MaxOps /\ SdkOf[impl] = "rust"
    BY <1>7 DEF RustRead, Acting
  <2>2. Done(slot, Did("read", e, RustSees(e)))
    BY <1>7 DEF RustRead, RustSees
  <2>3. HasType(TypeOf(e), RustSees(e))
    BY <2>1, RustReads
  <2>4. Holds(slot)
    BY DEF SInv
  <2> QED
    BY <2>1, <2>2, <2>3, <2>4, DoneSInv
<1>8. ASSUME NEW e \in EntriesOf(impl), GoRead(e) PROVE SInv'
  <2> DEFINE d == GoDecode(TypeOf(e), slot[SlotOf(e)])
             v == DefaultOf(TypeOf(e))
  <2>1. running /\ ops < MaxOps /\ SdkOf[impl] = "go" /\ e \in Entry /\ Holds(slot)
    BY <1>8 DEF GoRead, Acting, EntriesOf, SInv
  <2>2. \/ Undone
        \/ Done(slot, Did("read", e, v))
        \/ LoadStatus(e) >= 0 /\ Done(slot, Did("read", e, d.value))
    <3>1. \/ LoadStatus(e) < SloadMissing \/ LoadStatus(e) = SloadMissing
          \/ LoadStatus(e) >= 0
      BY <2>1, LoadIs
    <3> QED
      BY <1>8, <3>1 DEF GoRead
  <2>3. HasType(TypeOf(e), v)
    BY <2>1, TypeIs, DefaultIs
  <2>4. LoadStatus(e) >= 0 => HasType(TypeOf(e), d.value)
    BY <2>1, GoReads
  <2> HIDE DEF d, v
  <2> QED
    BY <2>1, <2>2, <2>3, <2>4, DoneSInv, UndoneSInv
<1> QED
  BY <1>1, <1>2, <1>3, <1>4, <1>5, <1>6, <1>7, <1>8 DEF Next

LEMMA AlwaysSInv ==
  ASSUME NoMixedText
  PROVE  Spec => []SInv
<1>1. Init => SInv
  <2> SUFFICES ASSUME Init PROVE SInv
    OBVIOUS
  <2>1. DOMAIN slot = {} /\ undo = slot
    BY DEF Init
  <2>2. Holds(slot) /\ Holds(undo)
    BY <2>1 DEF Holds
  <2>3. impl \in Impl /\ running \in BOOLEAN /\ ops = 0 /\ last = Nothing
    BY DEF Init
  <2>4. ops \in 0 .. MaxOps /\ LastIs
    BY <2>3, StorageAssumption DEF LastIs
  <2> QED
    BY <2>2, <2>3, <2>4 DEF SInv
<1>2. SInv /\ [Next]_vars => SInv'
  <2> SUFFICES ASSUME SInv, [Next]_vars PROVE SInv'
    OBVIOUS
  <2>1. CASE UNCHANGED vars
    BY <2>1 DEF vars, SInv, LastIs
  <2> QED
    BY <2>1, StepSInv
<1> QED
  BY <1>1, <1>2, PTL DEF Spec

(* Only entries of the implementations' schemas are ever in storage, and   *)
(* what an accessor hands to its author is a value of the field's type,    *)
(* whichever of the implementations wrote it (declare_storage!, storage.go,*)
(* borsh.go), as long as no string is shared by the two SDKs.              *)
THEOREM StorageTypeOK ==
  ASSUME NoMixedText
  PROVE  Spec => []TypeOK
<1>1. SInv => TypeOK
  BY DEF SInv, Holds, LastIs, SlotsOf, TypeOK
<1> QED
  BY <1>1, AlwaysSInv, PTL

(* Every implementation that has a field reads from it the value that the  *)
(* others read, after any writes, deletes, reverts and upgrades: for the   *)
(* types other than bytes and string, Rust's and Go's encodings are one.   *)
THEOREM ReadsAlwaysAgree ==
  ASSUME NoMixedText
  PROVE  Spec => []ReadsAgree
<1>1. SInv => ReadsAgree
  <2> SUFFICES ASSUME SInv, NEW i \in Impl, NEW e \in EntriesOf(i)
               PROVE  View(i, e, slot) = View(Owner(e[1]), e, slot)
    BY DEF ReadsAgree
  <2>1. e \in Entry /\ Declares(i, e[1]) /\ Holds(slot)
    BY DEF EntriesOf, SInv
  <2>2. Owner(e[1]) \in Impl /\ Declares(Owner(e[1]), e[1])
    BY <2>1, EntryShape
  <2>3. PICK v : \A j \in Impl : Declares(j, e[1]) => View(j, e, slot) = Decoded(v)
    BY <2>1, ViewType
  <2> QED
    BY <2>1, <2>2, <2>3
<1> QED
  BY <1>1, AlwaysSInv, PTL

-----------------------------------------------------------------------------
(* Storage as a map of typed entries *)

\* The host enforces, for the fields an implementation in Rust has, the types
\* that it was compiled from.
RustUndrifted ==
  \A i \in Impl, n \in Name :
    SdkOf[i] = "rust" /\ Declares(i, n) => Abi[i][n] = Code[i][n]

\* The value of every entry.
ValueAt(e, slots) == View(Owner(e[1]), e, slots).value
Values(slots) == [e \in Entry |-> ValueAt(e, slots)]

LEMMA ValueOfHeld ==
  ASSUME NoMixedText, NEW slots, Holds(slots), NEW e \in Entry
  PROVE  /\ View(Owner(e[1]), e, slots) = Decoded(ValueAt(e, slots))
         /\ HasType(TypeOf(e), ValueAt(e, slots))
<1>1. Owner(e[1]) \in Impl /\ Declares(Owner(e[1]), e[1])
  BY EntryShape
<1>2. PICK v : /\ HasType(TypeOf(e), v)
               /\ \A j \in Impl : Declares(j, e[1]) => View(j, e, slots) = Decoded(v)
  BY ViewType
<1>3. View(Owner(e[1]), e, slots) = Decoded(v)
  BY <1>1, <1>2
<1> QED
  BY <1>2, <1>3 DEF ValueAt, Decoded

\* A value depends on its own slot only.
LEMMA ValueLocal ==
  ASSUME NEW e \in Entry, NEW s, NEW t,
         SlotOf(e) \in DOMAIN s <=> SlotOf(e) \in DOMAIN t,
         SlotOf(e) \in DOMAIN t => s[SlotOf(e)] = t[SlotOf(e)]
  PROVE  ValueAt(e, s) = ValueAt(e, t)
BY DEF ValueAt, View

LEMMA PutValues ==
  ASSUME NoMixedText, SInv, NEW e \in EntriesOf(impl),
         NEW v \in Value, HasType(TypeOf(e), v)
  PROVE  Values(Put(SlotOf(e), Encode(impl, TypeOf(e), v))) =
           [Values(slot) EXCEPT ![e] = v]
<1> DEFINE b == Encode(impl, TypeOf(e), v)
           s == Put(SlotOf(e), b)
<1>1. e \in Entry /\ Declares(impl, e[1]) /\ impl \in Impl
  BY DEF EntriesOf, SInv
<1>2. /\ DOMAIN s = DOMAIN slot \cup {SlotOf(e)} /\ s[SlotOf(e)] = b
      /\ \A d \in Entry : d # e =>
           /\ SlotOf(d) \in DOMAIN s <=> SlotOf(d) \in DOMAIN slot
           /\ SlotOf(d) \in DOMAIN slot => s[SlotOf(d)] = slot[SlotOf(d)]
  BY <1>1, PutIs
<1> HIDE DEF s
<1>3. ValueAt(e, s) = v
  <2>1. Owner(e[1]) \in Impl /\ Declares(Owner(e[1]), e[1])
    BY <1>1, EntryShape
  <2>2. SlotOf(e) \in DOMAIN s /\ s[SlotOf(e)] = Encode(impl, TypeOf(e), v)
    BY <1>2
  <2>3. View(Owner(e[1]), e, s) = Decoded(v)
    BY <1>1, <2>1, <2>2, ViewOfHeld
  <2> QED
    BY <2>3 DEF ValueAt, Decoded
<1>4. ASSUME NEW d \in Entry, d # e PROVE ValueAt(d, s) = ValueAt(d, slot)
  BY <1>2, <1>4, ValueLocal
<1>5. Values(s) = [Values(slot) EXCEPT ![e] = v]
  BY <1>1, <1>3, <1>4 DEF Values
<1> QED
  BY <1>5 DEF s

LEMMA WithoutValues ==
  ASSUME NEW e \in Entry
  PROVE  Values(Without(SlotOf(e))) =
           [Values(slot) EXCEPT ![e] = DefaultOf(TypeOf(e))]
<1> DEFINE s == Without(SlotOf(e))
<1>1. /\ DOMAIN s = DOMAIN slot \ {SlotOf(e)}
      /\ \A d \in Entry : d # e =>
           /\ SlotOf(d) \in DOMAIN s <=> SlotOf(d) \in DOMAIN slot
           /\ SlotOf(d) \in DOMAIN slot => s[SlotOf(d)] = slot[SlotOf(d)]
  BY WithoutIs
<1> HIDE DEF s
<1>2. ValueAt(e, s) = DefaultOf(TypeOf(e))
  <2>1. View(Owner(e[1]), e, s) = Decoded(DefaultOf(TypeOf(e)))
    BY <1>1, ViewIs
  <2> QED
    BY <2>1 DEF ValueAt, Decoded
<1>3. ASSUME NEW d \in Entry, d # e PROVE ValueAt(d, s) = ValueAt(d, slot)
  BY <1>1, <1>3, ValueLocal
<1>4. Values(s) = [Values(slot) EXCEPT ![e] = DefaultOf(TypeOf(e))]
  BY <1>2, <1>3 DEF Values
<1> QED
  BY <1>4 DEF s

\* A value of a type is as wide as the type.
LEMMA WidthIs ==
  ASSUME NEW t \in Scalar, NEW v \in Bytes, HasType(t, v)
  PROVE  /\ FixedWidth(t) => Len(v) = t.width
         /\ \A i \in Impl : WidthOk(t, Len(Encode(i, t, v)))
         /\ WidthOk(t, Len(EncodeKey(t, v)))
<1>1. CASE t.kind = "bool"
  <2>1. v \in {<<0>>, <<1>>} /\ t.width = 1
    BY <1>1 DEF HasType, Scalar
  <2>2. Len(v) = 1
    BY <2>1
  <2> QED
    BY <1>1, <2>1, <2>2 DEF WidthOk, Encode, RustEncode, GoEncode, EncodeKey
<1>2. CASE t.kind = "fixed"
  <2>1. Len(v) = t.width
    BY <1>2 DEF HasType
  <2> QED
    BY <1>2, <2>1 DEF WidthOk, Encode, RustEncode, GoEncode, EncodeKey
<1>3. CASE t.kind \notin {"bool", "fixed"}
  BY <1>3 DEF WidthOk, FixedWidth
<1> QED
  BY <1>1, <1>2, <1>3

\* The host lets through what an implementation does under its own schema.
LEMMA HostLets ==
  ASSUME RustUndrifted, SInv, NEW e \in EntriesOf(impl), SdkOf[impl] = "rust"
  PROVE  /\ CheckKeys(HostOf(e), KeysOf(e)) = StatusOk
         /\ \A v \in Value : HasType(TypeOf(e), v) =>
              CheckStore(HostOf(e), KeysOf(e), Encode(impl, TypeOf(e), v)) = StatusOk
<1>1. e \in Entry /\ Declares(impl, e[1]) /\ impl \in Impl /\ e[1] \in Name
  BY EntryShape DEF EntriesOf, SInv
<1>2. HostOf(e) = FieldOf(e) /\ FieldOf(e) # Undeclared
  <2>1. HostOf(e) = Code[impl][e[1]] /\ Code[impl][e[1]] # Undeclared
    BY <1>1 DEF RustUndrifted, HostOf, Declares
  <2> QED
    BY <1>1, <2>1, TypeIs
<1>3. Len(KeysOf(e)) = Len(FieldOf(e).keys)
  BY <1>1, EntryShape, KeysShape
<1>4. ASSUME NEW j \in DOMAIN KeysOf(e)
      PROVE  WidthOk(FieldOf(e).keys[j], Len(KeysOf(e)[j]))
  <2>1. j \in 1 .. Len(e[2])
    BY DEF KeysOf, KeyBytes
  <2>2. /\ e[2][j] \in Bytes
        /\ KeysOf(e)[j] = EncodeKey(FieldOf(e).keys[j], e[2][j])
    BY <1>1, <2>1, KeysShape
  <2>3. /\ FieldOf(e) \in Field /\ Len(e[2]) = Len(FieldOf(e).keys)
        /\ e[2] \in Seq(Bytes)
        /\ \A k \in DOMAIN e[2] : HasType(FieldOf(e).keys[k], e[2][k])
    BY <1>1, EntryShape
  <2>4. FieldOf(e).keys \in Seq(Scalar)
    BY <2>3 DEF Field
  <2>5. FieldOf(e).keys[j] \in Scalar
    BY <2>1, <2>3, <2>4, ElementOfSeq
  <2>6. HasType(FieldOf(e).keys[j], e[2][j])
    BY <2>1, <2>3, LenProperties
  <2> HIDE DEF Bytes
  <2> DEFINE t == FieldOf(e).keys[j]
             k == e[2][j]
  <2>7. t \in Scalar /\ k \in Bytes /\ HasType(t, k)
    BY <2>2, <2>5, <2>6
  <2> HIDE DEF t, k
  <2>8. WidthOk(t, Len(EncodeKey(t, k)))
    BY <2>7, WidthIs
  <2> QED
    BY <2>2, <2>8 DEF t, k
<1>5. CheckKeys(HostOf(e), KeysOf(e)) = StatusOk
  <2> DEFINE kb == KeysOf(e)
             f  == FieldOf(e)
  <2>1. /\ ~ (f = Undeclared) /\ ~ (Len(kb) # Len(f.keys))
        /\ ~ \E j \in DOMAIN kb : ~ WidthOk(f.keys[j], Len(kb[j]))
    BY <1>2, <1>3, <1>4
  <2> HIDE DEF kb, f
  <2>2. CheckKeys(f, kb) = StatusOk
    BY <2>1 DEF CheckKeys
  <2> QED
    BY <1>2, <2>2 DEF kb, f
<1>6. ASSUME NEW v \in Value, HasType(TypeOf(e), v)
      PROVE  CheckStore(HostOf(e), KeysOf(e), Encode(impl, TypeOf(e), v)) = StatusOk
  <2>1. v \in Bytes /\ TypeOf(e) \in Scalar
    BY <1>1, StorageAssumption, TypeIs
  <2>2. WidthOk(TypeOf(e), Len(Encode(impl, TypeOf(e), v)))
    BY <1>1, <1>6, <2>1, WidthIs
  <2>3. HostOf(e).value = TypeOf(e)
    BY <1>2 DEF TypeOf
  <2> QED
    BY <1>5, <2>2, <2>3 DEF CheckStore
<1> QED
  BY <1>5, <1>6

-----------------------------------------------------------------------------

\* An undone frame puts every value back.
LEMMA UndoneFails ==
  ASSUME running, Undone
  PROVE  Abstract!Fail
BY DEF Undone, Abstract!Fail, Abstract!Nothing, Nothing

\* An operation on an entry, when the host lets it through, is the map's.
LEMMA WriteWrites ==
  ASSUME NoMixedText, SInv, running, NEW e \in EntriesOf(impl), NEW v \in Value,
         HasType(TypeOf(e), v),
         Done(Put(SlotOf(e), Encode(impl, TypeOf(e), v)), Did("write", e, v))
  PROVE  Abstract!Write(e, v)
<1> DEFINE s == Put(SlotOf(e), Encode(impl, TypeOf(e), v))
<1>1. /\ slot' = s /\ last' = Did("write", e, v)
      /\ undo' = undo /\ running' = running
  BY DEF Done
<1>2. Values(s) = [Values(slot) EXCEPT ![e] = v]
  BY PutValues
<1> HIDE DEF s
<1>3. Values(slot') = [Values(slot) EXCEPT ![e] = v]
  BY <1>1, <1>2
<1>4. [d \in Entry |-> View(Owner(d[1]), d, slot').value] =
        [[d \in Entry |-> View(Owner(d[1]), d, slot).value] EXCEPT ![e] = v]
  BY <1>3 DEF Values, ValueAt
<1> QED
  BY <1>1, <1>4 DEF Abstract!Write, Abstract!Did, Did

LEMMA DeleteDeletes ==
  ASSUME SInv, running, NEW e \in EntriesOf(impl),
         Done(Without(SlotOf(e)), Did("delete", e, DefaultOf(TypeOf(e))))
  PROVE  Abstract!Delete(e)
<1> DEFINE s == Without(SlotOf(e))
           v == DefaultOf(TypeOf(e))
<1>1. /\ slot' = s /\ last' = Did("delete", e, v)
      /\ undo' = undo /\ running' = running
  BY DEF Done
<1>2. e \in Entry
  BY DEF EntriesOf
<1>3. Values(s) = [Values(slot) EXCEPT ![e] = v]
  BY <1>2, WithoutValues
<1> HIDE DEF s
<1>4. Values(slot') = [Values(slot) EXCEPT ![e] = v]
  BY <1>1, <1>3
<1>5. [d \in Entry |-> View(Owner(d[1]), d, slot').value] =
        [[d \in Entry |-> View(Owner(d[1]), d, slot).value] EXCEPT ![e] = v]
  BY <1>4 DEF Values, ValueAt
<1>6. [d \in Entry |-> DefaultOf(TypeOf(d))][e] = v
  BY <1>2
<1> QED
  BY <1>1, <1>5, <1>6 DEF Abstract!Delete, Abstract!Did, Did

LEMMA ReadReads ==
  ASSUME SInv, running, NEW e \in EntriesOf(impl), NEW v,
         View(Owner(e[1]), e, slot) = Decoded(v), Done(slot, Did("read", e, v))
  PROVE  Abstract!Read(e)
<1>1. /\ slot' = slot /\ last' = Did("read", e, v)
      /\ undo' = undo /\ running' = running
  BY DEF Done
<1>2. e \in Entry
  BY DEF EntriesOf
<1>3. [d \in Entry |-> View(Owner(d[1]), d, slot).value][e] = v
  BY <1>2 DEF Decoded
<1> QED
  BY <1>1, <1>3 DEF Abstract!Read, Abstract!Did, Did

LEMMA StepMaps ==
  ASSUME NoMixedText, RustUndrifted, SInv, Next
  PROVE  Abstract!Next \/ UNCHANGED Abstract!vars
<1> DEFINE Mapped == Abstract!Next \/ UNCHANGED Abstract!vars
<1>0. /\ impl \in Impl /\ SdkOf[impl] \in {"rust", "go"} /\ Holds(slot)
      /\ EntriesOf(impl) \subseteq Entry
  BY StorageAssumption DEF SInv, EntriesOf
<1>1. ASSUME NEW i \in Impl, Upgrade(i) PROVE Mapped
  BY <1>1 DEF Upgrade, Abstract!vars
<1>2. CASE Enter
  <2>1. Abstract!Begin
    BY <1>2 DEF Enter, Abstract!Begin, Abstract!Nothing, Nothing
  <2> QED
    BY <2>1 DEF Abstract!Next
<1>3. CASE Leave
  <2>1. Abstract!Commit
    BY <1>3 DEF Leave, Abstract!Commit, Abstract!Nothing, Nothing
  <2> QED
    BY <2>1 DEF Abstract!Next
<1>4. CASE Abort
  BY <1>4, UndoneFails DEF Abort, Abstract!Next
<1>5. ASSUME NEW e \in EntriesOf(impl), NEW v \in Value, HasType(TypeOf(e), v),
             Write(e, v)
      PROVE  Mapped
  <2> DEFINE b  == Encode(impl, TypeOf(e), v)
             rc == CheckStore(HostOf(e), KeysOf(e), b)
             s  == Put(SlotOf(e), b)
  <2>1. running
    BY <1>5 DEF Write, Acting
  <2>2. SdkOf[impl] = "rust" => rc = StatusOk
    BY <1>5, HostLets
  <2>3. Undone \/ (rc = StatusOk /\ Done(s, Did("write", e, v)))
    BY <1>0, <1>5, <2>2 DEF Write, SchemaCheck
  <2>4. CASE Undone
    BY <2>1, <2>4, UndoneFails DEF Abstract!Next
  <2>5. CASE Done(s, Did("write", e, v))
    <3>1. Abstract!Write(e, v)
      BY <1>5, <2>1, <2>5, WriteWrites
    <3> QED
      BY <1>0, <3>1 DEF Abstract!Next
  <2> QED
    BY <2>3, <2>4, <2>5
<1>6. ASSUME NEW e \in EntriesOf(impl), Delete(e) PROVE Mapped
  <2> DEFINE rc == CheckKeys(HostOf(e), KeysOf(e))
             s  == Without(SlotOf(e))
             v  == DefaultOf(TypeOf(e))
  <2>1. running
    BY <1>6 DEF Delete, Acting
  <2>2. SdkOf[impl] = "rust" => rc = StatusOk
    BY HostLets
  <2>3. Undone \/ (rc = StatusOk /\ Done(s, Did("delete", e, v)))
    BY <1>0, <1>6, <2>2 DEF Delete, SchemaCheck
  <2>4. CASE Undone
    BY <2>1, <2>4, UndoneFails DEF Abstract!Next
  <2>5. CASE Done(s, Did("delete", e, v))
    <3>1. Abstract!Delete(e)
      BY <2>1, <2>5, DeleteDeletes
    <3> QED
      BY <1>0, <3>1 DEF Abstract!Next
  <2> QED
    BY <2>3, <2>4, <2>5
<1>7. ASSUME NEW e \in EntriesOf(impl), RustRead(e) PROVE Mapped
  <2>1. running /\ SdkOf[impl] = "rust"
    BY <1>7 DEF RustRead, Acting
  <2>2. Done(slot, Did("read", e, RustSees(e)))
    BY <1>7 DEF RustRead, RustSees
  <2>3. CheckKeys(HostOf(e), KeysOf(e)) = StatusOk
    BY <2>1, HostLets
  <2>4. Decoded(RustSees(e)) = View(Owner(e[1]), e, slot)
    BY <2>1, <2>3, RustReads
  <2>5. Abstract!Read(e)
    BY <2>1, <2>2, <2>4, ReadReads
  <2> QED
    BY <1>0, <2>5 DEF Abstract!Next
<1>8. ASSUME NEW e \in EntriesOf(impl), GoRead(e) PROVE Mapped
  <2> DEFINE d == GoDecode(TypeOf(e), slot[SlotOf(e)])
             v == DefaultOf(TypeOf(e))
  <2>1. running /\ SdkOf[impl] = "go" /\ e \in Entry
    BY <1>0, <1>8 DEF GoRead, Acting
  <2>2. \/ Undone
        \/ LoadStatus(e) = SloadMissing /\ Done(slot, Did("read", e, v))
        \/ LoadStatus(e) >= 0 /\ Done(slot, Did("read", e, d.value))
    <3>1. \/ LoadStatus(e) < SloadMissing \/ LoadStatus(e) = SloadMissing
          \/ LoadStatus(e) >= 0
      BY <2>1, LoadIs
    <3> QED
      BY <1>8, <3>1 DEF GoRead
  <2>3. CASE Undone
    BY <2>1, <2>3, UndoneFails DEF Abstract!Next
  <2>4. CASE LoadStatus(e) = SloadMissing /\ Done(slot, Did("read", e, v))
    <3>1. View(Owner(e[1]), e, slot) = Decoded(v)
      BY <2>1, <2>4, LoadIs, ViewIs
    <3>2. Abstract!Read(e)
      BY <2>1, <2>4, <3>1, ReadReads
    <3> QED
      BY <1>0, <3>2 DEF Abstract!Next
  <2>5. CASE LoadStatus(e) >= 0 /\ Done(slot, Did("read", e, d.value))
    <3>1. d = Decoded(d.value) /\ d = View(Owner(e[1]), e, slot)
      BY <2>1, <2>5, GoReads
    <3> HIDE DEF d
    <3>2. View(Owner(e[1]), e, slot) = Decoded(d.value)
      BY <3>1
    <3>3. Abstract!Read(e)
      BY <2>1, <2>5, <3>2, ReadReads
    <3> QED
      BY <1>0, <3>3 DEF Abstract!Next
  <2> QED
    BY <2>2, <2>3, <2>4, <2>5
<1> QED
  BY <1>1, <1>2, <1>3, <1>4, <1>5, <1>6, <1>7, <1>8 DEF Next

(* Storage is a map from typed entries to values: a read returns the value *)
(* last written to that entry, by whichever implementation, or the type's  *)
(* default; no operation on another entry, no rejected operation and no    *)
(* failed frame changes it (declare_storage!, Store, Load and Delete).     *)
(* The Rust accessors drop the host's status, so their schema must be the  *)
(* one the host enforces; the Go functions revert on a status, so theirs   *)
(* need not be.                                                            *)
THEOREM StorageActsAsMap ==
  ASSUME NoMixedText, RustUndrifted
  PROVE  Spec => ActsAsMap
<1>1. Init => Abstract!Init
  <2> SUFFICES ASSUME Init PROVE Abstract!Init
    OBVIOUS
  <2>1. DOMAIN slot = {} /\ undo = slot /\ running = FALSE /\ last = Nothing
    BY DEF Init
  <2>2. \A e \in Entry : View(Owner(e[1]), e, slot).value = DefaultOf(TypeOf(e))
    BY <2>1 DEF View, Decoded
  <2> QED
    BY <2>1, <2>2 DEF Abstract!Init, Abstract!Nothing, Nothing
<1>2. SInv /\ [Next]_vars => [Abstract!Next]_(Abstract!vars)
  <2> SUFFICES ASSUME SInv, [Next]_vars
               PROVE  Abstract!Next \/ UNCHANGED Abstract!vars
    OBVIOUS
  <2>1. CASE UNCHANGED vars
    BY <2>1 DEF vars, Abstract!vars
  <2> QED
    BY <2>1, StepMaps
<1> QED
  BY <1>1, <1>2, AlwaysSInv, PTL DEF Spec, ActsAsMap, Abstract!Spec
=============================================================================
