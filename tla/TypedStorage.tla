---------------------------- MODULE TypedStorage ----------------------------
(***************************************************************************)
(* Schema-derived storage: the accessors declare_storage! generates for a  *)
(* Rust contract, the Store, Load and Delete functions of the Go SDK, and  *)
(* the host functions under them.  One contract's storage is used by       *)
(* several implementations in turn (a proxy delegate-calling into them),   *)
(* each with the schema its accessors were compiled from and the schema    *)
(* the host enforces for it.                                               *)
(*                                                                         *)
(* Bytes are natural numbers; the four bytes of a length prefix count as   *)
(* one.  A value is the sequence of bytes that carries it: an integer's    *)
(* little-endian bytes, a vec's elements back to back.                     *)
(***************************************************************************)
EXTENDS Integers, Sequences

CONSTANTS
  Name,                 \* field names
  Impl, SdkOf,          \* implementations, in Rust or in Go
  Code,                 \* the schema an implementation's accessors come from
  Abi,                  \* the schema the host enforces for it
  Key, Value,           \* the keys and values contracts use
  Utf8, Codec,          \* the strings, and the encodings of the custom type
  CustomDefault,        \* and the custom type's default
  MaxOps                \* bound on the storage operations of a frame

-----------------------------------------------------------------------------
(* Types and schemas *)

ScalarKind == {"fixed", "bool", "bytes", "string", "vec", "custom"}

\* width: of the value, or of a vec's element; 0 if it varies.
Scalar ==
  {t \in [kind : ScalarKind, width : Nat] : t.kind = "bool" => t.width = 1}

FixedWidth(t) == t.kind \in {"fixed", "bool"}

Field == [keys : Seq(Scalar), value : Scalar]
Undeclared == [keys |-> <<>>, value |-> [kind |-> "none", width |-> 0]]

\* lower_fields_scoped: what becomes a pub mod storage and not a compile error.
LowerField(f) ==
  /\ Len(f.keys) <= 3
  /\ \A j \in DOMAIN f.keys : f.keys[j].kind \notin {"vec", "custom"}
  /\ f.value.kind = "vec" => f.value.width > 0

\* v is a value of type t.
HasType(t, v) ==
  CASE t.kind = "fixed"  -> Len(v) = t.width
    [] t.kind = "bool"   -> v \in {<<0>>, <<1>>}
    [] t.kind = "bytes"  -> TRUE
    [] t.kind = "string" -> v \in Utf8
    [] t.kind = "vec"    -> Len(v) % t.width = 0
    [] t.kind = "custom" -> v \in Codec

Zeros(n) == [j \in 1 .. n |-> 0]

\* Nothing read is no bytes, whatever the type.
DefaultOfNothing(t) == <<>>

DefaultOf(t) ==
  CASE FixedWidth(t)      -> Zeros(t.width)
    [] t.kind = "custom"  -> CustomDefault
    [] OTHER              -> <<>>

Declares(i, n) == Code[i][n] # Undeclared

\* A field and the keys of one of its values.
IsEntry(f, ks) ==
  /\ Len(ks) = Len(f.keys)
  /\ \A j \in DOMAIN ks : HasType(f.keys[j], ks[j])

\* An implementation with the field, and the field: SharedTypes makes it the
\* same whichever is chosen.
Owner(n)   == CHOOSE i \in Impl : Declares(i, n)
FieldOf(e) == Code[Owner(e[1])][e[1]]
TypeOf(e)  == FieldOf(e).value

Entry ==
  {e \in Name \X UNION {[1 .. a -> Key] : a \in 0 .. 3} :
     (\E i \in Impl : Declares(i, e[1])) /\ IsEntry(FieldOf(e), e[2])}

EntriesOf(i) == {e \in Entry : Declares(i, e[1])}

ASSUME StorageAssumption ==
  /\ SdkOf \in [Impl -> {"rust", "go"}]
  /\ Name \subseteq Seq(Nat) /\ Key \subseteq Seq(Nat) /\ Value \subseteq Seq(Nat)
  /\ Utf8 \subseteq Seq(Nat) /\ <<>> \in Utf8
  /\ Codec \subseteq Seq(Nat) /\ CustomDefault \in Codec
  /\ Code \in [Impl -> [Name -> Field \cup {Undeclared}]]
  /\ Abi \in [Impl -> [Name -> Field \cup {Undeclared}]]
  /\ \A i \in Impl, n \in Name : Declares(i, n) => LowerField(Code[i][n])
  /\ MaxOps \in Nat

\* Borsh is self-delimiting: a type one of whose encodings is empty has no
\* other.
ASSUME SelfDelimiting == <<>> \in Codec => Codec = {<<>>}

\* Implementations of one contract agree on the type of a field they share.
ASSUME SharedTypes ==
  \A i, j \in Impl, n \in Name :
    Declares(i, n) /\ Declares(j, n) => Code[i][n] = Code[j][n]

\* No field's name starts with the name of a map: the preimage of a slot has
\* no mark between the name and the keys.
ASSUME NoShadow ==
  \A m, n \in Name :
    (/\ \E i \in Impl : Declares(i, m) /\ Code[i][m].keys # <<>>
     /\ \E i \in Impl : Declares(i, n)
     /\ Len(m) <= Len(n) /\ SubSeq(n, 1, Len(m)) = m)
    => m = n

-----------------------------------------------------------------------------
(* Slots *)

\* Without the length prefix.
EncodeKeyBare(t, k) == k

EncodeKey(t, k) == IF t.kind \in {"bytes", "string"} THEN <<Len(k)>> \o k ELSE k

KeyBytes(f, ks) == [j \in 1 .. Len(ks) |-> EncodeKey(f.keys[j], ks[j])]

\* The host hashes the name and the keys' bytes, one after the other.
Joined(kb) ==
  CASE Len(kb) = 0 -> <<>>
    [] Len(kb) = 1 -> kb[1]
    [] Len(kb) = 2 -> kb[1] \o kb[2]
    [] OTHER       -> kb[1] \o (kb[2] \o kb[3])

Preimage(n, kb) == n \o Joined(kb)

KeysOf(e) == KeyBytes(FieldOf(e), e[2])
SlotOf(e) == Preimage(e[1], KeysOf(e))

-----------------------------------------------------------------------------
(* Values to bytes and back *)

Prefixed(t, v) == <<IF t.kind = "vec" THEN Len(v) \div t.width ELSE Len(v)>> \o v

\* encode_for_write: bytes and string are stored as they are.
RustEncode(t, v) == IF t.kind = "vec" THEN Prefixed(t, v) ELSE v

\* The Go SDK's Encoder: plain borsh.
GoEncode(t, v) == IF t.kind \in {"bytes", "string", "vec"} THEN Prefixed(t, v) ELSE v

Encode(i, t, v) == IF SdkOf[i] = "rust" THEN RustEncode(t, v) ELSE GoEncode(t, v)

\* The n-byte buffer of a fixed-width read, after the host has copied b in.
Fit(n, b) == [j \in 1 .. n |-> IF j <= Len(b) THEN b[j] ELSE 0]

Panics == [kind |-> "panic"]
Decoded(v) == [kind |-> "value", value |-> v]

\* The elements are taken from the first byte, where the count is.
RustDecodeNoSkip(t, b) ==
  CASE t.kind = "fixed"  -> Fit(t.width, b)
    [] t.kind = "bool"   -> IF b[1] # 0 THEN <<1>> ELSE <<0>>
    [] t.kind = "vec"    -> IF Len(b) < 1 + b[1] * t.width THEN <<>>
                            ELSE SubSeq(b, 1, b[1] * t.width)
    [] OTHER             -> b

\* decode_fixed, decode_variable: a value that does not decode is the default.
RustDecode(t, b) ==
  CASE t.kind = "fixed"  -> Fit(t.width, b)
    [] t.kind = "bool"   -> IF b[1] # 0 THEN <<1>> ELSE <<0>>
    [] t.kind = "bytes"  -> b
    [] t.kind = "string" -> IF b \in Utf8 THEN b ELSE <<>>
    [] t.kind = "vec"    -> IF Len(b) < 1 + b[1] * t.width THEN <<>>
                            ELSE SubSeq(b, 2, 1 + b[1] * t.width)
    [] t.kind = "custom" -> IF b \in Codec THEN b ELSE CustomDefault

\* The Go SDK's Decoder, which panics when the bytes run out.
GoDecode(t, b) ==
  CASE t.kind = "fixed"  -> IF Len(b) < t.width THEN Panics
                            ELSE Decoded(SubSeq(b, 1, t.width))
    [] t.kind = "bool"   -> IF Len(b) < 1 \/ b[1] > 1 THEN Panics
                            ELSE Decoded(<<b[1]>>)
    [] t.kind = "custom" -> IF b \in Codec THEN Decoded(b) ELSE Panics
    [] OTHER ->
         LET size == IF t.kind = "vec" THEN t.width ELSE 1
         IN  IF Len(b) < 1 \/ Len(b) < 1 + b[1] * size THEN Panics
             ELSE Decoded(SubSeq(b, 2, 1 + b[1] * size))

-----------------------------------------------------------------------------
(* The host *)

StatusOk          == 0
SloadMissing      == -1
UnknownField      == -31
FieldKindMismatch == -32
KeyTypeMismatch   == -33
ValueTypeMismatch == -34

WidthOk(t, n) == FixedWidth(t) => n = t.width

\* A call is checked against the field's declaration f, keys first.
CheckKeys(f, kb) ==
  CASE f = Undeclared          -> UnknownField
    [] Len(kb) # Len(f.keys)   -> FieldKindMismatch
    [] \E j \in DOMAIN kb : ~ WidthOk(f.keys[j], Len(kb[j])) -> KeyTypeMismatch
    [] OTHER                   -> StatusOk

CheckStore(f, kb, b) ==
  IF CheckKeys(f, kb) = StatusOk /\ ~ WidthOk(f.value, Len(b))
  THEN ValueTypeMismatch ELSE CheckKeys(f, kb)

VARIABLES
  impl,         \* the implementation the proxy points at
  slot,         \* the occupied slots, by preimage
  undo,         \* the slots as the running frame found them
  running,      \* a frame runs
  ops,          \* its storage operations so far
  last          \* its last operation, as the author's code sees it

vars == <<impl, slot, undo, running, ops, last>>

Nothing == [op |-> "none"]
Did(op, e, v) == [op |-> op, entry |-> e, value |-> v]

HostOf(e) == Abi[impl][e[1]]

\* The status of a read, and the bytes it copies out.
LoadStatus(e) ==
  IF CheckKeys(HostOf(e), KeysOf(e)) # StatusOk THEN CheckKeys(HostOf(e), KeysOf(e))
  ELSE IF SlotOf(e) \notin DOMAIN slot THEN SloadMissing
  ELSE Len(slot[SlotOf(e)])

Put(s, b)   == [r \in DOMAIN slot \cup {s} |-> IF r = s THEN b ELSE slot[r]]
Without(s)  == [r \in DOMAIN slot \ {s} |-> slot[r]]

-----------------------------------------------------------------------------

Init ==
  /\ impl \in Impl
  /\ slot = [r \in {} |-> <<>>] /\ undo = slot
  /\ running = FALSE /\ ops = 0
  /\ last = Nothing

\* The proxy is pointed at another implementation.
Upgrade(i) ==
  /\ ~ running
  /\ impl' = i
  /\ UNCHANGED <<slot, undo, running, ops, last>>

Enter ==
  /\ ~ running
  /\ running' = TRUE /\ undo' = slot /\ ops' = 0 /\ last' = Nothing
  /\ UNCHANGED <<impl, slot>>

Leave ==
  /\ running
  /\ running' = FALSE /\ undo' = slot /\ ops' = 0 /\ last' = Nothing
  /\ UNCHANGED <<impl, slot>>

\* A revert of the author's or of the SDK's, or a trap: nothing stays.
Undone ==
  /\ running' = FALSE /\ slot' = undo /\ ops' = 0 /\ last' = Nothing
  /\ UNCHANGED <<impl, undo>>

Abort == running /\ Undone

Acting == running /\ ops < MaxOps

Done(slots, did) ==
  /\ slot' = slots /\ last' = did /\ ops' = ops + 1
  /\ UNCHANGED <<impl, undo, running>>

\* schemaCheck as a no-op.
SchemaCheckSkipped(rc, slots, did) ==
  Done(IF rc = StatusOk THEN slots ELSE slot, did)

\* The Rust accessors drop the status; schemaCheck of the Go SDK reverts.
SchemaCheck(rc, slots, did) ==
  IF rc # StatusOk /\ SdkOf[impl] = "go" THEN Undone
  ELSE Done(IF rc = StatusOk THEN slots ELSE slot, did)

Write(e, v) ==
  LET b == Encode(impl, TypeOf(e), v)
  IN  /\ Acting
      /\ SchemaCheck(CheckStore(HostOf(e), KeysOf(e), b), Put(SlotOf(e), b),
                     Did("write", e, v))

Delete(e) ==
  /\ Acting
  /\ SchemaCheck(CheckKeys(HostOf(e), KeysOf(e)), Without(SlotOf(e)),
                 Did("delete", e, DefaultOf(TypeOf(e))))

\* read(): an error, a missing and an empty value are all the type's default.
RustRead(e) ==
  /\ Acting /\ SdkOf[impl] = "rust"
  /\ Done(slot, Did("read", e, IF LoadStatus(e) <= 0 THEN DefaultOf(TypeOf(e))
                       ELSE RustDecode(TypeOf(e), slot[SlotOf(e)])))

\* probeThenRead, then the author's decoding: only a missing value is none.
GoRead(e) ==
  /\ Acting /\ SdkOf[impl] = "go"
  /\ LET n == LoadStatus(e)
         d == GoDecode(TypeOf(e), slot[SlotOf(e)])
     IN  CASE n = SloadMissing    -> Done(slot, Did("read", e, DefaultOf(TypeOf(e))))
           [] n < SloadMissing    -> Undone
           [] n >= 0              -> IF d = Panics THEN Undone
                                     ELSE Done(slot, Did("read", e, d.value))

Next ==
  \/ \E i \in Impl : Upgrade(i)
  \/ Enter \/ Leave \/ Abort
  \/ \E e \in EntriesOf(impl) :
       \/ \E v \in {w \in Value : HasType(TypeOf(e), w)} : Write(e, v)
       \/ Delete(e) \/ RustRead(e) \/ GoRead(e)

Spec == Init /\ [][Next]_vars

-----------------------------------------------------------------------------
(* What implementation i makes of the bytes at an entry's slot *)
View(i, e, slots) ==
  LET s == SlotOf(e)
      t == TypeOf(e)
  IN  IF s \notin DOMAIN slots THEN Decoded(DefaultOf(t))
      ELSE IF SdkOf[i] = "go" THEN GoDecode(t, slots[s])
      ELSE Decoded(IF slots[s] = <<>> THEN DefaultOf(t) ELSE RustDecode(t, slots[s]))

TypeOK ==
  /\ impl \in Impl
  /\ DOMAIN slot \cup DOMAIN undo \subseteq {SlotOf(e) : e \in Entry}
  /\ running \in BOOLEAN /\ ops \in 0 .. MaxOps
  /\ last # Nothing =>
       /\ running
       /\ last.entry \in EntriesOf(impl)
       /\ HasType(TypeOf(last.entry), last.value)

(* Every implementation that declares a field reads the same value from it, *)
(* whichever SDK wrote it: storage values are borsh, "so every byte here    *)
(* must match Rust exactly" (borsh.go).                                     *)
ReadsAgree ==
  \A i \in Impl : \A e \in EntriesOf(i) :
    View(i, e, slot) = View(Owner(e[1]), e, slot)

(* The storage implements TypedMap: entries are variables of their own,     *)
(* whatever bytes their slots are derived from, a rejected operation never  *)
(* passes for one that happened, and an upgrade keeps every value.          *)
Abstract == INSTANCE TypedMap WITH
  Default <- [e \in Entry |-> DefaultOf(TypeOf(e))],
  val     <- [e \in Entry |-> View(Owner(e[1]), e, slot).value],
  kept    <- [e \in Entry |-> View(Owner(e[1]), e, undo).value],
  active  <- running

ActsAsMap == Abstract!Spec
=============================================================================
