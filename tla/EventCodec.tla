----------------------------- MODULE EventCodec -----------------------------
(***************************************************************************)
(* What declare_events! makes of an event of otigen.toml: which            *)
(* declarations it accepts, the topics and the data of an emission.  Blake3*)
(* is taken to have no collisions.  A type has two spellings, Rust's and   *)
(* the canonical one.                                                      *)
(***************************************************************************)
EXTENDS BorshCodec

Canonical ==
  [u8 |-> "uint8", u16 |-> "uint16", u32 |-> "uint32", u64 |-> "uint64",
   u128 |-> "uint128", i8 |-> "int8", i16 |-> "int16", i32 |-> "int32",
   i64 |-> "int64", i128 |-> "int128", bool |-> "bool", address |-> "address",
   hash32 |-> "bytes32", bytes |-> "bytes", string |-> "string"]

FieldTy == DOMAIN Canonical

\* FieldTy::parse, of a token that is no type: nothing.
Parses(token) == {ty \in FieldTy : token \in {ty, Canonical[ty]}}
Parse(token)  == CHOOSE ty \in FieldTy : token \in {ty, Canonical[ty]}

TopicAllowed(ty) == ty \notin Variable

-----------------------------------------------------------------------------
(* Lowering a declaration [name, fields], a field being a type's token and *)
(* whether it is indexed.                                                  *)

\* The elements of s that are to be kept, in order.
Where(s, keep) ==
  LET kept[n \in 0 .. Len(s)] ==
        IF n = 0 THEN <<>> ELSE IF keep[n] THEN Append(kept[n - 1], s[n]) ELSE kept[n - 1]
  IN  kept[Len(s)]

IndexedOf(fields) == Where(fields, [i \in DOMAIN fields |-> fields[i].indexed])
DataOf(fields)    == Where(fields, [i \in DOMAIN fields |-> ~ fields[i].indexed])

FieldLowers(f) == Parses(f.ty) # {} /\ (f.indexed => TopicAllowed(Parse(f.ty)))

\* The count is compared before the field is counted.
LowersOneMore(raw) ==
  /\ \A i \in DOMAIN raw.fields : FieldLowers(raw.fields[i])
  /\ Len(IndexedOf(raw.fields)) <= 4

Lowers(raw) ==
  /\ \A i \in DOMAIN raw.fields : FieldLowers(raw.fields[i])
  /\ Len(IndexedOf(raw.fields)) <= 3

CanonicalSignature(name, fields) ==
  <<name, [i \in DOMAIN fields |-> Canonical[fields[i].ty]]>>

Blake3(text) == [blake3 |-> text]

LowerEvent(raw) ==
  LET fields == [i \in DOMAIN raw.fields |->
                   [ty |-> Parse(raw.fields[i].ty), indexed |-> raw.fields[i].indexed]]
  IN  [name |-> raw.name, fields |-> fields,
       topic0 |-> Blake3(CanonicalSignature(raw.name, fields))]

-----------------------------------------------------------------------------
(* Emitting: values is a sequence with one value for each field *)

Filled(b, with) == b \o [i \in 1 .. 32 - Len(b) |-> with]

\* One zero too few.
TopicOneShort(ty, v) ==
  FixedBytes(ty, v) \o [i \in 1 .. 31 - Len(FixedBytes(ty, v)) |-> 0]

\* A negative number is one in all thirty-two bytes.
TopicSignExtended(ty, v) ==
  Filled(FixedBytes(ty, v), IF ty \in Signed /\ v < 0 THEN 255 ELSE 0)

TopicFromField(ty, v) == Filled(FixedBytes(ty, v), 0)

\* A field of its own needs no length in front.
SingleFieldBare(ty, v) == IF ty \in Variable THEN v ELSE FixedBytes(ty, v)

SingleFieldAsBytes(ty, v) ==
  IF ty \in Variable THEN ToLeBytes(Len(v), 4) \o v ELSE FixedBytes(ty, v)

AppendFieldBytes(data, ty, v) ==
  data \o (IF ty \in Variable THEN ToLeBytes(Len(v), 4) \o v ELSE FixedBytes(ty, v))

BuildDataEmit(fields) ==
  IF Len(fields) = 1 THEN SingleFieldAsBytes(fields[1].ty, fields[1].value)
  ELSE FoldLeft(LAMBDA data, f : AppendFieldBytes(data, f.ty, f.value), <<>>, fields)

\* The fields with their values.
Filling(ev, values) ==
  [i \in DOMAIN ev.fields |->
     [ty |-> ev.fields[i].ty, indexed |-> ev.fields[i].indexed, value |-> values[i]]]

Topics(topic0, fields) ==
  <<topic0>> \o [i \in DOMAIN IndexedOf(fields) |->
                   TopicFromField(IndexedOf(fields)[i].ty, IndexedOf(fields)[i].value)]

\* The generated emit().
EmitStruct(ev, values) ==
  LET fields == Filling(ev, values)
  IN  [topics |-> Topics(ev.topic0, fields), data |-> BuildDataEmit(DataOf(fields))]

-----------------------------------------------------------------------------
(* A subscriber has the event's name and types from the ABI, and reads what *)
(* is in the log by the conventions the SDK documents.                      *)

AbiSignature(raw) ==
  <<raw.name, [i \in DOMAIN raw.fields |-> Canonical[Parse(raw.fields[i].ty)]]>>
Topic0FromAbi(raw) == Blake3(AbiSignature(raw))

\* The topic to filter for: "little-endian bytes right-padded with zeros".
FilterTopic(ty, v) ==
  [k \in 1 .. 32 |-> IF k <= Len(FixedBytes(ty, v)) THEN FixedBytes(ty, v)[k] ELSE 0]
=============================================================================
