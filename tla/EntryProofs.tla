----------------------------- MODULE EntryProofs -----------------------------
(***************************************************************************)
(* What an entry and its callers may rely on, from what borsh's decoders   *)
(* read of what its encoder wrote, for any function and any calldata.      *)
(***************************************************************************)
EXTENDS Entry, DataProofs

-----------------------------------------------------------------------------
(* Tuples in the shapes of their types *)

LEMMA ShapedFits ==
  ASSUME NEW tys \in Seq(Ty), NEW vals, Len(vals) = Len(tys),
         \A k \in 1 .. Len(tys) : FitsOne(tys[k], vals[k])
  PROVE  Fits(tys, vals)
<1>1. DOMAIN tys = 1 .. Len(tys) /\ \A k \in 1 .. Len(tys) : tys[k] \in Ty
  BY ElementOfSeq
<1>2. ASSUME NEW k \in DOMAIN tys
      PROVE  CASE tys[k] = "bool" -> vals[k] \in BOOLEAN
               [] tys[k] \in Variable \cup {"address", "hash32"} ->
                    \A j \in DOMAIN vals[k] : vals[k][j] \in 0 .. 255 \cup {Garbled}
               [] tys[k] = "vec_u64" -> \A j \in DOMAIN vals[k] : vals[k][j] \in Nat
               [] OTHER -> vals[k] \in Int
  <2> DEFINE ty == tys[k]  v == vals[k]
  <2>1. ty \in Ty /\ FitsOne(ty, v)
    BY <1>1
  <2> HIDE DEF ty, v
  <2>2. Raw = {"address", "hash32"}
    BY DEF Raw
  <2>3. \/ ty = "bool" \/ ty \in Variable \cup Raw \/ ty = "vec_u64"
        \/ ty \in DOMAIN Width \ ({"bool"} \cup Raw)
    BY <2>1 DEF Ty, Prefixed
  <2>4. CASE ty = "bool"
    <3>1. v \in BOOLEAN /\ ty \notin Variable \cup Raw /\ ty # "vec_u64"
      BY <2>1, <2>4, KindsDiffer DEF FitsOne
    <3> QED
      BY Zenon, <2>2, <2>4, <3>1 DEF ty, v
  <2>5. CASE ty \in Variable \cup Raw
    <3>1. ty # "bool" /\ ty # "vec_u64" /\ \A j \in DOMAIN v : v[j] \in 0 .. 255 \cup {Garbled}
      BY <2>1, <2>5, KindsDiffer DEF FitsOne
    <3> QED
      BY Zenon, <2>2, <2>5, <3>1 DEF ty, v
  <2>6. CASE ty = "vec_u64"
    <3>1. ty # "bool" /\ ty \notin Variable \cup Raw /\ \A j \in DOMAIN v : v[j] \in Nat
      BY <2>1, <2>6, KindsDiffer DEF FitsOne
    <3> QED
      BY Zenon, <2>2, <2>6, <3>1 DEF ty, v
  <2>7. CASE ty \in DOMAIN Width \ ({"bool"} \cup Raw)
    <3>1. ty # "bool" /\ ty # "vec_u64" /\ ty \notin Variable \cup Raw /\ v \in Int
      BY <2>1, <2>7, KindsDiffer DEF FitsOne
    <3> QED
      BY Zenon, <2>2, <2>7, <3>1 DEF ty, v
  <2> QED
    BY <2>3, <2>4, <2>5, <2>6, <2>7
<1> QED
  BY <1>2 DEF Fits

NothingOf(tys, vals) == tys = <<>> => vals = <<>>

LEMMA TupleFits ==
  ASSUME NEW tys \in Seq(Ty), NEW vals, IsTuple(tys, vals)
  PROVE  Fits(tys, vals) /\ NothingOf(tys, vals)
<1>1. Len(tys) \in Nat /\ \A k \in 1 .. Len(tys) : tys[k] \in Ty
  BY ElementOfSeq
<1>2. \A k \in 1 .. Len(tys) : FitsOne(tys[k], vals[k])
  BY <1>1, TypedIsShaped DEF IsTuple
<1>3. Len(vals) = Len(tys)
  <2>1. vals \in [1 .. Len(tys) -> {vals[i] : i \in 1 .. Len(tys)}]
    BY DEF IsTuple
  <2> QED
    BY <1>1, <2>1
<1>4. tys = <<>> => vals = <<>>
  <2> SUFFICES ASSUME tys = <<>> PROVE vals = <<>>
    OBVIOUS
  <2>1. vals \in Seq({vals[i] : i \in 1 .. Len(tys)}) /\ Len(vals) = 0
    <3>1. vals \in [1 .. Len(tys) -> {vals[i] : i \in 1 .. Len(tys)}]
      BY DEF IsTuple
    <3>2. Len(tys) = 0
      BY EmptySeq
    <3> QED
      BY <1>1, <1>3, <3>1, <3>2
  <2> QED
    BY <2>1, EmptySeq
<1> QED
  BY <1>2, <1>3, <1>4, ShapedFits DEF NothingOf

-----------------------------------------------------------------------------
(* What callers send and bodies return *)

LEMMA TuplesAre ==
  ASSUME NEW tys \in Seq(Ty), NEW t \in Tuples(tys)
  PROVE  IsTuple(tys, t)
<1> DEFINE n == Len(tys)  U == UNION {Values(ty) : ty \in Ty}
           sets == [i \in DOMAIN tys |-> Values(tys[i])]
<1>1. n \in Nat /\ DOMAIN tys = 1 .. n /\ \A k \in 1 .. n : tys[k] \in Ty /\ Values(tys[k]) \subseteq U
  BY ElementOfSeq
<1>2. sets \in Seq(SUBSET U) /\ Len(sets) = n /\ \A k \in 1 .. n : sets[k] = Values(tys[k])
  <2> HIDE DEF U, n
  <2>1. sets \in [1 .. n -> SUBSET U] /\ \A k \in 1 .. n : sets[k] = Values(tys[k])
    BY <1>1
  <2> HIDE DEF sets
  <2> QED
    BY <1>1, <2>1
<1>3. t \in TuplesOf(sets)
  BY DEF Tuples
<1>4. t \in Seq(U) /\ Len(t) = n /\ \A k \in 1 .. n : t[k] \in Values(tys[k])
  <2> HIDE DEF U, n, sets
  <2>1. t \in Seq(U) /\ Len(t) = Len(sets) /\ \A k \in 1 .. Len(sets) : t[k] \in sets[k]
    BY <1>2, <1>3, TuplesOfAre
  <2> QED
    BY <1>2, <2>1
<1>5. t = [i \in 1 .. n |-> t[i]]
  <2> HIDE DEF U
  <2> QED
    BY <1>4
<1> QED
  BY <1>1, <1>4, <1>5, DataAssumption DEF IsTuple

\* A unit entry returns nothing at all, which is the encoding of nothing.
LEMMA ReturnedIs ==
  ASSUME NEW f, f.ret \in Seq(Ty), NEW r, IsTuple(f.ret, r)
  PROVE  Returned(f, r) = EncodeAll(f.ret, r)
<1>1. CASE f.ret = <<>>
  <2> DEFINE seqs == [i \in DOMAIN f.ret |-> Encode(f.ret[i], r[i])]
  <2>1. DOMAIN f.ret = {}
    BY <1>1, EmptySeq
  <2>2. seqs \in Seq(ByteStrings) /\ Len(seqs) = 0
    BY <1>1, EncodedTuple
  <2>3. EncodeAll(f.ret, r) = FlattenSeq(seqs)
    BY DEF EncodeAll
  <2> HIDE DEF seqs
  <2>4. FlattenSeq(seqs) = <<>>
    BY <2>2, EmptySeq DEF FlattenSeq
  <2> QED
    BY <1>1, <2>3, <2>4 DEF Returned
<1>2. CASE f.ret # <<>>
  BY <1>2 DEF Returned
<1> QED
  BY <1>1, <1>2

-----------------------------------------------------------------------------
(* The shim's decoder, whatever the SDK *)

LEMMA DecodeIs ==
  ASSUME NEW f, f.params \in Seq(Ty), NEW data \in ByteStrings
  PROVE  /\ Decode(f, "rust", data) = IF f.params = <<>> THEN NewDecoder ELSE TryFromSlice(f.params, data)
         /\ Decode(f, "go", data) = GoDecoder(f.params, data)
         /\ Decode(f, "as", data) = BorshDecoder(f.params, data)
BY DEF Decode, EntryDecode, Calldata

LEMMA DecodedFits ==
  ASSUME NEW f, f.params \in Seq(Ty), NEW s \in {"rust", "go", "as"}, NEW data \in ByteStrings,
         Decode(f, s, data).ok
  PROVE  Fits(f.params, Decode(f, s, data).values)
<1> DEFINE tys == f.params  vals == Decode(f, s, data).values
<1>1. CASE s = "rust" /\ tys = <<>>
  <2>1. vals = <<>>
    BY <1>1, DecodeIs, StartIsCursor
  <2> HIDE DEF vals
  <2>2. Len(vals) = Len(tys) /\ 1 .. Len(tys) = {}
    BY <1>1, <2>1, EmptySeq
  <2>3. Fits(tys, vals)
    BY <2>2, ShapedFits
  <2> QED
    BY <2>3 DEF vals
<1>2. CASE s = "rust" /\ tys # <<>>
  <2>1. Decode(f, s, data) = TryFromSlice(tys, data)
    BY <1>2, DecodeIs
  <2>2. Shaped(tys, vals)
    BY <2>1, RustReads
  <2> HIDE DEF vals
  <2>3. Fits(tys, vals)
    BY <2>2, ShapedFits DEF Shaped
  <2> QED
    BY <2>3 DEF vals
<1>3. CASE s = "go"
  <2>1. Decode(f, s, data) = GoDecoder(tys, data)
    BY <1>3, DecodeIs
  <2>2. Shaped(tys, vals)
    BY <2>1, GoReads
  <2> HIDE DEF vals
  <2>3. Fits(tys, vals)
    BY <2>2, ShapedFits DEF Shaped
  <2> QED
    BY <2>3 DEF vals
<1>4. CASE s = "as"
  <2>1. Decode(f, s, data) = BorshDecoder(tys, data)
    BY <1>4, DecodeIs
  <2>2. Shaped(tys, vals)
    BY <2>1, AsReads
  <2> HIDE DEF vals
  <2>3. Fits(tys, vals)
    BY <2>2, ShapedFits DEF Shaped
  <2> QED
    BY <2>3 DEF vals
<1> QED
  BY <1>1, <1>2, <1>3, <1>4

LEMMA SentIsDecoded ==
  ASSUME NEW f, f.params \in Seq(Ty), NEW s \in {"rust", "go", "as"},
         NEW vals, IsTuple(f.params, vals), NEW data, data = EncodeAll(f.params, vals)
  PROVE  Decode(f, s, data).ok /\ Decode(f, s, data).values = vals
<1> DEFINE tys == f.params
<1>1. /\ data \in ByteStrings
      /\ TryFromSlice(tys, data).ok /\ TryFromSlice(tys, data).values = vals
      /\ GoDecoder(tys, data).ok /\ GoDecoder(tys, data).values = vals
      /\ BorshDecoder(tys, data).ok /\ BorshDecoder(tys, data).values = vals
  BY WrittenIsRead
<1>2. CASE s = "rust" /\ tys = <<>>
  <2>1. vals = <<>>
    <3> HIDE DEF tys
    <3>1. tys \in Seq(Ty) /\ IsTuple(tys, vals)
      BY DEF tys
    <3>2. NothingOf(tys, vals)
      BY <3>1, TupleFits
    <3> QED
      BY <1>2, <3>2 DEF NothingOf
  <2>2. Decode(f, s, data) = NewDecoder
    BY <1>1, <1>2, DecodeIs
  <2> QED
    BY <1>1, <2>1, <2>2, StartIsCursor
<1>3. CASE s = "rust" /\ tys # <<>>
  BY <1>1, <1>3, DecodeIs
<1>4. CASE s = "go"
  BY <1>1, <1>4, DecodeIs
<1>5. CASE s = "as"
  BY <1>1, <1>5, DecodeIs
<1> QED
  BY <1>2, <1>3, <1>4, <1>5

-----------------------------------------------------------------------------
(* The entry and its callers *)

(* The inductive invariant.  The properties say what the body runs on and  *)
(* what a caller gets; what carries them from one phase to the next is     *)
(* that a typed call's bytes are the encoding of its tuple by the client's *)
(* signature, and that the body's arguments are what the shim made of      *)
(* these bytes.                                                            *)
SignaturesTyped ==
  /\ fn.params \in Seq(Ty) /\ fn.ret \in Seq(Ty)
  /\ client.params \in Seq(Ty) /\ client.ret \in Seq(Ty)
  /\ sdk \in {"rust", "go", "as"}
  /\ phase \in {"none", "idle", "loaded", "body", "done"}

CallKept ==
  /\ call.data \in ByteStrings /\ call.ret \in Seq(Ty)
  /\ phase \in {"none", "idle"} => ~ call.typed
  /\ call.typed => /\ call.params = client.params /\ call.ret = client.ret
                   /\ IsTuple(call.params, call.sent)
                   /\ call.data = EncodeAll(call.params, call.sent)

ArgsDecoded ==
  phase = "body" => /\ Decode(fn, sdk, call.data).ok
                    /\ args = Decode(fn, sdk, call.data).values

\* What a caller with the entry's own signature reads of a result.
ReadsResult(a, f, r) ==
  IF Len(Returned(f, r)) > ReturnCap THEN a.tag = "ReturnDataTooLarge"
  ELSE a.tag = "Ok" /\ a.value = r

AnswerKept ==
  /\ phase # "done" => answer.tag = "none"
  /\ answer.tag = "Ok" => Fits(call.ret, answer.value)
  /\ phase = "done" /\ call.typed /\ client = SigRecord(fn) /\ answer.tag # "Reverted" =>
       ReadsResult(answer, fn, result)

IInv == SignaturesTyped /\ CallKept /\ ArgsDecoded /\ AnswerKept

LEMMA NoCallIs ==
  /\ NoCall.typed = FALSE /\ NoCall.ret = <<>> /\ NoCall.data = <<>>
  /\ NoCall.ret \in Seq(Ty) /\ NoCall.data \in ByteStrings
  /\ NoAnswer.tag = "none"
<1>1. <<>> \in Seq(Ty) /\ <<>> \in ByteStrings
  BY DEF ByteStrings
<1>2. NoCall.typed = FALSE /\ NoCall.ret = <<>> /\ NoCall.data = <<>>
  BY DEF NoCall
<1>3. NoAnswer.tag = "none"
  BY DEF NoAnswer, Answer
<1> QED
  BY <1>1, <1>2, <1>3

LEMMA SigRecordIs ==
  ASSUME NEW f
  PROVE  SigRecord(f).params = f.params /\ SigRecord(f).ret = f.ret
BY DEF SigRecord

LEMMA InitHolds ==
  ASSUME Init
  PROVE  IInv
<1>1. fn.params = <<>> /\ fn.ret = <<>> /\ sdk = "rust" /\ phase = "none"
  BY DEF Init
<1>2. client.params = <<>> /\ client.ret = <<>>
  BY <1>1, SigRecordIs DEF Init
<1>3. SignaturesTyped
  <2>1. <<>> \in Seq(Ty)
    OBVIOUS
  <2> QED
    BY <1>1, <1>2, <2>1 DEF SignaturesTyped
<1>4. CallKept
  <2>1. call = NoCall
    BY DEF Init
  <2> QED
    BY <2>1, NoCallIs DEF CallKept
<1>5. ArgsDecoded
  BY <1>1 DEF ArgsDecoded
<1>6. AnswerKept
  <2>1. answer.tag = "none"
    BY NoCallIs DEF Init
  <2> QED
    BY <1>1, <2>1 DEF AnswerKept
<1> QED
  BY <1>3, <1>4, <1>5, <1>6 DEF IInv

LEMMA DeployKeeps ==
  ASSUME IInv, NEW f \in Sources, NEW s \in Sdks, Deploy(f, s)
  PROVE  IInv'
<1>1. /\ phase \in {"none", "idle"} /\ fn' = f /\ sdk' = s /\ phase' = "idle"
      /\ client' = IF phase = "none" THEN SigRecord(f) ELSE client
      /\ call' = call /\ answer' = answer
  BY DEF Deploy
<1>2. f.params \in Seq(Ty) /\ f.ret \in Seq(Ty) /\ s \in {"rust", "go", "as"}
  BY SourcesAssumption
<1>3. client'.params \in Seq(Ty) /\ client'.ret \in Seq(Ty)
  <2>1. CASE phase = "none"
    <3>1. client' = SigRecord(f)
      BY <1>1, <2>1
    <3> QED
      BY <1>2, <3>1, SigRecordIs
  <2>2. CASE phase # "none"
    <3>1. client' = client
      BY <1>1, <2>2
    <3> QED
      BY <3>1 DEF IInv, SignaturesTyped
  <2> QED
    BY <2>1, <2>2
<1>4. SignaturesTyped'
  BY <1>1, <1>2, <1>3 DEF SignaturesTyped
<1>5. CallKept'
  BY <1>1 DEF IInv, CallKept
<1>6. ArgsDecoded'
  BY <1>1 DEF ArgsDecoded
<1>7. AnswerKept'
  BY <1>1 DEF IInv, AnswerKept
<1> QED
  BY <1>4, <1>5, <1>6, <1>7 DEF IInv

LEMMA SentKeeps ==
  ASSUME IInv, NEW c, Sent(c), c.data \in ByteStrings, c.ret \in Seq(Ty),
         c.typed => /\ c.params = client.params /\ c.ret = client.ret
                    /\ IsTuple(c.params, c.sent) /\ c.data = EncodeAll(c.params, c.sent)
  PROVE  IInv'
<1>1. /\ phase = "idle" /\ phase' = "loaded" /\ call' = c
      /\ fn' = fn /\ sdk' = sdk /\ client' = client /\ answer' = answer
  BY DEF Sent
<1>2. SignaturesTyped'
  BY <1>1 DEF IInv, SignaturesTyped
<1>3. CallKept'
  BY <1>1 DEF CallKept
<1>4. ArgsDecoded'
  BY <1>1 DEF ArgsDecoded
<1>5. AnswerKept'
  BY <1>1 DEF IInv, AnswerKept
<1> QED
  BY <1>2, <1>3, <1>4, <1>5 DEF IInv

LEMMA TypedCallKeeps ==
  ASSUME IInv, NEW values \in Tuples(client.params), TypedCall(values)
  PROVE  IInv'
<1> DEFINE tys == client.params
           c == [typed |-> TRUE, params |-> tys, sent |-> values, ret |-> client.ret,
                 data |-> EncodeAll(tys, values)]
<1>1. tys \in Seq(Ty) /\ client.ret \in Seq(Ty)
  BY DEF IInv, SignaturesTyped
<1>2. IsTuple(tys, values) /\ EncodeAll(tys, values) \in ByteStrings
  <2> HIDE DEF tys
  <2>1. values \in Tuples(tys)
    BY DEF tys
  <2>2. IsTuple(tys, values)
    BY <1>1, <2>1, TuplesAre
  <2> QED
    BY <1>1, <2>2, EncodedTuple
<1>3. Sent(c)
  BY DEF TypedCall
<1>4. /\ c.typed = TRUE /\ c.params = tys /\ c.sent = values /\ c.ret = client.ret
      /\ c.data = EncodeAll(tys, values)
  OBVIOUS
<1> HIDE DEF c
<1> QED
  BY <1>1, <1>2, <1>3, <1>4, SentKeeps

LEMMA RawCallKeeps ==
  ASSUME IInv, NEW data \in RawData, RawCall(data)
  PROVE  IInv'
<1> DEFINE c == [NoCall EXCEPT !.data = data]
<1>1. data \in ByteStrings
  BY DataAssumption DEF ByteStrings, Byte
<1>2. c.typed = FALSE /\ c.ret = <<>> /\ c.data = data
  BY DEF NoCall
<1>3. Sent(c)
  BY DEF RawCall
<1>4. <<>> \in Seq(Ty)
  OBVIOUS
<1> HIDE DEF c
<1> QED
  BY <1>1, <1>2, <1>3, <1>4, SentKeeps

\* A typed call of a caller with the entry's own signature is decoded.
LEMMA MatchingCall ==
  ASSUME IInv, call.typed, client = SigRecord(fn)
  PROVE  /\ Decode(fn, sdk, call.data).ok /\ Decode(fn, sdk, call.data).values = call.sent
         /\ call.ret = fn.ret
<1>1. fn.params \in Seq(Ty) /\ sdk \in {"rust", "go", "as"}
  BY DEF IInv, SignaturesTyped
<1>2. client.params = fn.params /\ client.ret = fn.ret
  BY SigRecordIs
<1>3. /\ call.params = client.params /\ call.ret = client.ret
      /\ IsTuple(call.params, call.sent) /\ call.data = EncodeAll(call.params, call.sent)
  BY DEF IInv, CallKept
<1>4. IsTuple(fn.params, call.sent) /\ call.data = EncodeAll(fn.params, call.sent)
  BY <1>2, <1>3
<1>5. Decode(fn, sdk, call.data).ok /\ Decode(fn, sdk, call.data).values = call.sent
  BY <1>1, <1>4, SentIsDecoded
<1> QED
  BY <1>2, <1>3, <1>5

LEMMA ShimKeeps ==
  ASSUME IInv, Shim
  PROVE  IInv'
<1> DEFINE d == Decode(fn, sdk, call.data)
<1>1. /\ phase = "loaded" /\ fn' = fn /\ sdk' = sdk /\ client' = client /\ call' = call
      /\ result' = result
  BY DEF Shim
<1>2. /\ d.ok => phase' = "body" /\ args' = d.values /\ answer' = answer
      /\ ~ d.ok => phase' = "done" /\ answer' = Answer("Trapped", <<>>)
  BY DEF Shim
<1>3. phase' \in {"body", "done"}
  BY <1>2
<1>4. SignaturesTyped'
  BY <1>1, <1>3 DEF IInv, SignaturesTyped
<1>5. CallKept'
  BY <1>1, <1>3 DEF IInv, CallKept
<1>6. ArgsDecoded'
  BY <1>1, <1>2 DEF ArgsDecoded
<1>7. AnswerKept'
  <2>1. CASE d.ok
    BY <1>1, <1>2, <2>1 DEF IInv, AnswerKept
  <2>2. CASE ~ d.ok
    <3>1. answer'.tag = "Trapped" /\ phase' = "done"
      BY <1>2, <2>2 DEF Answer
    <3>2. ~ (call.typed /\ client = SigRecord(fn))
      BY <2>2, MatchingCall
    <3>3. ~ (call'.typed /\ client' = SigRecord(fn'))
      BY <1>1, <3>2
    <3> QED
      BY <3>1, <3>3 DEF AnswerKept
  <2> QED
    BY <2>1, <2>2
<1> QED
  BY <1>4, <1>5, <1>6, <1>7 DEF IInv

\* The caller's decoder on what the entry returned.
LEMMA ExecuteInnerIs ==
  ASSUME NEW c, c.ret \in Seq(Ty), NEW f, f.ret \in Seq(Ty), NEW r, IsTuple(f.ret, r)
  PROVE  LET a == ExecuteInner(c, Returned(f, r))
         IN  /\ a.tag = "Ok" => Fits(c.ret, a.value)
             /\ c.ret = f.ret => ReadsResult(a, f, r)
<1> DEFINE data == Returned(f, r)  d == TryFromSlice(c.ret, data)  a == ExecuteInner(c, data)
<1>1. data = EncodeAll(f.ret, r)
  BY ReturnedIs
<1> HIDE DEF data
<1>2. data \in ByteStrings /\ TryFromSlice(f.ret, data).ok /\ TryFromSlice(f.ret, data).values = r
  BY <1>1, WrittenIsRead
<1>3. /\ Len(data) > ReturnCap => a.tag = "ReturnDataTooLarge"
      /\ ~ (Len(data) > ReturnCap) /\ d.ok => a.tag = "Ok" /\ a.value = d.values
  BY DEF ExecuteInner, Answer
<1>4. ~ (Len(data) > ReturnCap) /\ ~ d.ok => a.tag = "DecodeError"
  BY DEF ExecuteInner, Answer
<1>5. d.ok => Fits(c.ret, d.values)
  <2> SUFFICES ASSUME d.ok PROVE Fits(c.ret, d.values)
    OBVIOUS
  <2> DEFINE vals == d.values
  <2>1. Shaped(c.ret, vals)
    BY <1>2, RustReads
  <2> HIDE DEF vals
  <2>2. Fits(c.ret, vals)
    BY <2>1, ShapedFits DEF Shaped
  <2> QED
    BY <2>2 DEF vals
<1>6. a.tag = "Ok" => Fits(c.ret, a.value)
  BY <1>3, <1>4, <1>5
<1>7. c.ret = f.ret => ReadsResult(a, f, r)
  BY <1>2, <1>3 DEF ReadsResult, data
<1> QED
  BY <1>6, <1>7 DEF data

LEMMA BodyKeeps ==
  ASSUME IInv, NEW r \in Tuples(fn.ret), Body(r)
  PROVE  IInv'
<1> DEFINE a == ExecuteInner(call, Returned(fn, r))
<1>1. /\ phase = "body" /\ phase' = "done" /\ result' = r
      /\ answer' = IF call.typed THEN a ELSE NoAnswer
      /\ fn' = fn /\ sdk' = sdk /\ client' = client /\ call' = call
  BY DEF Body
<1>2. fn.ret \in Seq(Ty) /\ call.ret \in Seq(Ty)
  BY DEF IInv, SignaturesTyped, CallKept
<1>3. IsTuple(fn.ret, r)
  BY <1>2, TuplesAre
<1>4. (a.tag = "Ok" => Fits(call.ret, a.value)) /\ (call.ret = fn.ret => ReadsResult(a, fn, r))
  BY <1>2, <1>3, ExecuteInnerIs
<1> HIDE DEF a
<1>5. SignaturesTyped'
  BY <1>1 DEF IInv, SignaturesTyped
<1>6. CallKept'
  BY <1>1 DEF IInv, CallKept
<1>7. ArgsDecoded'
  BY <1>1 DEF ArgsDecoded
<1>8. AnswerKept'
  <2>1. answer'.tag = "Ok" => Fits(call'.ret, answer'.value)
    BY <1>1, <1>4, NoCallIs
  <2>2. ASSUME call'.typed, client' = SigRecord(fn')
        PROVE  ReadsResult(answer, fn, result)'
    <3>1. call.typed /\ client = SigRecord(fn)
      BY <1>1, <2>2
    <3>2. call.ret = fn.ret
      BY <3>1, MatchingCall
    <3> QED
      BY <1>1, <1>4, <3>1, <3>2 DEF ReadsResult
  <2> QED
    BY <1>1, <2>1, <2>2 DEF AnswerKept
<1> QED
  BY <1>5, <1>6, <1>7, <1>8 DEF IInv

LEMMA BodyRevertsKeeps ==
  ASSUME IInv, BodyReverts
  PROVE  IInv'
<1>1. /\ phase = "body" /\ phase' = "done" /\ answer' = Answer("Reverted", <<>>)
      /\ fn' = fn /\ sdk' = sdk /\ client' = client /\ call' = call
  BY DEF BodyReverts
<1>2. SignaturesTyped'
  BY <1>1 DEF IInv, SignaturesTyped
<1>3. CallKept'
  BY <1>1 DEF IInv, CallKept
<1>4. ArgsDecoded'
  BY <1>1 DEF ArgsDecoded
<1>5. AnswerKept'
  <2>1. answer'.tag = "Reverted"
    BY <1>1 DEF Answer
  <2> QED
    BY <1>1, <2>1 DEF AnswerKept
<1> QED
  BY <1>2, <1>3, <1>4, <1>5 DEF IInv

LEMMA OverKeeps ==
  ASSUME IInv, Over
  PROVE  IInv'
<1>1. /\ phase' = "idle" /\ call' = NoCall /\ answer' = NoAnswer
      /\ fn' = fn /\ sdk' = sdk /\ client' = client
  BY DEF Over
<1>2. SignaturesTyped'
  BY <1>1 DEF IInv, SignaturesTyped
<1>3. CallKept'
  BY <1>1, NoCallIs DEF CallKept
<1>4. ArgsDecoded'
  BY <1>1 DEF ArgsDecoded
<1>5. AnswerKept'
  BY <1>1, NoCallIs DEF AnswerKept
<1> QED
  BY <1>2, <1>3, <1>4, <1>5 DEF IInv

LEMMA RebuildKeeps ==
  ASSUME IInv, Rebuild
  PROVE  IInv'
<1>1. /\ phase = "idle" /\ client' = SigRecord(fn) /\ phase' = phase
      /\ fn' = fn /\ sdk' = sdk /\ call' = call /\ answer' = answer
  BY DEF Rebuild
<1>2. client'.params = fn.params /\ client'.ret = fn.ret
  BY <1>1, SigRecordIs
<1>3. SignaturesTyped'
  BY <1>1, <1>2 DEF IInv, SignaturesTyped
<1>4. CallKept'
  BY <1>1 DEF IInv, CallKept
<1>5. ArgsDecoded'
  BY <1>1 DEF ArgsDecoded
<1>6. AnswerKept'
  BY <1>1 DEF IInv, AnswerKept
<1> QED
  BY <1>3, <1>4, <1>5, <1>6 DEF IInv

LEMMA StepKeeps == IInv /\ [Next]_vars => IInv'
<1> SUFFICES ASSUME IInv, [Next]_vars PROVE IInv'
  OBVIOUS
<1>1. ASSUME NEW f \in Sources, NEW s \in Sdks, Deploy(f, s) PROVE IInv'
  BY <1>1, DeployKeeps
<1>2. ASSUME NEW values \in Tuples(client.params), TypedCall(values) PROVE IInv'
  BY <1>2, TypedCallKeeps
<1>3. ASSUME NEW data \in RawData, RawCall(data) PROVE IInv'
  BY <1>3, RawCallKeeps
<1>4. CASE Shim
  BY <1>4, ShimKeeps
<1>5. ASSUME NEW r \in Tuples(fn.ret), Body(r) PROVE IInv'
  BY <1>5, BodyKeeps
<1>6. CASE BodyReverts
  BY <1>6, BodyRevertsKeeps
<1>7. CASE Over
  BY <1>7, OverKeeps
<1>8. CASE Rebuild
  BY <1>8, RebuildKeeps
<1>9. CASE UNCHANGED vars
  BY <1>9 DEF vars, IInv, SignaturesTyped, CallKept, ArgsDecoded, AnswerKept
<1> QED
  BY <1>1, <1>2, <1>3, <1>4, <1>5, <1>6, <1>7, <1>8, <1>9 DEF Next

LEMMA Invariance == Spec => []IInv
<1>1. Init => IInv
  BY InitHolds
<1> QED
  BY <1>1, StepKeeps, PTL DEF Spec

-----------------------------------------------------------------------------

LEMMA TypeFollows == IInv => TypeOK
<1> SUFFICES ASSUME IInv PROVE TypeOK
  OBVIOUS
<1>1. /\ fn.params \in Seq(Ty) /\ sdk \in {"rust", "go", "as"}
      /\ phase \in {"none", "idle", "loaded", "body", "done"}
  BY DEF IInv, SignaturesTyped
<1>2. call.data \in ByteStrings
  BY DEF IInv, CallKept
<1>3. \A j \in DOMAIN call.data : call.data[j] \in 0 .. 255
  <2>1. DOMAIN call.data = 1 .. Len(call.data)
    BY <1>2 DEF ByteStrings
  <2> QED
    BY <1>2, <2>1, ElementOfSeq DEF ByteStrings, Byte
<1>4. phase = "body" => Fits(fn.params, args)
  <2> SUFFICES ASSUME phase = "body" PROVE Fits(fn.params, args)
    OBVIOUS
  <2>1. Decode(fn, sdk, call.data).ok /\ args = Decode(fn, sdk, call.data).values
    BY DEF IInv, ArgsDecoded
  <2> QED
    BY <1>1, <1>2, <2>1, DecodedFits
<1>5. answer.tag = "Ok" => Fits(call.ret, answer.value)
  BY DEF IInv, AnswerKept
<1>6. call.typed => Fits(call.params, call.sent)
  <2> SUFFICES ASSUME call.typed PROVE Fits(call.params, call.sent)
    OBVIOUS
  <2>1. call.params = client.params /\ IsTuple(call.params, call.sent)
    BY DEF IInv, CallKept
  <2>2. client.params \in Seq(Ty)
    BY DEF IInv, SignaturesTyped
  <2> QED
    BY <2>1, <2>2, TupleFits
<1> QED
  BY <1>1, <1>3, <1>4, <1>5, <1>6 DEF TypeOK

LEMMA RunsFollows == IInv => RunsOnItsCalldata
<1> SUFFICES ASSUME IInv, phase = "body", fn.params # <<>>
             PROVE  /\ sdk = "rust" => EncodeAll(fn.params, args) = call.data
                    /\ sdk = "go" => IsPrefix(EncodeAll(fn.params, args), call.data)
  BY DEF RunsOnItsCalldata
<1>1. fn.params \in Seq(Ty) /\ call.data \in ByteStrings
  BY DEF IInv, SignaturesTyped, CallKept
<1>2. Decode(fn, sdk, call.data).ok /\ args = Decode(fn, sdk, call.data).values
  BY DEF IInv, ArgsDecoded
<1>3. CASE sdk = "rust"
  <2>1. Decode(fn, sdk, call.data) = TryFromSlice(fn.params, call.data)
    BY <1>1, <1>3, DecodeIs
  <2> QED
    BY <1>1, <1>2, <1>3, <2>1, RustReads
<1>4. CASE sdk = "go"
  <2>1. Decode(fn, sdk, call.data) = GoDecoder(fn.params, call.data)
    BY <1>1, <1>4, DecodeIs
  <2> QED
    BY <1>1, <1>2, <1>4, <2>1, GoReads
<1> QED
  BY <1>3, <1>4

LEMMA AgreeFollows == IInv => SdksAgree
<1> SUFFICES ASSUME IInv, phase = "body", sdk = "rust", fn.params # <<>>
             PROVE  /\ GoDecoder(fn.params, call.data).ok /\ BorshDecoder(fn.params, call.data).ok
                    /\ GoDecoder(fn.params, call.data).values = args
                    /\ BorshDecoder(fn.params, call.data).values = args
  BY DEF SdksAgree
<1>1. fn.params \in Seq(Ty) /\ call.data \in ByteStrings
  BY DEF IInv, SignaturesTyped, CallKept
<1>2. Decode(fn, sdk, call.data).ok /\ args = Decode(fn, sdk, call.data).values
  BY DEF IInv, ArgsDecoded
<1>3. Decode(fn, sdk, call.data) = TryFromSlice(fn.params, call.data)
  BY <1>1, DecodeIs
<1> QED
  BY <1>1, <1>2, <1>3, RustReads

LEMMA RecordFollows == IInv => RecordIsTrue
<1> SUFFICES ASSUME IInv, call.typed, client = SigRecord(fn)
             PROVE  /\ phase = "body" => args = call.sent
                    /\ phase = "done" /\ answer.tag # "Reverted" =>
                         ReadsResult(answer, fn, result)
  BY DEF RecordIsTrue, ReadsResult
<1>1. phase = "body" => args = call.sent
  BY MatchingCall DEF IInv, ArgsDecoded
<1>2. phase = "done" /\ answer.tag # "Reverted" => ReadsResult(answer, fn, result)
  BY DEF IInv, AnswerKept
<1> QED
  BY <1>1, <1>2

(* Calldata, arguments and answers keep to the types they are read by,     *)
(* whatever the function, the SDK and the bytes that are sent.             *)
THEOREM EntryTypeOK == Spec => []TypeOK
BY Invariance, TypeFollows, PTL

(* A Rust entry's body runs only on arguments whose encoding is the whole  *)
(* calldata, and a Go entry's on arguments whose encoding is its beginning:*)
(* different calldata never give a Rust body the same arguments, and no    *)
(* byte of a field is passed over, for every signature and all calldata.   *)
THEOREM BodyRunsOnItsCalldata == Spec => []RunsOnItsCalldata
BY Invariance, RunsFollows, PTL

(* Where the strict decoder of the Rust shim goes on, the decoders of Go   *)
(* and AssemblyScript make the same arguments of the same bytes, although  *)
(* each of them takes more than it does.                                   *)
THEOREM SdksAlwaysAgree == Spec => []SdksAgree
BY Invariance, AgreeFollows, PTL

(* The round trip, both ways and for every signature: a caller built from  *)
(* the deployed record is decoded to what it gave, and reads what the body *)
(* returned if its buffer holds it; a longer result, and no other, is      *)
(* reported as too large.                                                  *)
THEOREM RecordAlwaysTrue == Spec => []RecordIsTrue
BY Invariance, RecordFollows, PTL
=============================================================================
