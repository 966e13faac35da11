-------------------------------- MODULE Entry --------------------------------
(***************************************************************************)
(* One entry of a contract, its shim, and those who call it.  A Rust entry *)
(* has the shim of #[pyde::entry]; Go and AssemblyScript authors pull the  *)
(* arguments out of a decoder.  Typed callers encode and decode by the     *)
(* signature the entry had when they were built; anyone may send any bytes.*)
(***************************************************************************)
EXTENDS BorshCodec

CONSTANTS
  Sources,              \* the functions an author may put the macro on
  Sdks,                 \* the SDKs the contract may be built on
  Values(_),            \* the values tried for a type
  ReturnCap,            \* DEFAULT_RETURN_BUFFER_BYTES
  RawData               \* the calldata anyone may send

ASSUME SourcesAssumption ==
  /\ \A f \in Sources : f.params \in Seq(Ty) /\ f.ret \in Seq(Ty)
  /\ Sdks \subseteq {"rust", "go", "as"}
ASSUME CapAssumption == ReturnCap \in Nat
ASSUME DataAssumption ==
  /\ \A ty \in Ty : \A v \in Values(ty) : HasType(ty, v)
  /\ RawData \subseteq Seq(0 .. 255)

VARIABLES
  fn, sdk,      \* the deployed function, and its SDK
  client,       \* the signature that typed callers use
  phase,        \* "none", "idle", "loaded", "body" or "done"
  call,         \* the current call
  args, result, \* what the body runs on, and what it returns
  answer        \* what the typed caller gets, in the end

vars == <<fn, sdk, client, phase, call, args, result, answer>>

NoCall   == [typed |-> FALSE, params |-> <<>>, sent |-> <<>>, data |-> <<>>, ret |-> <<>>]
Answer(tag, value) == [tag |-> tag, value |-> value]
NoAnswer == Answer("none", <<>>)

-----------------------------------------------------------------------------
(* expand_entry.  A function has parameters, a result, which is a tuple of  *)
(* one type or for a unit function of none, and what odd it is: async,      *)
(* generic, unsafe, a method, or given attributes through the macro.        *)

Expands(f) == f.odd = {}

\* The parts of the record of pyde.sig.v1, from which the callers' ABI comes.
SigRecord(f) == [params |-> f.params, ret |-> f.ret]

\* calldata_load: the whole of it.
Calldata(data) == data

\* deserialize in place of try_from_slice.
EntryDecodePrefix(f, data) ==
  IF f.params = <<>> THEN NewDecoder ELSE RustPrefix(f.params, Calldata(data))

\* An entry without parameters does not look at its calldata.
EntryDecode(f, data) ==
  IF f.params = <<>> THEN NewDecoder ELSE TryFromSlice(f.params, Calldata(data))

Decode(f, s, data) ==
  CASE s = "rust" -> EntryDecode(f, data)
    [] s = "go"   -> GoDecoder(f.params, Calldata(data))
    [] s = "as"   -> BorshDecoder(f.params, Calldata(data))

\* Every function passes for a unit one.
ReturnedNothing(f, r) == <<>>

\* A unit entry does not return anything, any other the borsh of its result.
Returned(f, r) == IF f.ret = <<>> THEN <<>> ELSE EncodeAll(f.ret, r)

-----------------------------------------------------------------------------

Tuples(tys) == TuplesOf([i \in DOMAIN tys |-> Values(tys[i])])

Init ==
  /\ fn = [params |-> <<>>, ret |-> <<>>, odd |-> {}] /\ sdk = "rust"
  /\ client = SigRecord(fn)
  /\ phase = "none" /\ call = NoCall /\ args = <<>> /\ result = <<>>
  /\ answer = NoAnswer

\* The author deploys an implementation that compiles, the first or another
\* one; the callers that are out there stay as they are.
Deploy(f, s) ==
  /\ phase \in {"none", "idle"}
  /\ Expands(f)
  /\ fn' = f /\ sdk' = s /\ phase' = "idle"
  /\ client' = IF phase = "none" THEN SigRecord(f) ELSE client
  /\ UNCHANGED <<call, args, result, answer>>

Sent(c) ==
  /\ phase = "idle" /\ phase' = "loaded"
  /\ call' = c
  /\ UNCHANGED <<fn, sdk, client, args, result, answer>>

TypedCall(values) ==
  Sent([typed |-> TRUE, params |-> client.params, sent |-> values, ret |-> client.ret,
        data |-> EncodeAll(client.params, values)])

RawCall(data) == Sent([NoCall EXCEPT !.data = data])

\* The shim decodes, or the call traps.
Shim ==
  /\ phase = "loaded"
  /\ LET d == Decode(fn, sdk, call.data)
     IN  IF d.ok
         THEN phase' = "body" /\ args' = d.values /\ UNCHANGED answer
         ELSE phase' = "done" /\ answer' = Answer("Trapped", <<>>) /\ UNCHANGED args
  /\ UNCHANGED <<fn, sdk, client, call, result>>

\* The buffer is cut at its size and decoded all the same.
ExecuteInnerCut(c, data) ==
  LET d == TryFromSlice(c.ret, SubSeq(data, 1, Min({Len(data), ReturnCap})))
  IN  IF d.ok THEN Answer("Ok", d.values) ELSE Answer("DecodeError", <<>>)

\* The caller of execute::<T> decodes what came back, if its buffer held it.
\* The actual length is not kept: it is that of what the entry returned.
ExecuteInner(c, data) ==
  LET d == TryFromSlice(c.ret, data)
  IN  IF Len(data) > ReturnCap THEN Answer("ReturnDataTooLarge", <<>>)
      ELSE IF d.ok THEN Answer("Ok", d.values) ELSE Answer("DecodeError", <<>>)

Body(r) ==
  /\ phase = "body" /\ phase' = "done"
  /\ result' = r
  /\ answer' = IF call.typed THEN ExecuteInner(call, Returned(fn, r)) ELSE NoAnswer
  /\ UNCHANGED <<fn, sdk, client, call, args>>

BodyReverts ==
  /\ phase = "body" /\ phase' = "done"
  /\ answer' = Answer("Reverted", <<>>)
  /\ UNCHANGED <<fn, sdk, client, call, args, result>>

\* The callers are built again.
Rebuild ==
  /\ phase = "idle" /\ client' = SigRecord(fn)
  /\ UNCHANGED <<fn, sdk, phase, call, args, result, answer>>

Over ==
  /\ phase = "done" /\ phase' = "idle"
  /\ call' = NoCall /\ args' = <<>> /\ result' = <<>> /\ answer' = NoAnswer
  /\ UNCHANGED <<fn, sdk, client>>

Next ==
  \/ \E f \in Sources, s \in Sdks : Deploy(f, s)
  \/ \E values \in Tuples(client.params) : TypedCall(values)
  \/ \E data \in RawData : RawCall(data)
  \/ Shim
  \/ \E r \in Tuples(fn.ret) : Body(r)
  \/ BodyReverts \/ Over \/ Rebuild

Spec == Init /\ [][Next]_vars

-----------------------------------------------------------------------------

Fits(tys, values) ==
  /\ Len(values) = Len(tys)
  /\ \A i \in DOMAIN tys :
       CASE tys[i] = "bool" -> values[i] \in BOOLEAN
         [] tys[i] \in Variable \cup {"address", "hash32"} ->
              \A j \in DOMAIN values[i] : values[i][j] \in 0 .. 255 \cup {Garbled}
         [] tys[i] = "vec_u64" -> \A j \in DOMAIN values[i] : values[i][j] \in Nat
         [] OTHER -> values[i] \in Int

TypeOK ==
  /\ phase \in {"none", "idle", "loaded", "body", "done"}
  /\ \A j \in DOMAIN call.data : call.data[j] \in 0 .. 255
  /\ phase = "body" => Fits(fn.params, args)
  /\ answer.tag = "Ok" => Fits(call.ret, answer.value)
  /\ call.typed => Fits(call.params, call.sent)

(* Whoever sent the calldata, a Rust entry with parameters runs only on    *)
(* arguments whose borsh is the whole of it, and a Go entry on arguments   *)
(* whose borsh is its beginning.                                           *)
RunsOnItsCalldata ==
  phase = "body" /\ fn.params # <<>> =>
    /\ sdk = "rust" => EncodeAll(fn.params, args) = call.data
    /\ sdk = "go" => IsPrefix(EncodeAll(fn.params, args), call.data)

(* What a Rust entry accepts, a Go and an AssemblyScript implementation of *)
(* the same entry take for the same arguments.                             *)
SdksAgree ==
  phase = "body" /\ sdk = "rust" /\ fn.params # <<>> =>
    /\ GoDecoder(fn.params, call.data).ok /\ BorshDecoder(fn.params, call.data).ok
    /\ GoDecoder(fn.params, call.data).values = args
    /\ BorshDecoder(fn.params, call.data).values = args

(* A caller built from the entry's own signature record is never turned    *)
(* away by the shim, has its arguments in the body as it gave them, and    *)
(* reads the body's result, be it a value or nothing at all.  A result     *)
(* whose borsh its buffer cannot hold is an error of its own, and neither  *)
(* a part of it nor a failure to decode.                                   *)
RecordIsTrue ==
  call.typed /\ client = SigRecord(fn) =>
    /\ phase = "body" => args = call.sent
    /\ phase = "done" /\ answer.tag # "Reverted" =>
         IF Len(Returned(fn, result)) > ReturnCap
         THEN answer.tag = "ReturnDataTooLarge"
         ELSE answer.tag = "Ok" /\ answer.value = result
=============================================================================
