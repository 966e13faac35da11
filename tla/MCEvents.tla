------------------------------- MODULE MCEvents -------------------------------
(***************************************************************************)
(* Instances of Events for TLC.                                            *)
(***************************************************************************)
EXTENDS Events

Named(n) == [i \in 1 .. 32 |-> IF i = 32 THEN n ELSE 7]

SomeValues(ty) ==
  CASE ty \in {"address", "hash32"} -> {Named(1), Named(2)}
    [] ty = "bool"                  -> BOOLEAN
    [] ty \in Variable             -> {<<>>, <<127, 0>>}
    [] ty \in Signed               -> {-1, 1}
    [] OTHER                        -> {1, 255}

Plain(token) == [ty |-> token, indexed |-> FALSE]
Index(token) == [ty |-> token, indexed |-> TRUE]

\* Every type alone, either way; two kinds of data, in both orders; data and
\* a topic; more topics than there are; no fields; a type that is none.
FieldLists ==
  {<<Plain(t)>> : t \in {"u8", "int16", "u64", "i128", "bool", "address", "bytes", "string"}}
  \cup {<<Index(t)>> : t \in {"uint8", "i8", "i64", "u128", "bool", "bytes32", "string"}}
  \cup {<<Plain(p[1]), Plain(p[2])>> : p \in {"string", "u16"} \X {"bytes", "u16"}}
  \cup {<<Plain("string"), Index("i32"), Plain("u8")>>, <<>>, <<Plain("uint256")>>}
  \cup {[i \in 1 .. n |-> Index("bool")] : n \in 3 .. 4}

\* Two events with the same fields.
Twins(fields) == {[name |-> n, fields |-> fields] : n \in {"Transfer", "Approval"}}
SomeManifests == {Twins(fields) : fields \in FieldLists}
=============================================================================
