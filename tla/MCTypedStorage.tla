--------------------------- MODULE MCTypedStorage ---------------------------
(***************************************************************************)
(* Instances of TypedStorage for TLC.                                      *)
(***************************************************************************)
EXTENDS TypedStorage, TLC

CONSTANTS r1, g1        \* implementations, one in Rust and one in Go

\* The name of a scalar may start the name of another field.
list  == <<1>>
title == <<3>>
order == <<1, 1>>
table == <<2>>
Names == {list, title, order, table}

Sdks == r1 :> "rust" @@ g1 :> "go"

Type(kind, width) == [kind |-> kind, width |-> width]
ScalarOf(t) == [keys |-> <<>>, value |-> t]

Schema ==
     list  :> ScalarOf(Type("vec", 1))
  @@ title :> ScalarOf(Type("string", 0))
  @@ order :> ScalarOf(Type("custom", 0))
  @@ table :> [keys |-> <<Type("bytes", 0), Type("string", 0)>>,
               value |-> Type("fixed", 2)]

\* With the string, which the SDKs store differently, and without.
Shared == [i \in Impl |-> Schema]
Apart  == [i \in Impl |-> [Schema EXCEPT ![title] = Undeclared]]

\* The host's idea of g1's fields is not the one g1 was compiled from.
Drifted == [Shared EXCEPT ![g1] =
              [Schema EXCEPT ![order] = Undeclared,
                             ![table].value = Type("fixed", 1)]]

SomeKeys   == {<<>>, <<1>>}
SomeValues == {<<>>, <<0, 1>>}

\* Either may be a string.
SomeStrings == SomeKeys \cup SomeValues

\* The custom type is a pair of bytes.
Pairs    == {<<0, 0>>, <<0, 1>>}
NullPair == <<0, 0>>
=============================================================================
