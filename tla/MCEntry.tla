------------------------------- MODULE MCEntry -------------------------------
(***************************************************************************)
(* Instances of Entry for TLC.                                             *)
(***************************************************************************)
EXTENDS Entry

Fn(params, ret) == [params |-> params, ret |-> ret, odd |-> {}]

SomeFunctions ==
  {Fn(<<>>, <<>>), Fn(<<>>, <<"u16">>), Fn(<<"bool">>, <<>>), Fn(<<"i16", "bool">>, <<"bool">>),
   Fn(<<"string">>, <<"string">>), Fn(<<"u8", "bytes">>, <<"i8">>),
   Fn(<<"vec_u64", "u8">>, <<"vec_u64">>),
   [Fn(<<"bool">>, <<"u8">>) EXCEPT !.odd = {"async"}]}

SomeValues(ty) ==
  CASE ty = "bool"      -> BOOLEAN
    [] ty \in Variable -> {<<>>, <<127>>}
    [] ty = "vec_u64"   -> {<<>>, <<1, 255>>}
    [] ty \in Signed   -> {-1, 1}
    [] ty \in {"address", "hash32"} -> {[i \in 1 .. 32 |-> 7]}
    [] OTHER            -> {0, 255}

\* Bytes of every kind: nothing, true, the last of ASCII and no UTF-8.
Byte == {0, 1, 127, 255}
AnyBytes ==
  BoundedSeq(Byte, 3)
  \cup {n \o b : n \in {<<0, 0, 0, 0>>, <<1, 0, 0, 0>>, <<255, 255, 255, 127>>,
                        <<0, 0, 0, 255>>, <<1, 1, 0, 0>>, <<1, 1, 0, 0, 0>>},
                  b \in BoundedSeq(Byte, 2)}
=============================================================================
