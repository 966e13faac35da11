-------------------------- MODULE MCSdkAlgorithms --------------------------
(***************************************************************************)
(* Limbs of three bits, every pair of operands; manifests of a function    *)
(* get, another one and a table of something else, in every spelling TOML  *)
(* has; every set of markers on one declaration, and a second declaration. *)
(***************************************************************************)
EXTENDS SdkAlgorithms

entry    == <<"e", "n", "t", "r", "y">>
view     == <<"v", "i", "e", "w">>
mutating == <<"m", "u", "t", "a", "t", "i", "n", "g">>
payable  == <<"p", "a", "y", "a", "b", "l", "e">>

Seams == [x \in {"__get_impl"} |-> "get"]

SomeAttributes == {{}, {"view"}, {"payable", "constructor"}}

SomeLines ==
  {Header(<<"functions", "get">>, FALSE), Header(<<"functions", "put">>, FALSE),
   Header(<<"functions">>, FALSE), Header(<<"functions", "get", "access">>, FALSE),
   Header(<<"tests">>, TRUE)}
  \cup {Assignment(key, "strings", attrs) :
          key \in {<<"attributes">>, <<"get", "attributes">>, <<"functions", "get", "attributes">>},
          attrs \in SomeAttributes}
  \cup {Assignment(<<"get">>, "inline", attrs) : attrs \in SomeAttributes}
  \cup {Assignment(<<"attributes">>, "other", {}), Assignment(<<"gas">>, "other", {})}

Decl(declaredAs, names) ==
  [declaredAs |-> declaredAs,
   decorators |-> SetToSeq({[name |-> n, args |-> FALSE] : n \in names})]

SomeContracts ==
  {{Decl("__get_impl", ms)} : ms \in SUBSET IntentMarkers}
  \cup {{Decl("__get_impl", {view}), Decl("put", {payable})},
        {Decl("__get_impl", {payable, entry}), Decl("get", {mutating})}}

Letters == {"v", "i", "e", "w"}
SomeSpellings ==
  (UNION {[1 .. n -> Letters] : n \in 2 .. 5}) \cup IntentMarkers
  \cup {<<"e", "n", "r", "t", "y">>, <<"p", "a", "y", "b", "l", "e">>,
        <<"m", "u", "t", "a", "t", "i", "n", "n", "g">>, <<"p", "u", "r", "e">>}

SomeVersions == {<<>>, <<0, 27, 29>>, <<0, 29, 0>>}
=============================================================================
