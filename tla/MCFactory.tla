------------------------------ MODULE MCFactory ------------------------------
(***************************************************************************)
(* Instances of Factory for TLC.                                           *)
(***************************************************************************)
EXTENDS Factory, TLC

CONSTANTS f1, f2        \* factories
CONSTANTS a, b          \* tokens
CONSTANTS pool, plain, gone \* templates: with a constructor, without, undeployed

Ranks == a :> 1 @@ b :> 2
FirstPlain == {HostAddr(f2, plain, SaltOf(0))}
BothOrders == {<<a, b>>, <<b, a>>}
RustAndAs == f1 :> "rust" @@ f2 :> "as"
=============================================================================
