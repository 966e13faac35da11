----------------------------- MODULE MCCrossCall -----------------------------
(***************************************************************************)
(* Instances of CrossCall for TLC: the contracts' code, as the calls it    *)
(* may make.                                                               *)
(***************************************************************************)
EXTENDS CrossCall, TLC

CONSTANTS c1, c2, c3            \* contracts
CONSTANTS write, pay, look      \* entries: plain, payable, view

Contracts3 == {c1, c2, c3}
Contracts2 == {c1, c2}
Entries    == {write, pay, look}

ThreeSdks  == c1 :> "rust" @@ c2 :> "go" @@ c3 :> "as"
AllGo      == [c \in Contract |-> "go"]
AllAs      == [c \in Contract |-> "as"]

\* c1 has no payable entry.
ExportsSome == [c \in Contract |-> IF c = c1 THEN Fn \ {pay} ELSE Fn]
OneEach     == [c \in Contract |-> 1]

\* One call site; RustCap, or the same ReturnCap for Go and AssemblyScript.
At(code, kind, target, fn, value, limit, style) ==
  [code |-> code, kind |-> kind, target |-> target, fn |-> fn,
   value |-> value, limit |-> limit, cap |-> RustCap, style |-> style]

\* A contract of each SDK; between them every kind of call, every style, and
\* every refusal: c1 exports no pay, c3.write is no view, pay moves value.
Program ==
  {At(c1, "call",     c2, pay,   1, -1, "typed"),
   At(c1, "static",   c3, write, 0, -1, "typed"),
   At(c1, "delegate", c3, write, 0, -1, "raw"),
   At(c2, "call",     c3, pay,   1, -1, "exec"),
   At(c2, "call",     c1, write, 0,  1, "orRevert"),
   At(c2, "static",   c3, look,  0, -1, "orRevert"),
   At(c3, "call",     c1, pay,   0, -1, "exec"),
   At(c3, "call",     c2, write, 1, -1, "orRevert"),
   At(c3, "delegate", c1, look,  0, -1, "exec"),
   At(c3, "static",   c2, look,  0, -1, "orRevert")}

\* One SDK on both sides: calls up and down, and a view that calls on.
OneSdkProgram ==
  {At(c, "call", d, f, v, -1, st) :
     c \in Contract, d \in Contract, f \in {write, pay}, v \in {0, 1},
     st \in StylesOf(SdkOf[c1])}
    \cup {At(c, "static", d, f, 0, -1, st) :
            c \in Contract, d \in Contract, f \in {look, write},
            st \in StylesOf(SdkOf[c1])}
=============================================================================
