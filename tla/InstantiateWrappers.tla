------------------------- MODULE InstantiateWrappers -------------------------
(***************************************************************************)
(* How the Rust, Go and AssemblyScript SDKs turn what the host did with an *)
(* instantiate into what a factory's author sees.  Byte strings and the    *)
(* length slot are those of CallWrappers.                                  *)
(***************************************************************************)
EXTENDS CallWrappers

CONSTANT Zero           \* thirty-two zero bytes, the child out-parameter unset

CtorReverted     == -40
TemplateNotFound == -43
AddressOccupied  == -44
CtorMismatch     == -45
PrefixCollision  == -46
CapExceeded      == -48

InstantiateStatus ==
  {StatusOk, InsufficientBalance, CtorReverted, TemplateNotFound,
   AddressOccupied, CtorMismatch, PrefixCollision, CapExceeded}

\* What the host did: addr is the child out-parameter afterwards.
Outcome(status, addr, outLen, sent, cap) ==
  [status |-> status, addr |-> addr, outLen |-> outLen, sent |-> sent, cap |-> cap]

\* What the author gets.  Go and AssemblyScript hand the status over as it is.
Child(tag, addr)       == [tag |-> tag, addr |-> addr, data |-> NoBytes]
NoChild(tag, data)     == [tag |-> tag, addr |-> Zero, data |-> data]
Seen(tag, addr, data)  == [tag |-> tag, addr |-> addr, data |-> data]
NothingYet             == NoChild("None", NoBytes)

StatusTag(status) ==
  CASE status = StatusOk            -> "Ok"
    [] status = CtorReverted        -> "CtorReverted"
    [] status = AddressOccupied     -> "Exists"
    [] status = TemplateNotFound    -> "TemplateNotFound"
    [] status = CtorMismatch        -> "CtorMismatch"
    [] status = PrefixCollision     -> "PrefixCollision"
    [] status = CapExceeded         -> "CapExceeded"
    [] status = InsufficientBalance -> "InsufficientBalance"
    [] OTHER                        -> "Unexpected"

Payload(io) == Read(io, Least(io.outLen, io.cap))

\* Every status that comes with an address is taken for Exists.
RustAnyAddress(io) ==
  CASE io.status = StatusOk -> Child("Ok", io.addr)
    [] io.addr # Zero       -> Child("Exists", io.addr)
    [] OTHER                -> NoChild(StatusTag(io.status), NoBytes)

\* A success and an occupied address are the same arm.
RustExistsIsOk(io) ==
  CASE io.status \in {StatusOk, AddressOccupied} -> Child("Ok", io.addr)
    [] io.status = CtorReverted -> NoChild("CtorReverted", Payload(io))
    [] OTHER                    -> NoChild(StatusTag(io.status), NoBytes)

(* Rust: Instantiate::instantiate *)
RustInstantiate(io) ==
  CASE io.status \in {StatusOk, AddressOccupied} ->
         Child(StatusTag(io.status), io.addr)
    [] io.status = CtorReverted -> NoChild("CtorReverted", Payload(io))
    [] OTHER                    -> NoChild(StatusTag(io.status), NoBytes)

(* Go: Factory.Instantiate *)
GoInstantiate(io) == Seen(StatusTag(io.status), io.addr, Payload(io))

\* The length is believed whatever the status.
AsBelieving(io) == Seen(StatusTag(io.status), io.addr, Payload(io))

(* AssemblyScript: Factory.instantiate *)
AsInstantiate(io) ==
  Seen(StatusTag(io.status), io.addr,
       IF io.status \in {StatusOk, CtorReverted} THEN Payload(io) ELSE NoBytes)

(* InstantiateOrRevert / instantiateOrRevert *)
ForwardedInstantiate(r, text) ==
  IF r.tag = "Ok" THEN Child("Ok", r.addr)
  ELSE NoChild("Halt", IF r.data # NoBytes THEN r.data ELSE Made(text, 1))

InstantiateStyle == {"match", "orRevert"}

WrapInstantiate(sdk, style, io) ==
  CASE sdk = "rust"                      -> RustInstantiate(io)
    [] sdk = "go" /\ style = "match"     -> GoInstantiate(io)
    [] sdk = "go" /\ style = "orRevert"  -> ForwardedInstantiate(GoInstantiate(io), "generic")
    [] sdk = "as" /\ style = "match"     -> AsInstantiate(io)
    [] OTHER -> ForwardedInstantiate(AsInstantiate(io), "named")
=============================================================================
