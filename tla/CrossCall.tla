------------------------------ MODULE CrossCall ------------------------------
(***************************************************************************)
(* Contracts written with the Rust, Go and AssemblyScript SDKs calling one *)
(* another inside a transaction.  A frame is one running contract call; the*)
(* frames of a transaction are a stack, and only the top one runs.  The    *)
(* host (the chain's engine) is external: it is modelled from what the     *)
(* SDKs' wrappers and the ABI specification rely on.                       *)
(***************************************************************************)
EXTENDS CallWrappers, Functions

CONSTANTS
  Contract, SdkOf,              \* deployed or not, and the SDK it is built on
  Deployed,                     \* the contracts that have code
  Fn, Exports,                  \* entry names, and those each contract exports
  ViewFn, PayableFn, ReentrantFn,
  Val,                          \* storage values
  Supply,                       \* initial balance of each contract
  Site,                         \* the calls the contracts' code may make
  Size,                         \* lengths of return data and revert payloads
  MaxDepth,                     \* the host's cap on the stack
  MaxGas, ViewFuel,             \* fuel of a transaction, and of a static call
  RefusalLen                    \* what a refused call does to the length slot

Kind == {"call", "static", "delegate"}

SiteType ==
  [code : Contract, kind : Kind, target : Contract, fn : Fn,
   value : Nat, limit : Int, cap : Nat, style : Style]

ASSUME ContractAssumption ==
  /\ Contract # {} /\ Fn # {} /\ Val # {}
  /\ SdkOf \in [Contract -> Sdk]
  /\ Deployed \subseteq Contract
  /\ Exports \in [Contract -> SUBSET Fn]
  /\ ViewFn \subseteq Fn /\ PayableFn \subseteq Fn /\ ReentrantFn \subseteq Fn
  /\ ViewFn \cap PayableFn = {}
  /\ Supply \in [Contract -> Nat]
ASSUME SiteAssumption ==
  /\ Site \subseteq SiteType
  /\ \A s \in Site :
       /\ s.style \in StylesOf(SdkOf[s.code])
       /\ SdkOf[s.code] = "rust" => s.cap = RustCap
       /\ s.kind # "call" => s.value = 0
ASSUME BoundAssumption ==
  /\ MaxDepth \in Nat \ {0} /\ MaxGas \in Nat /\ ViewFuel \in Nat
  /\ Size \subseteq Nat
  /\ RefusalLen \subseteq {"kept", "zero"} /\ RefusalLen # {}

VARIABLES
  world,        \* storage and balances, as the running frame sees them
  depth,        \* frames on the stack
  frame,        \* the stack
  receipt       \* of the last transaction

vars == <<world, depth, frame, receipt>>

World == [slot : [Contract -> Val], bal : [Contract -> Nat]]

NoSite == [kind |-> "none"]

Frame ==
  [code : Contract,             \* whose code runs
   self : Contract,             \* in whose storage and name
   fn : Fn,
   view : BOOLEAN,
   gas : Nat,
   pc : {"run", "call", "halt"},
   site : Site \cup {NoSite},   \* the call it waits for
   entry : World,               \* the world to restore if it fails
   before : World,              \* the world when it made its last call
   last : Result,               \* what its wrapper made of that call,
   io : Io]                     \* and what the host had done

NoFrame == [pc |-> "none"]
Depths  == 1 .. MaxDepth
Receipt == [ok : BOOLEAN, data : Bytes]

Top == frame[depth]

Init ==
  /\ world \in {[slot |-> [c \in Contract |-> v], bal |-> Supply] : v \in Val}
  /\ depth = 0
  /\ frame = [d \in Depths |-> NoFrame]
  /\ receipt = [ok |-> TRUE, data |-> NoBytes]

-----------------------------------------------------------------------------
(* Frames *)

\* The view flag as the entry's attribute alone.
NewFrameByAttribute(code, self, fn, view, gas) ==
  [code |-> code, self |-> self, fn |-> fn, view |-> fn \in ViewFn, gas |-> gas,
   pc |-> "run", site |-> NoSite, entry |-> world, before |-> world,
   last |-> NoResult, io |-> NoIo]

NewFrame(code, self, fn, view, gas) ==
  [code |-> code, self |-> self, fn |-> fn, view |-> view, gas |-> gas,
   pc |-> "run", site |-> NoSite, entry |-> world, before |-> world,
   last |-> NoResult, io |-> NoIo]

\* A step that costs nothing.
SpendNothing(fr) ==
  [fr EXCEPT !.last = NoResult, !.io = NoIo, !.before = world]

\* The author's code goes on: it has looked at the last call's result.
Spend(fr) ==
  [fr EXCEPT !.gas = fr.gas - 1, !.last = NoResult, !.io = NoIo,
             !.before = world]

\* The host hands a call's outcome to the wrapper the caller used.
Deliver(fr, site, io) ==
  LET r == Wrap(SdkOf[fr.code], site.style, io)
  IN  [fr EXCEPT !.pc = IF r.tag = "Halt" THEN "halt" ELSE "run",
                 !.site = NoSite, !.last = r, !.io = io]

\* min(limit, remaining), a negative limit forwarding everything.
Given(limit, remaining) ==
  IF limit < 0 \/ limit > remaining THEN remaining ELSE limit

CanAct == depth > 0 /\ Top.pc = "run" /\ Top.gas > 0

-----------------------------------------------------------------------------
(* A transaction enters a contract. *)

Begin(c, f) ==
  /\ depth = 0
  /\ c \in Deployed /\ f \in Exports[c]
  /\ depth' = 1
  /\ frame' = [frame EXCEPT ![1] = NewFrame(c, c, f, f \in ViewFn, MaxGas)]
  /\ receipt' = [ok |-> TRUE, data |-> NoBytes]
  /\ UNCHANGED world

\* sstore: under the view flag the host refuses it, and nothing changes.
SStore(v) ==
  /\ CanAct
  /\ ~ Top.view
  /\ world' = [world EXCEPT !.slot[Top.self] = v]
  /\ frame' = [frame EXCEPT ![depth] = Spend(Top)]
  /\ UNCHANGED <<depth, receipt>>

-----------------------------------------------------------------------------
(* Cross-contract calls *)

SelfOf(s)  == IF s.kind = "delegate" THEN Top.self ELSE s.target
OnStack(c, f) == \E d \in 1 .. depth : frame[d].self = c /\ frame[d].fn = f
MovesValue(s) == s.value > 0

\* The pre-checks without the one on the balance.
RefusalsNoBalance(s) ==
  {c \in Status :
     \/ c = CrossCallFailed /\ s.target \notin Deployed
     \/ c = InvalidFunctionName /\ s.fn \notin Exports[s.target]
     \/ c = NotPayable /\ MovesValue(s) /\ s.fn \notin PayableFn}

\* The host's pre-checks: every status the call may be refused with.
Refusals(s) ==
  {c \in Status :
     \/ c = CrossCallFailed /\ s.target \notin Deployed
     \/ c = InvalidFunctionName /\ s.fn \notin Exports[s.target]
     \/ c = Forbidden /\ (\/ s.kind = "static" /\ s.fn \notin ViewFn
                          \/ Top.view /\ MovesValue(s))
     \/ /\ c = ReentrancyBlocked
        /\ s.fn \notin ReentrantFn \cup ViewFn /\ OnStack(SelfOf(s), s.fn)
     \/ c = NotPayable /\ MovesValue(s) /\ s.fn \notin PayableFn
     \/ c = InsufficientBalance /\ s.value > world.bal[Top.self]}

\* The length slot after a call that never ran: seeded with cap.
SlotLen(s, l) == IF l = "kept" THEN s.cap ELSE 0

CallIo(s, status, outLen, sent, decodes) ==
  [status |-> status, outLen |-> outLen, sent |-> sent, cap |-> s.cap,
   decodes |-> decodes]

Refuse(s) ==
  /\ CanAct
  /\ s.code = Top.code
  /\ \E c \in Refusals(s), l \in RefusalLen :
       frame' = [frame EXCEPT ![depth] =
                   Deliver(Spend(Top), s,
                           CallIo(s, c, SlotLen(s, l), NoBytes, FALSE))]
  /\ UNCHANGED <<world, depth, receipt>>

\* The value is credited and never taken.
TransferCredit(s) == [world EXCEPT !.bal[s.target] = @ + s.value]

Transfer(s) ==
  [world EXCEPT !.bal = [c \in Contract |->
     world.bal[c] + (IF c = s.target THEN s.value ELSE 0)
                  - (IF c = Top.self THEN s.value ELSE 0)]]

Budget(s) ==
  IF s.kind = "static" THEN ViewFuel ELSE Given(s.limit, Top.gas - 1)

Waiting(fr, s) ==
  [fr EXCEPT !.pc = "call", !.site = s,
             !.gas = IF s.kind = "static" THEN fr.gas ELSE fr.gas - Budget(s)]

\* The undo point is taken once the value has moved.
EnterLateUndo(s) ==
  /\ CanAct
  /\ s.code = Top.code
  /\ Refusals(s) = {}
  /\ depth < MaxDepth
  /\ depth' = depth + 1
  /\ world' = Transfer(s)
  /\ frame' = [frame EXCEPT
       ![depth] = Waiting(Spend(Top), s),
       ![depth + 1] =
         [NewFrame(s.target, SelfOf(s), s.fn,
                   Top.view \/ s.kind = "static", Budget(s))
            EXCEPT !.entry = Transfer(s)]]
  /\ UNCHANGED receipt

\* The callee starts on an undo point taken before the value moves.
Enter(s) ==
  /\ CanAct
  /\ s.code = Top.code
  /\ Refusals(s) = {}
  /\ depth < MaxDepth
  /\ depth' = depth + 1
  /\ world' = Transfer(s)
  /\ frame' = [frame EXCEPT
       ![depth] = Waiting(Spend(Top), s),
       ![depth + 1] = NewFrame(s.target, SelfOf(s), s.fn,
                               Top.view \/ s.kind = "static", Budget(s))]
  /\ UNCHANGED receipt

EndTx(status, sent) ==
  /\ depth' = 0
  /\ frame' = [d \in Depths |-> NoFrame]
  /\ receipt' = [ok |-> status = StatusOk, data |-> sent]

\* Past the stack's cap the whole transaction traps.
TooDeep(s) ==
  /\ CanAct
  /\ s.code = Top.code
  /\ Refusals(s) = {}
  /\ depth = MaxDepth
  /\ world' = frame[1].entry
  /\ EndTx(CrossCallFailed, NoBytes)

-----------------------------------------------------------------------------
(* A frame ends.  Its caller gets the fuel it did not use back, except for *)
(* a static call, which is free.                                           *)

Refund == IF frame[depth - 1].site.kind = "static" THEN 0 ELSE Top.gas

Leave(status, sent, outLen, decodes) ==
  IF depth = 1
  THEN EndTx(status, sent)
  ELSE LET caller == frame[depth - 1]
           paid   == [caller EXCEPT !.gas = caller.gas + Refund]
           io     == CallIo(caller.site, status, outLen, sent, decodes)
       IN  /\ depth' = depth - 1
           /\ frame' = [frame EXCEPT
                          ![depth] = NoFrame,
                          ![depth - 1] = Deliver(paid, caller.site, io)]
           /\ UNCHANGED receipt

\* Whether the bytes are the borsh form of the T an execute::<T> asked for.
Decodings ==
  IF depth > 1 /\ frame[depth - 1].site.style = "typed" THEN BOOLEAN ELSE {TRUE}

\* pyde_return: the frame's effects merge into its caller's.
Return(n) ==
  /\ depth > 0 /\ Top.pc = "run"
  /\ \E decodes \in Decodings : Leave(StatusOk, Made("ret", n), n, decodes)
  /\ UNCHANGED world

\* A failed frame keeps its writes.
RevertWithKept(reason) ==
  /\ UNCHANGED world
  /\ Leave(CrossCallFailed, reason, reason.len, FALSE)

RevertWith(reason) ==
  /\ world' = Top.entry
  /\ Leave(CrossCallFailed, reason, reason.len, FALSE)

\* revert, with a message of the author's.
Revert(n) ==
  /\ depth > 0 /\ Top.pc = "run"
  /\ RevertWith(Made("rev", n))

\* An SDK wrapper reverts the frame it runs in.
WrapperRevert ==
  /\ depth > 0 /\ Top.pc = "halt"
  /\ RevertWith(Top.last.data)

\* unreachable, a failed decode of the calldata, a panic.
Trap ==
  /\ depth > 0 /\ Top.pc = "run"
  /\ RevertWith(NoBytes)

OutOfGas ==
  /\ depth > 0 /\ Top.pc = "run" /\ Top.gas = 0
  /\ world' = Top.entry
  /\ \E l \in RefusalLen :
       Leave(CrossCallOutOfGas, NoBytes,
             IF depth = 1 THEN 0 ELSE SlotLen(frame[depth - 1].site, l), FALSE)

-----------------------------------------------------------------------------

Work ==
  \/ \E v \in Val : SStore(v)
  \/ \E s \in Site : Refuse(s) \/ Enter(s) \/ TooDeep(s)
  \/ \E n \in Size : Return(n) \/ Revert(n)
  \/ WrapperRevert
  \/ Trap
  \/ OutOfGas

Next == (\E c \in Contract, f \in Fn : Begin(c, f)) \/ Work

Spec == Init /\ [][Next]_vars

\* A transaction, once entered, is run to its end.
FairSpec == Spec /\ WF_vars(Work)

-----------------------------------------------------------------------------
(* Type invariant *)

TypeOK ==
  /\ world \in World
  /\ depth \in 0 .. MaxDepth
  /\ frame \in [Depths -> Frame \cup {NoFrame}]
  /\ \A d \in 1 .. depth : frame[d] \in Frame
  /\ \A d \in Depths : d > depth => frame[d] = NoFrame
  /\ receipt \in Receipt

(* Every frame below the top one waits for the frame above it, which holds *)
(* the undo point of that very call: what a caller finds restored is the   *)
(* world it called from.                                                   *)
UndoChain ==
  \A d \in 1 .. depth :
    IF d = depth THEN frame[d].pc # "call"
    ELSE /\ frame[d].pc = "call"
         /\ frame[d].site \in Site
         /\ frame[d + 1].entry = frame[d].before

(* execute, Exec and exec never hand over a truncated or padded value: Ok  *)
(* data is byte for byte what the callee returned (the "reverts rather than*)
(* truncates" rule of call.go and call.ts, ReturnDataTooLarge in lib.rs).  *)
SuccessIsExact ==
  depth > 0 /\ Top.last.tag = "Ok" =>
    Top.io.status = StatusOk /\ Top.last.data = Top.io.sent

(* A payload a wrapper reports, or reverts its own frame with, is the start*)
(* of the bytes the callee failed with, or a text of the SDK's own: never  *)
(* the unwritten rest of the out-buffer.                                   *)
OwnText == {"generic", "named", "oversize"}
PayloadIsCallees ==
  depth > 0 /\ Top.last.tag \in {"Reverted", "Status", "Halt"} =>
    \/ PrefixOf(Top.last.data, Top.io.sent)
    \/ Top.last.tag = "Halt" /\ Top.last.data.src \in OwnText

(* The reason in a failed transaction's receipt, passed on through any     *)
(* number of ExecOrRevert frames, is one somebody gave.                    *)
ReceiptSaysWhy == ~ receipt.ok => receipt.data.src # "pad"

(* A call reported as failed left nothing behind, value included, whatever *)
(* the callee and the contracts it called had done.  DecodeError and       *)
(* ReturnDataTooLarge are the exceptions: the callee had succeeded.        *)
ReportsFailure(r) ==
  \/ r.tag \in ErrTag \cup {"Status"}
  \/ r.tag = "Halt" /\ r.data.src # "oversize"
FailureUndone ==
  depth > 0 /\ ReportsFailure(Top.last) => world = Top.before

(* Nothing changes under a view function or a static call, through any     *)
(* chain of calls and delegate calls below it (execute_static: "you want   *)
(* the chain to enforce read-only behavior").                              *)
ViewFrozen == \A d \in 1 .. depth : frame[d].view => world = frame[d].entry

(* Calls, failures and undone transfers neither mint nor burn PYDE.        *)
Total(balance) == FoldFunction(LAMBDA m, n : m + n, 0, balance)
ValueConserved == Total(world.bal) = Total(Supply)

(* Every transaction ends: the fuel and the depth cap bound it.            *)
Terminates == depth > 0 ~> depth = 0

(* The contract a transaction enters sees its sub-calls, however deep, as  *)
(* the atomic steps of AtomicCall.                                         *)
OutcomeOf(r) ==
  CASE r.tag = "None" -> "none"
    [] r.tag = "Ok"   -> "ok"
    [] OTHER          -> IF ReportsFailure(r) THEN "failed" ELSE "unreadable"

Abstract == INSTANCE AtomicCall WITH
  committed <- IF depth = 0 THEN world ELSE frame[1].entry,
  working   <- IF depth <= 1 THEN world ELSE frame[1].before,
  active    <- depth > 0,
  readonly  <- depth > 0 /\ frame[1].view,
  outcome   <- IF depth = 0 THEN "none" ELSE OutcomeOf(frame[1].last)

Atomic == Abstract!Spec
=============================================================================
