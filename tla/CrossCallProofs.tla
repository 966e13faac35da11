--------------------------- MODULE CrossCallProofs ---------------------------
(***************************************************************************)
(* Proofs about CrossCall, for every set of contracts, call sites, depth   *)
(* cap, fuel and host behaviour its assumptions allow: its inductive       *)
(* invariant, and on top of it failures undone and views frozen, what the  *)
(* wrappers of every SDK tell their callers, the supply conserved, and     *)
(* calls atomic.                                                           *)
(***************************************************************************)
EXTENDS CrossCall, DataProofs

-----------------------------------------------------------------------------
(* Operators *)

LEMMA MadeType ==
  ASSUME NEW src \in Source, NEW n \in Nat
  PROVE  Made(src, n) \in Bytes /\ Made(src, n).len = n
BY DEF Made, NoBytes, Bytes, Source

LEMMA ReadType ==
  ASSUME NEW io \in Io, NEW k \in Nat
  PROVE  Read(io, k) \in Bytes
<1>1. io.sent.src \in Source
  BY DEF Io, Bytes
<1>. QED
  BY <1>1, MadeType DEF Read, Source

LEMMA LeastType == \A m, n \in Nat : Least(m, n) \in Nat /\ Least(m, n) <= m
BY DEF Least

(* Whatever the host did, each SDK's wrapper yields a value of its result   *)
(* type.                                                                    *)
LEMMA RustRawType ==
  ASSUME NEW io \in Io
  PROVE  RustRaw(io) \in Result
<1>1. io.status \in Status /\ io.outLen \in Nat /\ io.cap \in Nat
  BY DEF Io
<1>2. Read(io, io.outLen) \in Bytes /\ Read(io, Least(io.outLen, io.cap)) \in Bytes
  BY <1>1, ReadType, LeastType
<1>3. ErrFromStatus(io.status) \in ErrTag
  BY DEF ErrFromStatus, ErrTag
<1>4. NoBytes \in Bytes /\ StatusOk \in Status
  BY DEF NoBytes, Bytes, Source, Status
<1>. QED
  BY <1>1, <1>2, <1>3, <1>4 DEF RustRaw, Err, Ok, Result, Tag

LEMMA WrapType ==
  ASSUME NEW sdk, NEW style, NEW io \in Io
  PROVE  Wrap(sdk, style, io) \in Result
<1>1. io.status \in Status /\ io.outLen \in Nat /\ io.cap \in Nat
  BY DEF Io
<1>2. Read(io, io.outLen) \in Bytes /\ Read(io, Least(io.outLen, io.cap)) \in Bytes
  BY <1>1, ReadType, LeastType
<1>3. NoBytes \in Bytes /\ StatusOk \in Status
  BY DEF NoBytes, Bytes, Source, Status
<1>4. /\ Made("oversize", 1) \in Bytes
      /\ Made("generic", 1) \in Bytes
      /\ Made("named", 1) \in Bytes
  BY MadeType DEF Source
<1>5. RustTyped(io) \in Result
  BY <1>3, RustRawType DEF RustTyped, Err, Result, Tag
<1>6. GoExec(io) \in Result
  BY <1>1, <1>2, <1>3, <1>4 DEF GoExec, Halt, Ok, Failed, Result, Tag
<1>7. AsExec(io) \in Result
  BY <1>1, <1>2, <1>3, <1>4 DEF AsExec, Halt, Ok, Failed, Result, Tag
<1>8. ASSUME NEW r \in Result, NEW text \in {"generic", "named"}
      PROVE  Forwarded(r, text) \in Result
  BY <1>3, <1>4 DEF Forwarded, Halt, Result, Tag
<1>9. GoExecOrRevert(io) \in Result /\ AsExecOrRevert(io) \in Result
  BY <1>6, <1>7, <1>8 DEF GoExecOrRevert, AsExecOrRevert
<1>. QED
  BY RustRawType, <1>5, <1>6, <1>7, <1>9 DEF Wrap

-----------------------------------------------------------------------------
(* Frames *)

LEMMA ConstantTypes ==
  /\ NoResult \in Result /\ NoIo \in Io /\ NoBytes \in Bytes
  /\ NoSite \notin Site
  /\ NoFrame \notin Frame
  /\ 1 \in Depths /\ MaxDepth \in Nat
<1>1. NoResult \in Result /\ NoIo \in Io /\ NoBytes \in Bytes
  BY DEF NoResult, Result, Tag, NoIo, Io, NoBytes, Bytes, Source, Status,
         StatusOk
<1>2. NoSite \notin Site
  BY SiteAssumption DEF NoSite, SiteType, Kind
<1>3. NoFrame \notin Frame
  BY DEF NoFrame, Frame
<1>4. 1 \in Depths /\ MaxDepth \in Nat
  BY BoundAssumption DEF Depths
<1>. QED
  BY <1>1, <1>2, <1>3, <1>4

LEMMA NewFrameType ==
  ASSUME NEW code \in Contract, NEW self \in Contract, NEW fn \in Fn,
         NEW view \in BOOLEAN, NEW gas \in Nat, world \in World
  PROVE  NewFrame(code, self, fn, view, gas) \in Frame
BY ConstantTypes DEF NewFrame, Frame

LEMMA SpendType ==
  ASSUME NEW fr \in Frame, fr.gas > 0, world \in World
  PROVE  /\ Spend(fr) \in Frame
         /\ Spend(fr).gas = fr.gas - 1
         /\ Spend(fr).pc = fr.pc /\ Spend(fr).entry = fr.entry
         /\ Spend(fr).code = fr.code /\ Spend(fr).view = fr.view
         /\ Spend(fr).last = NoResult /\ Spend(fr).io = NoIo
         /\ Spend(fr).before = world
<1>1. NoResult \in Result /\ NoIo \in Io
  BY ConstantTypes
<1>2. fr.gas - 1 \in Nat
  BY DEF Frame
<1>. QED
  BY <1>1, <1>2 DEF Spend, Frame

LEMMA DeliverType ==
  ASSUME NEW fr \in Frame, NEW site, NEW io \in Io
  PROVE  /\ Deliver(fr, site, io) \in Frame
         /\ Deliver(fr, site, io).pc # "call"
         /\ Deliver(fr, site, io).pc = "halt" =>
              Deliver(fr, site, io).last.tag = "Halt"
         /\ Deliver(fr, site, io).entry = fr.entry
         /\ Deliver(fr, site, io).before = fr.before
         /\ Deliver(fr, site, io).view = fr.view
         /\ Deliver(fr, site, io).last = Wrap(SdkOf[fr.code], site.style, io)
         /\ Deliver(fr, site, io).io = io
<1>1. Wrap(SdkOf[fr.code], site.style, io) \in Result
  BY WrapType
<1>. QED
  BY <1>1 DEF Deliver, Frame

LEMMA CallIoType ==
  ASSUME NEW s \in Site, NEW status \in Status, NEW outLen \in Nat,
         NEW sent \in Bytes, NEW decodes \in BOOLEAN
  PROVE  CallIo(s, status, outLen, sent, decodes) \in Io
BY SiteAssumption DEF CallIo, Io, SiteType

LEMMA SlotLenType ==
  ASSUME NEW s \in Site, NEW l
  PROVE  SlotLen(s, l) \in Nat
BY SiteAssumption DEF SlotLen, SiteType

LEMMA GivenType ==
  ASSUME NEW limit \in Int, NEW remaining \in Nat
  PROVE  Given(limit, remaining) \in Nat /\ Given(limit, remaining) <= remaining
BY DEF Given


-----------------------------------------------------------------------------
(* The inductive invariant: the type invariant needs to know that a frame  *)
(* the callee returns to is waiting for a call.                            *)

IInv == TypeOK /\ UndoChain

LEMMA TopType ==
  ASSUME TypeOK, depth > 0
  PROVE  /\ depth \in Depths /\ depth \in Nat /\ depth <= MaxDepth
         /\ Top \in Frame
         /\ world \in World
BY ConstantTypes DEF TypeOK, Depths, Top

(* The transaction is over. *)
LEMMA EndTxStep ==
  ASSUME NEW status \in Status, NEW sent \in Bytes,
         EndTx(status, sent), world' \in World
  PROVE  IInv'
BY ConstantTypes DEF EndTx, IInv, TypeOK, UndoChain, Receipt, Depths

(* A frame leaves the stack and its caller's wrapper takes the result. *)
LEMMA LeaveStep ==
  ASSUME IInv, depth > 0,
         NEW status \in Status, NEW sent \in Bytes, NEW outLen \in Nat,
         NEW decodes \in BOOLEAN,
         Leave(status, sent, outLen, decodes), world' \in World
  PROVE  IInv'
<1>1. CASE depth = 1
  BY <1>1, EndTxStep DEF Leave
<1>2. CASE depth # 1
  <2> DEFINE caller == frame[depth - 1]
             paid   == [caller EXCEPT !.gas = caller.gas + Refund]
             io     == CallIo(caller.site, status, outLen, sent, decodes)
             new    == Deliver(paid, caller.site, io)
  <2>1. /\ depth \in Depths /\ depth \in Nat /\ depth <= MaxDepth
        /\ depth - 1 \in Depths /\ depth - 1 \in 1 .. depth
        /\ depth - 1 # depth /\ MaxDepth \in Nat
    BY <1>2, TopType, ConstantTypes DEF IInv, Depths
  <2>2. caller \in Frame /\ caller.site \in Site
    BY <2>1 DEF IInv, TypeOK, UndoChain
  <2>3. Refund \in Nat
    BY TopType DEF IInv, Refund, Frame
  <2>4. paid \in Frame /\ paid.entry = caller.entry
    BY <2>2, <2>3 DEF Frame
  <2>5. io \in Io
    BY <2>2, CallIoType
  <2> HIDE DEF caller, paid, io
  <2>6. new \in Frame /\ new.pc # "call" /\ new.entry = caller.entry
    BY <2>4, <2>5, DeliverType
  <2> HIDE DEF new
  <2>7. /\ depth' = depth - 1
        /\ frame' = [frame EXCEPT ![depth] = NoFrame, ![depth - 1] = new]
        /\ receipt' = receipt
    BY <1>2 DEF Leave, new, paid, io, caller
  <2>8. TypeOK'
    <3>1. frame' \in [Depths -> Frame \cup {NoFrame}]
      BY <2>1, <2>6, <2>7 DEF IInv, TypeOK
    <3>2. ASSUME NEW d \in 1 .. depth - 1
          PROVE  frame'[d] \in Frame
      <4>1. d \in Depths /\ d \in 1 .. depth /\ d # depth
        BY <2>1 DEF Depths
      <4>. QED
        BY <4>1, <2>1, <2>6, <2>7 DEF IInv, TypeOK
    <3>3. \A d \in Depths : d > depth - 1 => frame'[d] = NoFrame
      BY <2>1, <2>6, <2>7 DEF IInv, TypeOK, Depths
    <3>4. receipt' \in Receipt /\ world' \in World /\ depth' \in 0 .. MaxDepth
      BY <2>1, <2>7, ConstantTypes DEF IInv, TypeOK, Depths
    <3>. QED
      BY <2>7, <3>1, <3>2, <3>3, <3>4 DEF TypeOK
  <2>9. UndoChain'
    <3> SUFFICES ASSUME NEW d \in 1 .. depth - 1
                 PROVE  IF d = depth - 1 THEN frame'[d].pc # "call"
                        ELSE /\ frame'[d].pc = "call"
                             /\ frame'[d].site \in Site
                             /\ frame'[d + 1].entry = frame'[d].before
      BY <2>7 DEF UndoChain
    <3>1. frame \in [Depths -> Frame \cup {NoFrame}]
      BY DEF IInv, TypeOK
    <3>2. CASE d = depth - 1
      BY <2>1, <2>6, <2>7, <3>1, <3>2
    <3>3. CASE d # depth - 1
      <4>1. d \in Depths /\ d + 1 \in Depths /\ d \in 1 .. depth /\ d # depth
        BY <2>1, <3>3 DEF Depths
      <4>2. frame'[d] = frame[d]
        BY <2>1, <2>7, <3>1, <3>3, <4>1
      <4>3. frame'[d + 1].entry = frame[d + 1].entry
        <5>1. CASE d + 1 = depth - 1
          BY <2>1, <2>6, <2>7, <3>1, <5>1 DEF caller
        <5>2. CASE d + 1 # depth - 1
          BY <2>1, <2>7, <3>1, <3>3, <4>1, <5>2
        <5>. QED
          BY <5>1, <5>2
      <4>. QED
        BY <3>3, <4>1, <4>2, <4>3 DEF IInv, UndoChain
    <3>. QED
      BY <3>2, <3>3
  <2>. QED
    BY <2>8, <2>9 DEF IInv
<1>. QED
  BY <1>1, <1>2


(* Only the top frame moves. *)
LEMMA TopStep ==
  ASSUME IInv, depth > 0, NEW new \in Frame,
         new.pc # "call", new.entry = Top.entry,
         depth' = depth, frame' = [frame EXCEPT ![depth] = new],
         receipt' = receipt, world' \in World
  PROVE  IInv'
<1>1. /\ depth \in Depths /\ depth \in Nat /\ MaxDepth \in Nat
      /\ frame \in [Depths -> Frame \cup {NoFrame}]
  BY TopType, ConstantTypes DEF IInv, TypeOK
<1>2. TypeOK'
  <2>1. ASSUME NEW d \in 1 .. depth
        PROVE  frame'[d] \in Frame
    BY <1>1 DEF IInv, TypeOK, Depths
  <2>2. ASSUME NEW d \in Depths, d > depth
        PROVE  frame'[d] = NoFrame
    BY <1>1, <2>2 DEF IInv, TypeOK, Depths
  <2>. QED
    BY <1>1, <2>1, <2>2 DEF IInv, TypeOK
<1>3. UndoChain'
  <2> SUFFICES ASSUME NEW d \in 1 .. depth
               PROVE  IF d = depth THEN frame'[d].pc # "call"
                      ELSE /\ frame'[d].pc = "call"
                           /\ frame'[d].site \in Site
                           /\ frame'[d + 1].entry = frame'[d].before
    BY DEF UndoChain
  <2>1. CASE d = depth
    BY <1>1, <2>1
  <2>2. CASE d # depth
    <3>1. d \in Depths /\ d + 1 \in Depths
      BY <1>1, <2>2 DEF Depths
    <3>2. frame'[d] = frame[d]
      BY <1>1, <2>2, <3>1
    <3>3. frame'[d + 1].entry = frame[d + 1].entry
      BY <1>1, <3>1 DEF Top
    <3>. QED
      BY <2>2, <3>2, <3>3 DEF IInv, UndoChain
  <2>. QED
    BY <2>1, <2>2
<1>. QED
  BY <1>2, <1>3 DEF IInv

LEMMA BeginStep ==
  ASSUME IInv, NEW c \in Contract, NEW f \in Fn, Begin(c, f)
  PROVE  IInv'
<1> DEFINE new == NewFrame(c, c, f, f \in ViewFn, MaxGas)
<1>1. new \in Frame /\ new.pc # "call"
  <2>1. (f \in ViewFn) \in BOOLEAN
    OBVIOUS
  <2>2. world \in World /\ MaxGas \in Nat
    BY BoundAssumption DEF IInv, TypeOK
  <2>3. new \in Frame
    BY <2>1, <2>2, NewFrameType, Zenon
  <2>. QED
    BY <2>3 DEF NewFrame
<1> HIDE DEF new
<1>2. /\ depth = 0 /\ depth' = 1 /\ world' = world
      /\ frame' = [frame EXCEPT ![1] = new]
      /\ receipt' \in Receipt
  BY ConstantTypes DEF Begin, new, Receipt
<1>3. frame \in [Depths -> Frame \cup {NoFrame}] /\ 1 \in Depths /\ MaxDepth \in Nat
  BY ConstantTypes DEF IInv, TypeOK
<1>4. frame'[1] = new
  BY <1>2, <1>3
<1>5. TypeOK'
  BY <1>1, <1>2, <1>3, <1>4 DEF IInv, TypeOK, Depths
<1>6. UndoChain'
  BY <1>1, <1>2, <1>4 DEF UndoChain
<1>. QED
  BY <1>5, <1>6 DEF IInv

LEMMA SStoreStep ==
  ASSUME IInv, NEW v \in Val, SStore(v)
  PROVE  IInv'
<1>1. depth > 0 /\ Top.gas > 0 /\ Top.pc = "run" /\ Top \in Frame /\ world \in World
  BY TopType DEF SStore, CanAct, IInv
<1>2. world' \in World
  BY <1>1 DEF SStore, World, Frame
<1>3. Spend(Top) \in Frame /\ Spend(Top).pc # "call" /\ Spend(Top).entry = Top.entry
  BY <1>1, SpendType
<1>. QED
  BY <1>1, <1>2, <1>3, TopStep DEF SStore

LEMMA RefuseStep ==
  ASSUME IInv, NEW s \in Site, Refuse(s)
  PROVE  IInv'
<1>1. depth > 0 /\ Top.gas > 0 /\ Top \in Frame /\ world \in World
  BY TopType DEF Refuse, CanAct, IInv
<1>2. PICK c \in Refusals(s), l \in RefusalLen :
        frame' = [frame EXCEPT ![depth] =
                    Deliver(Spend(Top), s,
                            CallIo(s, c, SlotLen(s, l), NoBytes, FALSE))]
  BY DEF Refuse
<1> DEFINE io  == CallIo(s, c, SlotLen(s, l), NoBytes, FALSE)
           new == Deliver(Spend(Top), s, io)
<1>3. c \in Status
  BY DEF Refusals
<1>4. io \in Io
  BY <1>3, CallIoType, SlotLenType, ConstantTypes
<1>5. Spend(Top) \in Frame /\ Spend(Top).entry = Top.entry
  BY <1>1, SpendType
<1> HIDE DEF io
<1>6. new \in Frame /\ new.pc # "call" /\ new.entry = Top.entry
  BY <1>4, <1>5, DeliverType
<1>7. frame' = [frame EXCEPT ![depth] = new]
  BY <1>2 DEF io
<1> HIDE DEF new
<1>. QED
  BY <1>1, <1>6, <1>7, TopStep DEF Refuse


(* The attached value leaves the caller, who has it, for the target. *)
LEMMA TransferType ==
  ASSUME IInv, NEW s \in Site, depth > 0, Refusals(s) = {}
  PROVE  Transfer(s) \in World
<1>1. /\ world \in World /\ Top \in Frame
      /\ s.value \in Nat /\ s.target \in Contract
  BY TopType, SiteAssumption DEF IInv, SiteType
<1>2. Top.self \in Contract /\ world.bal \in [Contract -> Nat]
  BY <1>1 DEF Frame, World
<1>3. s.value <= world.bal[Top.self]
  <2>1. InsufficientBalance \in Status
    BY DEF Status
  <2>2. ~ (s.value > world.bal[Top.self])
    BY <2>1 DEF Refusals
  <2>. QED
    BY <1>1, <1>2, <2>2
<1> DEFINE bal == [c \in Contract |->
              world.bal[c] + (IF c = s.target THEN s.value ELSE 0)
                           - (IF c = Top.self THEN s.value ELSE 0)]
<1>4. ASSUME NEW c \in Contract
      PROVE  world.bal[c] + (IF c = s.target THEN s.value ELSE 0)
               - (IF c = Top.self THEN s.value ELSE 0) \in Nat
  BY <1>1, <1>2, <1>3
<1>5. bal \in [Contract -> Nat]
  BY <1>4
<1> HIDE DEF bal
<1>6. [world EXCEPT !.bal = bal] \in World
  BY <1>1, <1>5 DEF World
<1>. QED
  BY <1>6 DEF Transfer, bal

LEMMA EnterStep ==
  ASSUME IInv, NEW s \in Site, Enter(s)
  PROVE  IInv'
<1>1. /\ depth > 0 /\ Top.gas > 0 /\ Top \in Frame /\ world \in World
      /\ depth < MaxDepth /\ depth' = depth + 1 /\ receipt' = receipt
      /\ depth \in Depths /\ depth \in Nat /\ MaxDepth \in Nat
      /\ depth + 1 \in Depths /\ depth + 1 # depth
      /\ frame \in [Depths -> Frame \cup {NoFrame}]
  BY TopType, ConstantTypes DEF Enter, CanAct, IInv, TypeOK, Depths
<1>2. world' \in World
  BY <1>1, TransferType DEF Enter
<1>3. /\ s.kind \in Kind /\ s.limit \in Int /\ s.target \in Contract
      /\ s.fn \in Fn
  BY SiteAssumption DEF SiteType
<1>4. Budget(s) \in Nat /\ (s.kind # "static" => Budget(s) <= Top.gas - 1)
  <2>1. Top.gas - 1 \in Nat
    BY <1>1 DEF Frame
  <2>. QED
    BY <1>3, <2>1, GivenType, BoundAssumption DEF Budget
<1> DEFINE old == Waiting(Spend(Top), s)
           new == NewFrame(s.target, SelfOf(s), s.fn,
                           Top.view \/ s.kind = "static", Budget(s))
<1>5. /\ old \in Frame /\ old.pc = "call" /\ old.site \in Site
      /\ old.entry = Top.entry /\ old.before = world
  <2> DEFINE sp == Spend(Top)
  <2>1. /\ sp \in Frame /\ sp.gas = Top.gas - 1
        /\ sp.entry = Top.entry /\ sp.before = world
    BY <1>1, SpendType
  <2> HIDE DEF sp
  <2>2. (IF s.kind = "static" THEN sp.gas ELSE sp.gas - Budget(s)) \in Nat
    BY <2>1, <1>4 DEF Frame
  <2>3. /\ Waiting(sp, s) \in Frame
        /\ Waiting(sp, s).pc = "call" /\ Waiting(sp, s).site = s
        /\ Waiting(sp, s).entry = sp.entry
        /\ Waiting(sp, s).before = sp.before
    BY <2>1, <2>2 DEF Waiting, Frame
  <2>. QED
    BY <2>1, <2>3 DEF sp
<1>6. new \in Frame /\ new.pc # "call" /\ new.entry = world
  <2>1. (Top.view \/ s.kind = "static") \in BOOLEAN
    OBVIOUS
  <2>2. SelfOf(s) \in Contract
    BY <1>1, <1>3 DEF SelfOf, Frame
  <2>3. new \in Frame
    BY <1>1, <1>3, <1>4, <2>1, <2>2, NewFrameType, Zenon
  <2>. QED
    BY <2>3 DEF NewFrame
<1>7. frame' = [frame EXCEPT ![depth] = old, ![depth + 1] = new]
  BY DEF Enter
<1> HIDE DEF old, new
<1>8. /\ frame'[depth] = old /\ frame'[depth + 1] = new
      /\ \A d \in Depths : d # depth /\ d # depth + 1 => frame'[d] = frame[d]
  BY <1>1, <1>7
<1>9. TypeOK'
  <2>1. frame' \in [Depths -> Frame \cup {NoFrame}]
    BY <1>1, <1>5, <1>6, <1>7
  <2>2. ASSUME NEW d \in 1 .. depth + 1
        PROVE  frame'[d] \in Frame
    BY <1>1, <1>5, <1>6, <1>8 DEF IInv, TypeOK, Depths
  <2>3. ASSUME NEW d \in Depths, d > depth + 1
        PROVE  frame'[d] = NoFrame
    BY <1>1, <1>8, <2>3 DEF IInv, TypeOK, Depths
  <2>. QED
    BY <1>1, <1>2, <2>1, <2>2, <2>3 DEF IInv, TypeOK, Depths
<1>10. UndoChain'
  <2> SUFFICES ASSUME NEW d \in 1 .. depth + 1
               PROVE  IF d = depth + 1 THEN frame'[d].pc # "call"
                      ELSE /\ frame'[d].pc = "call"
                           /\ frame'[d].site \in Site
                           /\ frame'[d + 1].entry = frame'[d].before
    BY <1>1 DEF UndoChain
  <2>1. CASE d = depth + 1
    BY <1>6, <1>8, <2>1
  <2>2. CASE d = depth
    BY <1>1, <1>5, <1>6, <1>8, <2>2
  <2>3. CASE d # depth /\ d # depth + 1
    <3>1. d \in Depths /\ d + 1 \in Depths /\ d \in 1 .. depth /\ d + 1 # depth + 1
      BY <1>1, <2>3 DEF Depths
    <3>2. frame'[d] = frame[d]
      BY <1>8, <2>3, <3>1
    <3>3. frame'[d + 1].entry = frame[d + 1].entry
      BY <1>1, <1>5, <1>8, <3>1 DEF Top
    <3>. QED
      BY <2>3, <3>1, <3>2, <3>3 DEF IInv, UndoChain
  <2>. QED
    BY <2>1, <2>2, <2>3
<1>. QED
  BY <1>9, <1>10 DEF IInv


LEMMA StatusTypes ==
  /\ StatusOk \in Status /\ CrossCallFailed \in Status
  /\ CrossCallOutOfGas \in Status
BY DEF Status

LEMMA TooDeepStep ==
  ASSUME IInv, NEW s \in Site, TooDeep(s)
  PROVE  IInv'
<1>1. 1 \in 1 .. depth
  BY TopType DEF TooDeep, CanAct, IInv
<1>2. frame[1].entry \in World
  BY <1>1 DEF IInv, TypeOK, Frame
<1>. QED
  BY <1>2, EndTxStep, StatusTypes, ConstantTypes DEF TooDeep

LEMMA ReturnStep ==
  ASSUME IInv, NEW n \in Size, Return(n)
  PROVE  IInv'
<1>1. PICK decodes \in Decodings : Leave(StatusOk, Made("ret", n), n, decodes)
  BY DEF Return
<1>2. decodes \in BOOLEAN /\ n \in Nat
  BY BoundAssumption DEF Decodings
<1>3. Made("ret", n) \in Bytes
  BY <1>2, MadeType DEF Source
<1>4. world' \in World /\ depth > 0
  BY DEF Return, IInv, TypeOK
<1>. QED
  BY <1>1, <1>2, <1>3, <1>4, LeaveStep, StatusTypes

LEMMA RevertWithStep ==
  ASSUME IInv, depth > 0, NEW reason \in Bytes, RevertWith(reason)
  PROVE  IInv'
<1>1. reason.len \in Nat
  BY DEF Bytes
<1>2. world' \in World
  BY TopType DEF RevertWith, IInv, Frame
<1>. QED
  BY <1>1, <1>2, LeaveStep, StatusTypes DEF RevertWith

LEMMA RevertStep ==
  ASSUME IInv, NEW n \in Size, Revert(n)
  PROVE  IInv'
<1>1. Made("rev", n) \in Bytes
  BY MadeType, BoundAssumption DEF Source
<1>. QED
  BY <1>1, RevertWithStep DEF Revert

LEMMA WrapperRevertStep ==
  ASSUME IInv, WrapperRevert
  PROVE  IInv'
<1>1. Top.last.data \in Bytes
  BY TopType DEF WrapperRevert, IInv, Frame, Result
<1>. QED
  BY <1>1, RevertWithStep DEF WrapperRevert

LEMMA TrapStep ==
  ASSUME IInv, Trap
  PROVE  IInv'
BY ConstantTypes, RevertWithStep DEF Trap

LEMMA OutLenType ==
  ASSUME IInv, depth > 0, NEW l
  PROVE  (IF depth = 1 THEN 0 ELSE SlotLen(frame[depth - 1].site, l)) \in Nat
<1>1. CASE depth # 1
  <2>1. depth - 1 \in 1 .. depth /\ depth - 1 # depth
    BY <1>1, TopType DEF IInv
  <2>2. frame[depth - 1].site \in Site
    BY <2>1 DEF IInv, UndoChain
  <2>. QED
    BY <1>1, <2>2, SlotLenType
<1>. QED
  BY <1>1

LEMMA OutOfGasStep ==
  ASSUME IInv, OutOfGas
  PROVE  IInv'
<1>1. world' \in World /\ depth > 0
  BY TopType DEF OutOfGas, IInv, Frame
<1>2. PICK l \in RefusalLen :
        Leave(CrossCallOutOfGas, NoBytes,
              IF depth = 1 THEN 0 ELSE SlotLen(frame[depth - 1].site, l), FALSE)
  BY DEF OutOfGas
<1>3. (IF depth = 1 THEN 0 ELSE SlotLen(frame[depth - 1].site, l)) \in Nat
  BY <1>1, OutLenType
<1>. QED
  BY <1>1, <1>2, <1>3, LeaveStep, StatusTypes, ConstantTypes

LEMMA InitStep == Init => IInv
<1> SUFFICES ASSUME Init PROVE IInv
  OBVIOUS
<1>1. world \in World
  BY ContractAssumption DEF Init, World
<1>2. receipt \in Receipt
  BY ConstantTypes DEF Init, Receipt
<1>3. TypeOK
  BY <1>1, <1>2, ConstantTypes DEF Init, TypeOK, Depths
<1>4. UndoChain
  BY DEF Init, UndoChain
<1>. QED
  BY <1>3, <1>4 DEF IInv

LEMMA NextStep == IInv /\ [Next]_vars => IInv'
<1> SUFFICES ASSUME IInv, [Next]_vars PROVE IInv'
  OBVIOUS
<1>1. CASE UNCHANGED vars
  BY <1>1 DEF vars, IInv, TypeOK, UndoChain
<1>2. ASSUME NEW c \in Contract, NEW f \in Fn, Begin(c, f) PROVE IInv'
  BY <1>2, BeginStep
<1>3. ASSUME NEW v \in Val, SStore(v) PROVE IInv'
  BY <1>3, SStoreStep
<1>4. ASSUME NEW s \in Site, Refuse(s) \/ Enter(s) \/ TooDeep(s) PROVE IInv'
  BY <1>4, RefuseStep, EnterStep, TooDeepStep
<1>5. ASSUME NEW n \in Size, Return(n) \/ Revert(n) PROVE IInv'
  BY <1>5, ReturnStep, RevertStep
<1>6. CASE WrapperRevert \/ Trap \/ OutOfGas
  BY <1>6, WrapperRevertStep, TrapStep, OutOfGasStep
<1>. QED
  BY <1>1, <1>2, <1>3, <1>4, <1>5, <1>6 DEF Next, Work

LEMMA InductiveInvariant == Spec => []IInv
BY InitStep, NextStep, PTL DEF Spec

(* Every frame, result and receipt of every execution has its declared     *)
(* type: whatever the host leaves in the out-buffer and the length slot, no*)
(* wrapper of lib.rs, call.go or call.ts gets stuck on it, fuel never runs *)
(* below zero and no balance is overdrawn.                                 *)
THEOREM TypeCorrect == Spec => []TypeOK
<1>1. IInv => TypeOK
  BY DEF IInv
<1>. QED
  BY <1>1, InductiveInvariant, PTL

(* At every moment each waiting caller's callee holds, as its undo point,  *)
(* the very world the caller called from.                                  *)
THEOREM UndoPoints == Spec => []UndoChain
<1>1. IInv => UndoChain
  BY DEF IInv
<1>. QED
  BY <1>1, InductiveInvariant, PTL

-----------------------------------------------------------------------------
(* What each kind of step does to the stack *)

\* The caller's frame after the callee in the top frame has left.
Resumed(caller, io, new) ==
  /\ new \in Frame
  /\ new.view = caller.view /\ new.entry = caller.entry
  /\ new.before = Top.entry
  /\ new.last = Wrap(SdkOf[caller.code], caller.site.style, io)
  /\ new.io = io
  /\ new.pc = "halt" => new.last.tag = "Halt"

LEMMA LeaveEffect ==
  ASSUME IInv, depth > 0, depth # 1,
         NEW status \in Status, NEW sent \in Bytes, NEW outLen \in Nat,
         NEW decodes \in BOOLEAN,
         Leave(status, sent, outLen, decodes)
  PROVE  /\ depth' = depth - 1 /\ depth - 1 \in 1 .. depth
         /\ frame[depth - 1] \in Frame /\ frame[depth - 1].site \in Site
         /\ CallIo(frame[depth - 1].site, status, outLen, sent, decodes) \in Io
         /\ Resumed(frame[depth - 1],
                    CallIo(frame[depth - 1].site, status, outLen, sent, decodes),
                    frame'[depth - 1])
         /\ \A d \in 1 .. depth - 2 : frame'[d] = frame[d]
         /\ receipt' = receipt
<1> DEFINE caller == frame[depth - 1]
           paid   == [caller EXCEPT !.gas = caller.gas + Refund]
           io     == CallIo(caller.site, status, outLen, sent, decodes)
           new    == Deliver(paid, caller.site, io)
<1>1. /\ depth \in Depths /\ depth \in Nat /\ MaxDepth \in Nat
      /\ depth - 1 \in Depths /\ depth - 1 \in 1 .. depth /\ depth - 1 # depth
      /\ frame \in [Depths -> Frame \cup {NoFrame}]
  BY TopType, ConstantTypes DEF IInv, TypeOK, Depths
<1>2. /\ caller \in Frame /\ caller.site \in Site
      /\ Top.entry = caller.before
  BY <1>1 DEF IInv, TypeOK, UndoChain, Top
<1>3. Refund \in Nat
  BY TopType DEF IInv, Refund, Frame
<1>4. /\ paid \in Frame /\ paid.view = caller.view /\ paid.entry = caller.entry
      /\ paid.before = caller.before /\ paid.code = caller.code
  BY <1>2, <1>3 DEF Frame
<1>5. io \in Io
  BY <1>2, CallIoType
<1> HIDE DEF paid, io
<1>6. Resumed(caller, io, new)
  BY <1>2, <1>4, <1>5, DeliverType DEF Resumed
<1>7. /\ depth' = depth - 1 /\ receipt' = receipt
      /\ frame' = [frame EXCEPT ![depth] = NoFrame, ![depth - 1] = new]
  BY DEF Leave, paid, io
<1> HIDE DEF caller, new
<1>8. frame'[depth - 1] = new
  BY <1>1, <1>7
<1>9. ASSUME NEW d \in 1 .. depth - 2
      PROVE  frame'[d] = frame[d]
  <2>1. d \in Depths /\ d # depth /\ d # depth - 1
    BY <1>1 DEF Depths
  <2>. QED
    BY <1>1, <1>7, <2>1
<1>. QED
  BY <1>1, <1>2, <1>5, <1>6, <1>7, <1>8, <1>9 DEF caller, io

LEMMA RefuseEffect ==
  ASSUME IInv, NEW s \in Site, Refuse(s)
  PROVE  /\ depth > 0 /\ depth' = depth /\ world' = world
         /\ receipt' = receipt
         /\ \E c \in Refusals(s), l \in RefusalLen :
              LET io == CallIo(s, c, SlotLen(s, l), NoBytes, FALSE)
              IN  /\ io \in Io
                  /\ frame'[depth].last = Wrap(SdkOf[Top.code], s.style, io)
                  /\ frame'[depth].io = io
         /\ frame'[depth].pc = "halt" => frame'[depth].last.tag = "Halt"
         /\ frame'[depth].before = world
         /\ frame'[depth].view = Top.view /\ frame'[depth].entry = Top.entry
         /\ \A d \in 1 .. depth - 1 : frame'[d] = frame[d]
<1>1. /\ depth > 0 /\ Top.gas > 0 /\ Top \in Frame /\ world \in World
      /\ depth \in Depths /\ depth \in Nat /\ MaxDepth \in Nat
      /\ frame \in [Depths -> Frame \cup {NoFrame}]
  BY TopType, ConstantTypes DEF Refuse, CanAct, IInv, TypeOK
<1>2. PICK c \in Refusals(s), l \in RefusalLen :
        frame' = [frame EXCEPT ![depth] =
                    Deliver(Spend(Top), s,
                            CallIo(s, c, SlotLen(s, l), NoBytes, FALSE))]
  BY DEF Refuse
<1> DEFINE io  == CallIo(s, c, SlotLen(s, l), NoBytes, FALSE)
           sp  == Spend(Top)
           new == Deliver(sp, s, io)
<1>3. io \in Io
  BY CallIoType, SlotLenType, ConstantTypes DEF Refusals
<1>4. /\ sp \in Frame /\ sp.entry = Top.entry /\ sp.before = world
      /\ sp.view = Top.view /\ sp.code = Top.code
  BY <1>1, SpendType
<1> HIDE DEF io, sp
<1>5. /\ new.entry = Top.entry /\ new.before = world /\ new.view = Top.view
      /\ new.last = Wrap(SdkOf[Top.code], s.style, io) /\ new.io = io
      /\ new.pc = "halt" => new.last.tag = "Halt"
  BY <1>3, <1>4, DeliverType
<1>6. frame' = [frame EXCEPT ![depth] = new]
  BY <1>2 DEF io, sp
<1> HIDE DEF new
<1>7. frame'[depth] = new
  BY <1>1, <1>6
<1>8. ASSUME NEW d \in 1 .. depth - 1
      PROVE  frame'[d] = frame[d]
  <2>1. d \in Depths /\ d # depth
    BY <1>1 DEF Depths
  <2>. QED
    BY <1>1, <1>6, <2>1
<1>9. depth' = depth /\ world' = world /\ receipt' = receipt
  BY DEF Refuse
<1>. QED
  BY <1>1, <1>3, <1>5, <1>7, <1>8, <1>9 DEF io

LEMMA SStoreEffect ==
  ASSUME IInv, NEW v \in Val, SStore(v)
  PROVE  /\ depth > 0 /\ depth' = depth /\ ~ Top.view
         /\ frame'[depth].last = NoResult /\ frame'[depth].pc = "run"
         /\ frame'[depth].view = Top.view /\ frame'[depth].entry = Top.entry
         /\ \A d \in 1 .. depth - 1 : frame'[d] = frame[d]
<1>1. /\ depth > 0 /\ Top.gas > 0 /\ Top \in Frame /\ world \in World
      /\ depth \in Depths /\ depth \in Nat /\ MaxDepth \in Nat
      /\ frame \in [Depths -> Frame \cup {NoFrame}]
  BY TopType, ConstantTypes DEF SStore, CanAct, IInv, TypeOK
<1> DEFINE sp == Spend(Top)
<1>2. /\ sp.last = NoResult /\ sp.view = Top.view /\ sp.entry = Top.entry
      /\ sp.pc = "run"
  BY <1>1, SpendType DEF SStore, CanAct
<1>3. frame' = [frame EXCEPT ![depth] = sp] /\ depth' = depth /\ ~ Top.view
  BY DEF SStore
<1> HIDE DEF sp
<1>4. ASSUME NEW d \in 1 .. depth - 1
      PROVE  frame'[d] = frame[d]
  <2>1. d \in Depths /\ d # depth
    BY <1>1 DEF Depths
  <2>. QED
    BY <1>1, <1>3, <2>1
<1>. QED
  BY <1>1, <1>2, <1>3, <1>4

\* A call carries no value out of a view frame, nor into one.
LEMMA ViewMovesNothing ==
  ASSUME IInv, depth > 0, NEW s \in Site, Refusals(s) = {},
         Top.view \/ s.kind = "static"
  PROVE  Transfer(s) = world
<1>1. /\ world \in World /\ Top \in Frame /\ s.value \in Nat
  BY TopType, SiteAssumption DEF IInv, SiteType
<1>2. s.value = 0
  <2>1. CASE s.kind = "static"
    BY <2>1, SiteAssumption
  <2>2. CASE Top.view
    <3>1. Forbidden \in Status
      BY DEF Status
    <3>2. ~ MovesValue(s)
      BY <2>2, <3>1 DEF Refusals
    <3>. QED
      BY <1>1, <3>2 DEF MovesValue
  <2>. QED
    BY <2>1, <2>2
<1> DEFINE bal == [c \in Contract |->
              world.bal[c] + (IF c = s.target THEN s.value ELSE 0)
                           - (IF c = Top.self THEN s.value ELSE 0)]
<1>3. world.bal \in [Contract -> Nat]
  BY <1>1 DEF World
<1>4. \A c \in Contract : bal[c] = world.bal[c]
  BY <1>2, <1>3
<1>5. bal = world.bal
  BY <1>3, <1>4
<1> HIDE DEF bal
<1>6. [world EXCEPT !.bal = bal] = world
  BY <1>1, <1>5 DEF World
<1>. QED
  BY <1>6 DEF Transfer, bal

LEMMA EnterEffect ==
  ASSUME IInv, NEW s \in Site, Enter(s)
  PROVE  /\ depth > 0 /\ depth \in Nat /\ depth' = depth + 1
         /\ world' = Transfer(s) /\ Refusals(s) = {}
         /\ frame'[depth + 1].last = NoResult /\ frame'[depth + 1].pc = "run"
         /\ frame'[depth + 1].entry = world
         /\ frame'[depth + 1].view = (Top.view \/ s.kind = "static")
         /\ frame'[depth].view = Top.view /\ frame'[depth].entry = Top.entry
         /\ frame'[depth].before = world /\ frame'[depth].last = NoResult
         /\ \A d \in 1 .. depth - 1 : frame'[d] = frame[d]
<1>1. /\ depth > 0 /\ Top.gas > 0 /\ Top \in Frame /\ world \in World
      /\ depth < MaxDepth
      /\ depth \in Depths /\ depth \in Nat /\ MaxDepth \in Nat
      /\ depth + 1 \in Depths /\ depth + 1 # depth
      /\ frame \in [Depths -> Frame \cup {NoFrame}]
  BY TopType, ConstantTypes DEF Enter, CanAct, IInv, TypeOK, Depths
<1> DEFINE sp  == Spend(Top)
           old == Waiting(sp, s)
           new == NewFrame(s.target, SelfOf(s), s.fn,
                           Top.view \/ s.kind = "static", Budget(s))
<1>2. /\ sp \in Frame /\ sp.view = Top.view /\ sp.entry = Top.entry
      /\ sp.before = world /\ sp.last = NoResult
  BY <1>1, SpendType
<1> HIDE DEF sp
<1>3. /\ old.view = Top.view /\ old.entry = Top.entry
      /\ old.before = world /\ old.last = NoResult
  BY <1>2 DEF Waiting, Frame
<1>4. /\ new.last = NoResult /\ new.entry = world /\ new.pc = "run"
      /\ new.view = (Top.view \/ s.kind = "static")
  BY DEF NewFrame
<1>5. /\ frame' = [frame EXCEPT ![depth] = old, ![depth + 1] = new]
      /\ depth' = depth + 1 /\ world' = Transfer(s) /\ Refusals(s) = {}
  BY DEF Enter, sp
<1> HIDE DEF old, new
<1>6. frame'[depth] = old /\ frame'[depth + 1] = new
  BY <1>1, <1>5
<1>7. ASSUME NEW d \in 1 .. depth - 1
      PROVE  frame'[d] = frame[d]
  <2>1. d \in Depths /\ d # depth /\ d # depth + 1
    BY <1>1 DEF Depths
  <2>. QED
    BY <1>1, <1>5, <2>1
<1>. QED
  BY <1>1, <1>3, <1>4, <1>5, <1>6, <1>7


-----------------------------------------------------------------------------
(* A failure reported is a failure undone *)

\* No wrapper reports a callee that returned as failed.
LEMMA SuccessReported ==
  ASSUME NEW sdk, NEW style, NEW io \in Io, io.status = StatusOk
  PROVE  ~ ReportsFailure(Wrap(sdk, style, io))
<1>1. Made("oversize", 1).src = "oversize"
  BY DEF Made
<1>2. /\ RustRaw(io).tag \in {"Ok", "ReturnDataTooLarge"}
      /\ RustTyped(io).tag \in {"Ok", "ReturnDataTooLarge", "DecodeError"}
  BY DEF RustRaw, RustTyped, Ok, Err
<1>3. /\ GoExec(io) = Ok(Read(io, io.outLen)) \/ GoExec(io) = Halt(Made("oversize", 1))
      /\ AsExec(io) = Ok(Read(io, io.outLen)) \/ AsExec(io) = Halt(Made("oversize", 1))
  BY DEF GoExec, AsExec
<1>4. ASSUME NEW data
      PROVE  ~ ReportsFailure(Ok(data))
  BY DEF ReportsFailure, Ok, ErrTag
<1>5. ~ ReportsFailure(Halt(Made("oversize", 1)))
  BY <1>1 DEF ReportsFailure, Halt, ErrTag
<1>6. ~ ReportsFailure(RustRaw(io)) /\ ~ ReportsFailure(RustTyped(io))
  BY <1>2 DEF ReportsFailure, ErrTag
<1>7. ~ ReportsFailure(GoExec(io)) /\ ~ ReportsFailure(AsExec(io))
  BY <1>3, <1>4, <1>5
<1>8. /\ GoExecOrRevert(io) = GoExec(io)
      /\ AsExecOrRevert(io) = AsExec(io)
  BY <1>3 DEF GoExecOrRevert, AsExecOrRevert, Forwarded, Ok, Halt
<1>. QED
  BY <1>6, <1>7, <1>8 DEF Wrap

LEMMA NoResultReported == ~ ReportsFailure(NoResult)
BY DEF ReportsFailure, NoResult, ErrTag

LEMMA LeaveUndone ==
  ASSUME IInv, depth > 0,
         NEW status \in Status, NEW sent \in Bytes, NEW outLen \in Nat,
         NEW decodes \in BOOLEAN,
         Leave(status, sent, outLen, decodes),
         status = StatusOk \/ world' = Top.entry
  PROVE  FailureUndone'
<1>1. CASE depth = 1
  BY <1>1 DEF Leave, EndTx, FailureUndone
<1>2. CASE depth # 1
  <2> DEFINE caller == frame[depth - 1]
             io     == CallIo(caller.site, status, outLen, sent, decodes)
             new    == frame'[depth - 1]
  <2>1. depth' = depth - 1 /\ Resumed(caller, io, new) /\ io \in Io
    BY <1>2, LeaveEffect
  <2>2. io.status = status
    BY DEF CallIo
  <2>3. ReportsFailure(new.last) => status # StatusOk
    <3> HIDE DEF io, new
    <3>1. new.last = Wrap(SdkOf[caller.code], caller.site.style, io)
      BY <2>1 DEF Resumed
    <3>. QED
      BY <2>1, <2>2, <3>1, SuccessReported
  <2>4. new.before = Top.entry
    BY <2>1 DEF Resumed
  <2>. QED
    BY <2>1, <2>3, <2>4 DEF FailureUndone, Top
<1>. QED
  BY <1>1, <1>2

LEMMA UndoneStep == IInv /\ FailureUndone /\ [Next]_vars => FailureUndone'
<1> SUFFICES ASSUME IInv, FailureUndone, [Next]_vars
             PROVE  FailureUndone'
  OBVIOUS
<1>1. CASE UNCHANGED vars
  BY <1>1 DEF vars, FailureUndone, Top
<1>2. ASSUME NEW c \in Contract, NEW f \in Fn, Begin(c, f)
      PROVE  FailureUndone'
  <2>1. frame \in [Depths -> Frame \cup {NoFrame}] /\ 1 \in Depths
    BY ConstantTypes DEF IInv, TypeOK
  <2>2. depth' = 1 /\ frame'[1].last = NoResult
    BY <1>2, <2>1 DEF Begin, NewFrame
  <2>. QED
    BY <2>2, NoResultReported DEF FailureUndone, Top
<1>3. ASSUME NEW v \in Val, SStore(v)
      PROVE  FailureUndone'
  BY <1>3, SStoreEffect, NoResultReported DEF FailureUndone, Top
<1>4. ASSUME NEW s \in Site, Refuse(s)
      PROVE  FailureUndone'
  BY <1>4, RefuseEffect DEF FailureUndone, Top
<1>5. ASSUME NEW s \in Site, Enter(s)
      PROVE  FailureUndone'
  BY <1>5, EnterEffect, NoResultReported DEF FailureUndone, Top
<1>6. ASSUME NEW s \in Site, TooDeep(s)
      PROVE  FailureUndone'
  BY <1>6 DEF TooDeep, EndTx, FailureUndone
<1>7. ASSUME NEW n \in Size, Return(n)
      PROVE  FailureUndone'
  <2>1. PICK decodes \in Decodings : Leave(StatusOk, Made("ret", n), n, decodes)
    BY <1>7 DEF Return
  <2>2. /\ decodes \in BOOLEAN /\ n \in Nat /\ depth > 0
        /\ Made("ret", n) \in Bytes
    BY <1>7, BoundAssumption, MadeType DEF Decodings, Source, Return
  <2>. QED
    BY <2>1, <2>2, LeaveUndone, StatusTypes
<1>8. ASSUME NEW reason \in Bytes, RevertWith(reason), depth > 0
      PROVE  FailureUndone'
  <2>1. reason.len \in Nat
    BY DEF Bytes
  <2>. QED
    BY <1>8, <2>1, LeaveUndone, StatusTypes DEF RevertWith
<1>9. ASSUME NEW n \in Size, Revert(n)
      PROVE  FailureUndone'
  <2>1. Made("rev", n) \in Bytes
    BY MadeType, BoundAssumption DEF Source
  <2>. QED
    BY <1>8, <1>9, <2>1 DEF Revert
<1>10. CASE WrapperRevert
  <2>1. Top.last.data \in Bytes
    BY <1>10, TopType DEF WrapperRevert, IInv, Frame, Result
  <2>. QED
    BY <1>8, <1>10, <2>1 DEF WrapperRevert
<1>11. CASE Trap
  BY <1>8, <1>11, ConstantTypes DEF Trap
<1>12. CASE OutOfGas
  <2>1. PICK l \in RefusalLen :
          Leave(CrossCallOutOfGas, NoBytes,
                IF depth = 1 THEN 0 ELSE SlotLen(frame[depth - 1].site, l), FALSE)
    BY <1>12 DEF OutOfGas
  <2>2. (IF depth = 1 THEN 0 ELSE SlotLen(frame[depth - 1].site, l)) \in Nat
    BY <1>12, OutLenType DEF OutOfGas
  <2>. QED
    BY <1>12, <2>1, <2>2, LeaveUndone, StatusTypes, ConstantTypes DEF OutOfGas
<1>. QED
  BY <1>1, <1>2, <1>3, <1>4, <1>5, <1>6, <1>7, <1>9, <1>10, <1>11, <1>12
     DEF Next, Work

(* A call an SDK reports as failed left no trace in the world, however many*)
(* contracts the callee had called and whatever they stored or were paid.  *)
THEOREM FailuresUndone == Spec => []FailureUndone
<1>1. Init => FailureUndone
  BY DEF Init, FailureUndone
<1>2. IInv /\ FailureUndone /\ [Next]_vars => FailureUndone'
  BY UndoneStep
<1>. QED
  BY <1>1, <1>2, InductiveInvariant, PTL DEF Spec


-----------------------------------------------------------------------------
(* Nothing changes under a view *)

\* The strengthening ViewFrozen needs: the frames above a view are views.
ViewInv ==
  \A d \in 1 .. depth :
    frame[d].view => /\ world = frame[d].entry
                     /\ \A e \in d .. depth : frame[e].view

LEMMA LeaveView ==
  ASSUME IInv, ViewInv, depth > 0,
         NEW status \in Status, NEW sent \in Bytes, NEW outLen \in Nat,
         NEW decodes \in BOOLEAN,
         Leave(status, sent, outLen, decodes),
         world' = world \/ world' = Top.entry
  PROVE  ViewInv'
<1>1. CASE depth = 1
  BY <1>1 DEF Leave, EndTx, ViewInv
<1>2. CASE depth # 1
  <2>1. /\ depth' = depth - 1 /\ depth \in Nat
        /\ frame'[depth - 1].view = frame[depth - 1].view
        /\ frame'[depth - 1].entry = frame[depth - 1].entry
        /\ \A d \in 1 .. depth - 2 : frame'[d] = frame[d]
    BY <1>2, LeaveEffect, TopType DEF Resumed, IInv
  <2> SUFFICES ASSUME NEW d \in 1 .. depth - 1, frame'[d].view
               PROVE  /\ world' = frame'[d].entry
                      /\ \A e \in d .. depth - 1 : frame'[e].view
    BY <2>1 DEF ViewInv
  <2>2. \A e \in 1 .. depth - 1 : /\ frame'[e].view = frame[e].view
                                 /\ frame'[e].entry = frame[e].entry
    BY <2>1
  <2>3. /\ world = frame[d].entry
        /\ \A e \in d .. depth : frame[e].view
    BY <2>1, <2>2 DEF ViewInv
  <2>4. world = Top.entry
    BY <2>1, <2>3 DEF ViewInv, Top
  <2>5. ASSUME NEW e \in d .. depth - 1
        PROVE  frame'[e].view
    BY <2>1, <2>2, <2>3
  <2>. QED
    BY <2>2, <2>3, <2>4, <2>5
<1>. QED
  BY <1>1, <1>2

LEMMA ViewStep == IInv /\ ViewInv /\ [Next]_vars => ViewInv'
<1> SUFFICES ASSUME IInv, ViewInv, [Next]_vars
             PROVE  ViewInv'
  OBVIOUS
<1>1. CASE UNCHANGED vars
  BY <1>1 DEF vars, ViewInv
<1>2. ASSUME NEW c \in Contract, NEW f \in Fn, Begin(c, f)
      PROVE  ViewInv'
  <2>1. frame \in [Depths -> Frame \cup {NoFrame}] /\ 1 \in Depths
    BY ConstantTypes DEF IInv, TypeOK
  <2>2. depth' = 1 /\ frame'[1].entry = world /\ world' = world
    BY <1>2, <2>1 DEF Begin, NewFrame
  <2>. QED
    BY <2>2 DEF ViewInv
<1>3. ASSUME NEW v \in Val, SStore(v)
      PROVE  ViewInv'
  <2>1. /\ depth > 0 /\ depth \in Nat /\ depth' = depth /\ ~ Top.view
        /\ frame'[depth].view = Top.view
        /\ \A d \in 1 .. depth - 1 : frame'[d] = frame[d]
    BY <1>3, SStoreEffect, TopType DEF IInv
  <2>2. \A d \in 1 .. depth : ~ frame[d].view
    BY <2>1 DEF ViewInv, Top
  <2>3. \A d \in 1 .. depth : ~ frame'[d].view
    BY <2>1, <2>2
  <2>. QED
    BY <2>1, <2>3 DEF ViewInv
<1>4. ASSUME NEW s \in Site, Refuse(s)
      PROVE  ViewInv'
  <2>1. /\ depth > 0 /\ depth \in Nat /\ depth' = depth /\ world' = world
        /\ frame'[depth].view = Top.view /\ frame'[depth].entry = Top.entry
        /\ \A d \in 1 .. depth - 1 : frame'[d] = frame[d]
    BY <1>4, RefuseEffect, TopType DEF IInv
  <2>2. \A d \in 1 .. depth : /\ frame'[d].view = frame[d].view
                             /\ frame'[d].entry = frame[d].entry
    BY <2>1 DEF Top
  <2>. QED
    BY <2>1, <2>2 DEF ViewInv
<1>5. ASSUME NEW s \in Site, Enter(s)
      PROVE  ViewInv'
  <2>1. /\ depth > 0 /\ depth \in Nat /\ depth' = depth + 1
        /\ world' = Transfer(s) /\ Refusals(s) = {}
        /\ frame'[depth + 1].entry = world
        /\ frame'[depth + 1].view <=> (Top.view \/ s.kind = "static")
        /\ frame'[depth].view = Top.view /\ frame'[depth].entry = Top.entry
        /\ \A d \in 1 .. depth - 1 : frame'[d] = frame[d]
    BY <1>5, EnterEffect
  <2>2. \A d \in 1 .. depth : /\ frame'[d].view = frame[d].view
                             /\ frame'[d].entry = frame[d].entry
    BY <2>1 DEF Top
  <2>3. frame'[depth + 1].view => world' = world
    BY <2>1, ViewMovesNothing
  <2> SUFFICES ASSUME NEW d \in 1 .. depth + 1, frame'[d].view
               PROVE  /\ world' = frame'[d].entry
                      /\ \A e \in d .. depth + 1 : frame'[e].view
    BY <2>1 DEF ViewInv
  <2>4. CASE d = depth + 1
    BY <2>1, <2>3, <2>4
  <2>5. CASE d # depth + 1
    <3>1. d \in 1 .. depth /\ frame[d].view
      BY <2>1, <2>2, <2>5
    <3>2. world = frame[d].entry /\ \A e \in d .. depth : frame[e].view
      BY <3>1 DEF ViewInv
    <3>3. Top.view
      BY <2>1, <3>1, <3>2 DEF Top
    <3>4. frame'[depth + 1].view /\ world' = world
      BY <2>1, <2>3, <3>3
    <3>5. ASSUME NEW e \in d .. depth + 1
          PROVE  frame'[e].view
      BY <2>1, <2>2, <3>1, <3>2, <3>4
    <3>. QED
      BY <2>2, <3>1, <3>2, <3>4, <3>5
  <2>. QED
    BY <2>4, <2>5
<1>6. ASSUME NEW s \in Site, TooDeep(s)
      PROVE  ViewInv'
  BY <1>6 DEF TooDeep, EndTx, ViewInv
<1>7. ASSUME NEW n \in Size, Return(n)
      PROVE  ViewInv'
  <2>1. PICK decodes \in Decodings : Leave(StatusOk, Made("ret", n), n, decodes)
    BY <1>7 DEF Return
  <2>2. /\ decodes \in BOOLEAN /\ n \in Nat /\ depth > 0 /\ world' = world
        /\ Made("ret", n) \in Bytes
    BY <1>7, BoundAssumption, MadeType DEF Decodings, Source, Return
  <2>. QED
    BY <2>1, <2>2, LeaveView, StatusTypes
<1>8. ASSUME NEW reason \in Bytes, RevertWith(reason), depth > 0
      PROVE  ViewInv'
  <2>1. reason.len \in Nat
    BY DEF Bytes
  <2>. QED
    BY <1>8, <2>1, LeaveView, StatusTypes DEF RevertWith
<1>9. ASSUME NEW n \in Size, Revert(n)
      PROVE  ViewInv'
  <2>1. Made("rev", n) \in Bytes
    BY MadeType, BoundAssumption DEF Source
  <2>. QED
    BY <1>8, <1>9, <2>1 DEF Revert
<1>10. CASE WrapperRevert
  <2>1. Top.last.data \in Bytes
    BY <1>10, TopType DEF WrapperRevert, IInv, Frame, Result
  <2>. QED
    BY <1>8, <1>10, <2>1 DEF WrapperRevert
<1>11. CASE Trap
  BY <1>8, <1>11, ConstantTypes DEF Trap
<1>12. CASE OutOfGas
  <2>1. PICK l \in RefusalLen :
          Leave(CrossCallOutOfGas, NoBytes,
                IF depth = 1 THEN 0 ELSE SlotLen(frame[depth - 1].site, l), FALSE)
    BY <1>12 DEF OutOfGas
  <2>2. (IF depth = 1 THEN 0 ELSE SlotLen(frame[depth - 1].site, l)) \in Nat
    BY <1>12, OutLenType DEF OutOfGas
  <2>. QED
    BY <1>12, <2>1, <2>2, LeaveView, StatusTypes, ConstantTypes DEF OutOfGas
<1>. QED
  BY <1>1, <1>2, <1>3, <1>4, <1>5, <1>6, <1>7, <1>9, <1>10, <1>11, <1>12
     DEF Next, Work

(* While a view function or a static call is on the stack nothing it, or   *)
(* anything it calls or delegates to, does changes the world.              *)
THEOREM ViewsFrozen == Spec => []ViewFrozen
<1>1. Init => ViewInv
  BY DEF Init, ViewInv
<1>2. IInv /\ ViewInv /\ [Next]_vars => ViewInv'
  BY ViewStep
<1>3. ViewInv => ViewFrozen
  BY DEF ViewInv, ViewFrozen
<1>. QED
  BY <1>1, <1>2, <1>3, InductiveInvariant, PTL DEF Spec

-----------------------------------------------------------------------------
(* What the wrappers tell their callers *)

Exact(r, io) == r.tag = "Ok" => io.status = StatusOk /\ r.data = io.sent

Payload(r, io) ==
  r.tag \in {"Reverted", "Status", "Halt"} =>
    \/ PrefixOf(r.data, io.sent)
    \/ r.tag = "Halt" /\ r.data.src \in OwnText

\* The length slot holds the length of what was sent, where it matters.
HonestOk(io) ==
  io.status = StatusOk => /\ io.outLen = io.sent.len
                          /\ io.sent = Made(io.sent.src, io.sent.len)
Honest(io) == io.outLen = io.sent.len

\* The SDK does not look at the length slot where it holds something else.
SoundFor(sdk, io) == Honest(io) \/ (sdk = "as" /\ io.status # CrossCallFailed)

(* Where no SDK reports, or none forwards, bytes that nobody sent: on a    *)
(* host that always writes the length slot; or without Go, if the one      *)
(* status exec reads a payload under is never a refusal's.                 *)
AsDeployed == \A s \in Site : SdkOf[s.code] = "as" => s.target \in Deployed
PadNeverReported ==
  \/ RefusalLen = {"zero"}
  \/ AsDeployed /\ \A c \in Contract : SdkOf[c] = "as"
PadNeverForwarded ==
  \/ RefusalLen = {"zero"}
  \/ AsDeployed /\ \A c \in Contract : SdkOf[c] # "go"

Told == SuccessIsExact /\ (PadNeverReported => PayloadIsCallees)

-----------------------------------------------------------------------------
(* The wrappers *)

LEMMA LeastBounds ==
  ASSUME NEW m \in Nat, NEW n \in Nat
  PROVE  Least(m, n) \in Nat /\ Least(m, n) <= m /\ Least(m, n) <= n
<1>1. CASE m <= n
  BY <1>1 DEF Least
<1>2. CASE n < m
  BY <1>2 DEF Least
<1>. QED
  BY <1>1, <1>2

LEMMA ReadAll ==
  ASSUME NEW io \in Io, HonestOk(io), io.status = StatusOk, io.outLen <= io.cap
  PROVE  Read(io, io.outLen) = io.sent
<1>1. io.outLen \in Nat /\ io.cap \in Nat /\ io.outLen = io.sent.len
  BY DEF Io, HonestOk
<1>2. io.outLen <= Least(io.sent.len, io.cap)
  BY <1>1 DEF Least
<1>. QED
  BY <1>1, <1>2 DEF Read, HonestOk

LEMMA ReadPrefix ==
  ASSUME NEW io \in Io, NEW k \in Nat, k <= io.sent.len, k <= io.cap
  PROVE  PrefixOf(Read(io, k), io.sent)
<1>1. io.cap \in Nat /\ io.sent.len \in Nat
  BY DEF Io, Bytes
<1>2. k <= Least(io.sent.len, io.cap)
  BY <1>1 DEF Least
<1>3. Read(io, k) = Made(io.sent.src, k)
  BY <1>2 DEF Read
<1>4. Made(io.sent.src, k).len = k
  BY DEF Made, NoBytes
<1>. QED
  BY <1>3, <1>4 DEF PrefixOf

LEMMA NothingIsPrefix ==
  ASSUME NEW sent \in Bytes
  PROVE  PrefixOf(NoBytes, sent)
BY DEF PrefixOf, NoBytes, Made, Bytes

LEMMA WrapExact ==
  ASSUME NEW sdk, NEW style, NEW io \in Io, HonestOk(io)
  PROVE  Exact(Wrap(sdk, style, io), io)
<1>1. io.status = StatusOk /\ io.outLen <= io.cap => Read(io, io.outLen) = io.sent
  BY ReadAll
<1>2. io.outLen \in Nat /\ io.cap \in Nat
  BY DEF Io
<1>3. Exact(RustRaw(io), io)
  BY <1>1, <1>2 DEF Exact, RustRaw, Ok, Err, ErrFromStatus
<1>4. Exact(RustTyped(io), io)
  BY <1>3 DEF Exact, RustTyped, Err
<1>5. Exact(GoExec(io), io)
  BY <1>1, <1>2 DEF Exact, GoExec, Ok, Halt, Failed
<1>6. Exact(AsExec(io), io)
  BY <1>1, <1>2 DEF Exact, AsExec, Ok, Halt, Failed
<1>7. Exact(GoExecOrRevert(io), io) /\ Exact(AsExecOrRevert(io), io)
  BY <1>5, <1>6 DEF Exact, GoExecOrRevert, AsExecOrRevert, Forwarded, Halt
<1>. QED
  BY <1>3, <1>4, <1>5, <1>6, <1>7 DEF Wrap

LEMMA HonestWrap ==
  ASSUME NEW sdk, NEW style, NEW io \in Io, Honest(io)
  PROVE  Payload(Wrap(sdk, style, io), io)
<1> DEFINE cut  == Read(io, Least(io.outLen, io.cap))
           over == Made("oversize", 1)
<1>1. PrefixOf(cut, io.sent)
  <2>1. io.outLen \in Nat /\ io.cap \in Nat /\ io.outLen = io.sent.len
    BY DEF Io, Honest
  <2>2. /\ Least(io.outLen, io.cap) \in Nat
        /\ Least(io.outLen, io.cap) <= io.sent.len
        /\ Least(io.outLen, io.cap) <= io.cap
    BY <2>1, LeastBounds
  <2>. QED
    BY <2>2, ReadPrefix
<1>2. PrefixOf(NoBytes, io.sent)
  BY NothingIsPrefix DEF Io
<1>3. /\ over.src \in OwnText
      /\ Made("generic", 1).src \in OwnText /\ Made("named", 1).src \in OwnText
  BY DEF Made, OwnText
<1> HIDE DEF cut, over
<1>4. Payload(RustRaw(io), io)
  BY <1>1, <1>2 DEF Payload, RustRaw, Ok, Err, cut
<1>5. Payload(RustTyped(io), io)
  BY <1>4 DEF Payload, RustTyped, Err
<1>6. Payload(GoExec(io), io)
  BY <1>1, <1>2, <1>3 DEF Payload, GoExec, Ok, Halt, Failed, cut, over
<1>7. Payload(AsExec(io), io)
  BY <1>1, <1>2, <1>3 DEF Payload, AsExec, Ok, Halt, Failed, cut, over
<1>8. Payload(GoExecOrRevert(io), io) /\ Payload(AsExecOrRevert(io), io)
  BY <1>3, <1>6, <1>7 DEF Payload, GoExecOrRevert, AsExecOrRevert, Forwarded, Halt
<1>. QED
  BY <1>4, <1>5, <1>6, <1>7, <1>8 DEF Wrap

LEMMA WrapPayload ==
  ASSUME NEW sdk, NEW style, NEW io \in Io, HonestOk(io), SoundFor(sdk, io)
  PROVE  Payload(Wrap(sdk, style, io), io)
<1>1. CASE Honest(io)
  BY <1>1, HonestWrap
<1>2. CASE ~ Honest(io)
  <2>1. sdk = "as" /\ io.status \notin {StatusOk, CrossCallFailed}
    BY <1>2 DEF SoundFor, HonestOk, Honest
  <2>2. AsExec(io) = Failed(io.status, NoBytes)
    BY <2>1 DEF AsExec
  <2>3. AsExecOrRevert(io) = Halt(Made("named", 1))
    BY <2>2 DEF AsExecOrRevert, Forwarded, Failed
  <2>4. Payload(AsExec(io), io)
    BY <2>2, NothingIsPrefix DEF Payload, Failed, Io
  <2>5. Payload(AsExecOrRevert(io), io)
    BY <2>3 DEF Payload, Halt, Made, OwnText
  <2>. QED
    BY <2>1, <2>4, <2>5 DEF Wrap
<1>. QED
  BY <1>1, <1>2

\* A reason a wrapper reverts with was given: by the callee or by the SDK.
LEMMA WrapReason ==
  ASSUME NEW sdk, NEW style, NEW io \in Io, HonestOk(io),
         sdk = "rust" \/ SoundFor(sdk, io), io.sent.src # "pad",
         Wrap(sdk, style, io).tag = "Halt"
  PROVE  Wrap(sdk, style, io).data.src # "pad"
<1> DEFINE r == Wrap(sdk, style, io)
<1>1. sdk # "rust"
  <2>1. RustRaw(io).tag # "Halt" /\ RustTyped(io).tag # "Halt"
    BY DEF RustRaw, RustTyped, Ok, Err, ErrFromStatus
  <2>. QED
    BY <2>1 DEF Wrap
<1>2. Payload(r, io)
  BY <1>1, WrapPayload
<1> HIDE DEF r
<1>3. CASE PrefixOf(r.data, io.sent)
  BY <1>3 DEF PrefixOf, Made, NoBytes, r
<1>4. CASE r.data.src \in OwnText
  BY <1>4 DEF OwnText, r
<1>. QED
  BY <1>2, <1>3, <1>4 DEF Payload, r

-----------------------------------------------------------------------------
(* The steps *)

\* The length slot says what was sent, except after a call cut short.
SlotTold(status, sent, outLen) ==
  \/ outLen = sent.len
  \/ status = CrossCallOutOfGas /\ RefusalLen # {"zero"}

LEMMA LeaveTold ==
  ASSUME IInv, depth > 0,
         NEW status \in Status, NEW sent \in Bytes, NEW outLen \in Nat,
         NEW decodes \in BOOLEAN,
         Leave(status, sent, outLen, decodes),
         status = StatusOk => outLen = sent.len /\ sent = Made(sent.src, sent.len),
         depth # 1 => SlotTold(status, sent, outLen)
  PROVE  Told'
<1>1. CASE depth = 1
  <2>1. depth' = 0
    BY <1>1 DEF Leave, EndTx
  <2>. QED
    BY <2>1 DEF Told, SuccessIsExact, PayloadIsCallees
<1>2. CASE depth # 1
  <2> DEFINE caller == frame[depth - 1]
             io     == CallIo(caller.site, status, outLen, sent, decodes)
             new    == frame'[depth - 1]
  <2>1. depth' = depth - 1 /\ Resumed(caller, io, new) /\ io \in Io
    BY <1>2, LeaveEffect
  <2>2. HonestOk(io) /\ (PadNeverReported => SoundFor(SdkOf[caller.code], io))
    <3>1. caller.code \in Contract
      BY <1>2, LeaveEffect DEF Frame
    <3>2. HonestOk(io)
      BY DEF HonestOk, CallIo
    <3>3. Honest(io) \/ (io.status # CrossCallFailed /\ RefusalLen # {"zero"})
      BY <1>2 DEF Honest, CallIo, SlotTold, CrossCallOutOfGas, CrossCallFailed
    <3> HIDE DEF io, caller
    <3>. QED
      BY <3>1, <3>2, <3>3 DEF SoundFor, PadNeverReported
  <2> HIDE DEF io
  <2>3. new.last = Wrap(SdkOf[caller.code], caller.site.style, io) /\ new.io = io
    BY <2>1 DEF Resumed
  <2>4. Exact(new.last, new.io)
    BY <2>1, <2>2, <2>3, WrapExact
  <2>5. PadNeverReported => Payload(new.last, new.io)
    BY <2>1, <2>2, <2>3, WrapPayload
  <2>. QED
    BY <2>1, <2>4, <2>5
       DEF Told, SuccessIsExact, PayloadIsCallees, Exact, Payload, Top
<1>. QED
  BY <1>1, <1>2

LEMMA RefuseSlot ==
  ASSUME NEW s \in Site, NEW c \in Refusals(s), NEW l \in RefusalLen
  PROVE  LET io == CallIo(s, c, SlotLen(s, l), NoBytes, FALSE)
         IN  /\ HonestOk(io)
             /\ RefusalLen = {"zero"} => Honest(io)
             /\ AsDeployed /\ SdkOf[s.code] = "as" => io.status # CrossCallFailed
BY DEF Refusals, HonestOk, Honest, CallIo, SlotLen, NoBytes, AsDeployed,
       StatusOk, CrossCallFailed, InvalidFunctionName, Forbidden,
       ReentrancyBlocked, NotPayable, InsufficientBalance

LEMMA ToldStep == IInv /\ Told /\ [Next]_vars => Told'
<1> SUFFICES ASSUME IInv, Told, [Next]_vars
             PROVE  Told'
  OBVIOUS
<1>1. CASE UNCHANGED vars
  BY <1>1 DEF vars, Told, SuccessIsExact, PayloadIsCallees, Top
<1>2. ASSUME NEW c \in Contract, NEW f \in Fn, Begin(c, f)
      PROVE  Told'
  <2>1. frame \in [Depths -> Frame \cup {NoFrame}] /\ 1 \in Depths
    BY ConstantTypes DEF IInv, TypeOK
  <2>2. depth' = 1 /\ frame'[1].last = NoResult
    BY <1>2, <2>1 DEF Begin, NewFrame
  <2>. QED
    BY <2>2 DEF Told, SuccessIsExact, PayloadIsCallees, NoResult, Top
<1>3. ASSUME NEW v \in Val, SStore(v)
      PROVE  Told'
  BY <1>3, SStoreEffect DEF Told, SuccessIsExact, PayloadIsCallees, NoResult, Top
<1>4. ASSUME NEW s \in Site, Refuse(s)
      PROVE  Told'
  <2>1. PICK c \in Refusals(s), l \in RefusalLen :
          LET io == CallIo(s, c, SlotLen(s, l), NoBytes, FALSE)
          IN  /\ io \in Io
              /\ frame'[depth].last = Wrap(SdkOf[Top.code], s.style, io)
              /\ frame'[depth].io = io
    BY <1>4, RefuseEffect
  <2> DEFINE io == CallIo(s, c, SlotLen(s, l), NoBytes, FALSE)
  <2>2. depth' = depth
    BY <1>4, RefuseEffect
  <2>3. HonestOk(io) /\ (PadNeverReported => SoundFor(SdkOf[Top.code], io))
    <3>1. Top.code \in Contract /\ Top.code = s.code
      BY <1>4, TopType DEF Refuse, CanAct, IInv, Frame
    <3>. QED
      BY <3>1, RefuseSlot DEF io, PadNeverReported, SoundFor
  <2> HIDE DEF io
  <2>4. Exact(frame'[depth].last, frame'[depth].io)
    BY <2>1, <2>3, WrapExact DEF io
  <2>5. PadNeverReported => Payload(frame'[depth].last, frame'[depth].io)
    BY <2>1, <2>3, WrapPayload DEF io
  <2>. QED
    BY <2>2, <2>4, <2>5
       DEF Told, SuccessIsExact, PayloadIsCallees, Exact, Payload, Top
<1>5. ASSUME NEW s \in Site, Enter(s)
      PROVE  Told'
  BY <1>5, EnterEffect DEF Told, SuccessIsExact, PayloadIsCallees, NoResult, Top
<1>6. ASSUME NEW s \in Site, TooDeep(s)
      PROVE  Told'
  BY <1>6 DEF TooDeep, EndTx, Told, SuccessIsExact, PayloadIsCallees
<1>7. ASSUME NEW n \in Size, Return(n)
      PROVE  Told'
  <2>1. PICK decodes \in Decodings : Leave(StatusOk, Made("ret", n), n, decodes)
    BY <1>7 DEF Return
  <2>2. /\ decodes \in BOOLEAN /\ n \in Nat /\ depth > 0
        /\ Made("ret", n) \in Bytes
    BY <1>7, BoundAssumption, MadeType DEF Decodings, Source, Return
  <2>3. /\ Made("ret", n).len = n
        /\ Made("ret", n) = Made(Made("ret", n).src, n)
    BY <2>2 DEF Made, NoBytes
  <2>. QED
    BY <2>1, <2>2, <2>3, LeaveTold, StatusTypes DEF SlotTold
<1>8. ASSUME NEW reason \in Bytes, RevertWith(reason), depth > 0
      PROVE  Told'
  <2>1. reason.len \in Nat /\ CrossCallFailed # StatusOk
    BY DEF Bytes, CrossCallFailed, StatusOk
  <2>. QED
    BY <1>8, <2>1, LeaveTold, StatusTypes DEF RevertWith, SlotTold
<1>9. ASSUME NEW n \in Size, Revert(n)
      PROVE  Told'
  <2>1. Made("rev", n) \in Bytes
    BY MadeType, BoundAssumption DEF Source
  <2>. QED
    BY <1>8, <1>9, <2>1 DEF Revert
<1>10. CASE WrapperRevert
  <2>1. Top.last.data \in Bytes
    BY <1>10, TopType DEF WrapperRevert, IInv, Frame, Result
  <2>. QED
    BY <1>8, <1>10, <2>1 DEF WrapperRevert
<1>11. CASE Trap
  BY <1>8, <1>11, ConstantTypes DEF Trap
<1>12. CASE OutOfGas
  <2>1. PICK l \in RefusalLen :
          Leave(CrossCallOutOfGas, NoBytes,
                IF depth = 1 THEN 0 ELSE SlotLen(frame[depth - 1].site, l), FALSE)
    BY <1>12 DEF OutOfGas
  <2> DEFINE n == IF depth = 1 THEN 0 ELSE SlotLen(frame[depth - 1].site, l)
  <2>2. n \in Nat
    BY <1>12, OutLenType DEF OutOfGas
  <2>3. depth # 1 => SlotTold(CrossCallOutOfGas, NoBytes, n)
    BY DEF SlotLen, NoBytes, SlotTold
  <2>4. CrossCallOutOfGas # StatusOk
    BY DEF CrossCallOutOfGas, StatusOk
  <2> HIDE DEF n
  <2>. QED
    BY <1>12, <2>1, <2>2, <2>3, <2>4, LeaveTold, StatusTypes, ConstantTypes
       DEF OutOfGas, n
<1>. QED
  BY <1>1, <1>2, <1>3, <1>4, <1>5, <1>6, <1>7, <1>9, <1>10, <1>11, <1>12
     DEF Next, Work

LEMMA ToldAlways == Spec => []Told
<1>1. Init => Told
  BY DEF Init, Told, SuccessIsExact, PayloadIsCallees
<1>2. IInv /\ Told /\ [Next]_vars => Told'
  BY ToldStep
<1>. QED
  BY <1>1, <1>2, InductiveInvariant, PTL DEF Spec

(* A success is the callee's exact bytes, whatever the sizes of the value  *)
(* and of the buffer (execute, Exec, exec and their typed and reverting    *)
(* forms), and however the host treats the length slot of a refused call.  *)
THEOREM ExactSuccess == Spec => []SuccessIsExact
<1>1. Told => SuccessIsExact
  BY DEF Told
<1>. QED
  BY <1>1, ToldAlways, PTL

(* Of every SDK: on a host that always writes the length slot, a payload   *)
(* reported or forwarded is what the callee sent (Exec's promise in        *)
(* call.go).  On a host that may leave the slot alone this is so of        *)
(* AssemblyScript contracts that call deployed contracts only; GoRefused   *)
(* shows what Go does there.                                               *)
THEOREM HonestPayload ==
  ASSUME PadNeverReported
  PROVE  Spec => []PayloadIsCallees
<1>1. Told => PayloadIsCallees
  BY DEF Told
<1>. QED
  BY <1>1, ToldAlways, PTL

-----------------------------------------------------------------------------
(* The reason of a failed transaction *)

\* A wrapper that reverts its frame has a reason, and so has a receipt.
Why ==
  /\ ReceiptSaysWhy
  /\ depth > 0 /\ Top.pc = "halt" => /\ Top.last.tag = "Halt"
                                     /\ Top.last.data.src # "pad"

LEMMA LeaveWhy ==
  ASSUME IInv, Why, PadNeverForwarded, depth > 0,
         NEW status \in Status, NEW sent \in Bytes, NEW outLen \in Nat,
         NEW decodes \in BOOLEAN,
         Leave(status, sent, outLen, decodes), sent.src # "pad",
         status = StatusOk => outLen = sent.len /\ sent = Made(sent.src, sent.len),
         depth # 1 => SlotTold(status, sent, outLen)
  PROVE  Why'
<1>1. CASE depth = 1
  BY <1>1 DEF Leave, EndTx, Why, ReceiptSaysWhy
<1>2. CASE depth # 1
  <2> DEFINE caller == frame[depth - 1]
             sdk    == SdkOf[caller.code]
             io     == CallIo(caller.site, status, outLen, sent, decodes)
             new    == frame'[depth - 1]
  <2>1. /\ depth' = depth - 1 /\ receipt' = receipt /\ Resumed(caller, io, new)
        /\ io \in Io /\ caller \in Frame
    BY <1>2, LeaveEffect
  <2>2. HonestOk(io) /\ (sdk = "rust" \/ SoundFor(sdk, io)) /\ io.sent.src # "pad"
    <3>1. caller.code \in Contract /\ sdk \in Sdk
      BY <2>1, ContractAssumption DEF Frame
    <3>2. HonestOk(io) /\ io.sent.src # "pad"
      BY DEF HonestOk, CallIo
    <3>3. Honest(io) \/ (io.status # CrossCallFailed /\ RefusalLen # {"zero"})
      BY <1>2 DEF Honest, CallIo, SlotTold, CrossCallOutOfGas, CrossCallFailed
    <3> HIDE DEF io, caller
    <3>. QED
      BY <3>1, <3>2, <3>3 DEF SoundFor, PadNeverForwarded, Sdk
  <2> HIDE DEF io, sdk
  <2>3. new.last = Wrap(sdk, caller.site.style, io)
    BY <2>1 DEF Resumed, sdk
  <2>4. new.last.tag = "Halt" => new.last.data.src # "pad"
    BY <2>1, <2>2, <2>3, WrapReason
  <2>5. new.pc = "halt" => new.last.tag = "Halt"
    BY <2>1 DEF Resumed
  <2>. QED
    BY <2>1, <2>4, <2>5 DEF Why, ReceiptSaysWhy, Top
<1>. QED
  BY <1>1, <1>2

LEMMA WhyStep ==
  ASSUME PadNeverForwarded
  PROVE  IInv /\ Why /\ [Next]_vars => Why'
<1> SUFFICES ASSUME IInv, Why, [Next]_vars
             PROVE  Why'
  OBVIOUS
<1>1. CASE UNCHANGED vars
  BY <1>1 DEF vars, Why, ReceiptSaysWhy, Top
<1>2. ASSUME NEW c \in Contract, NEW f \in Fn, Begin(c, f)
      PROVE  Why'
  <2>1. frame \in [Depths -> Frame \cup {NoFrame}] /\ 1 \in Depths
    BY ConstantTypes DEF IInv, TypeOK
  <2>2. depth' = 1 /\ frame'[1].pc = "run" /\ receipt'.ok = TRUE
    BY <1>2, <2>1 DEF Begin, NewFrame
  <2>. QED
    BY <2>2 DEF Why, ReceiptSaysWhy, Top
<1>3. ASSUME NEW v \in Val, SStore(v)
      PROVE  Why'
  <2>1. receipt' = receipt
    BY <1>3 DEF SStore
  <2>. QED
    BY <1>3, <2>1, SStoreEffect DEF Why, ReceiptSaysWhy, Top
<1>4. ASSUME NEW s \in Site, Refuse(s)
      PROVE  Why'
  <2>1. PICK c \in Refusals(s), l \in RefusalLen :
          LET io == CallIo(s, c, SlotLen(s, l), NoBytes, FALSE)
          IN  /\ io \in Io
              /\ frame'[depth].last = Wrap(SdkOf[Top.code], s.style, io)
              /\ frame'[depth].io = io
    BY <1>4, RefuseEffect
  <2> DEFINE io  == CallIo(s, c, SlotLen(s, l), NoBytes, FALSE)
             sdk == SdkOf[Top.code]
             new == frame'[depth]
  <2>2. /\ depth' = depth /\ receipt' = receipt
        /\ new.pc = "halt" => new.last.tag = "Halt"
    BY <1>4, RefuseEffect
  <2>3. HonestOk(io) /\ (sdk = "rust" \/ SoundFor(sdk, io)) /\ io.sent.src # "pad"
    <3>1. Top.code \in Contract /\ Top.code = s.code /\ sdk \in Sdk
      BY <1>4, TopType, ContractAssumption DEF Refuse, CanAct, IInv, Frame
    <3>2. io.sent.src # "pad"
      BY DEF CallIo, NoBytes
    <3>. QED
      BY <3>1, <3>2, RefuseSlot DEF PadNeverForwarded, SoundFor, Sdk
  <2> HIDE DEF io, sdk
  <2>4. new.last = Wrap(sdk, s.style, io) /\ io \in Io
    BY <2>1 DEF io, sdk
  <2>5. new.last.tag = "Halt" => new.last.data.src # "pad"
    BY <2>3, <2>4, WrapReason
  <2>. QED
    BY <2>2, <2>5 DEF Why, ReceiptSaysWhy, Top
<1>5. ASSUME NEW s \in Site, Enter(s)
      PROVE  Why'
  <2>1. receipt' = receipt
    BY <1>5 DEF Enter
  <2>. QED
    BY <1>5, <2>1, EnterEffect DEF Why, ReceiptSaysWhy, Top
<1>6. ASSUME NEW s \in Site, TooDeep(s)
      PROVE  Why'
  BY <1>6 DEF TooDeep, EndTx, Why, ReceiptSaysWhy, NoBytes
<1>7. ASSUME NEW n \in Size, Return(n)
      PROVE  Why'
  <2>1. PICK decodes \in Decodings : Leave(StatusOk, Made("ret", n), n, decodes)
    BY <1>7 DEF Return
  <2>2. /\ decodes \in BOOLEAN /\ n \in Nat /\ depth > 0
        /\ Made("ret", n) \in Bytes
    BY <1>7, BoundAssumption, MadeType DEF Decodings, Source, Return
  <2>3. /\ Made("ret", n).len = n /\ Made("ret", n).src # "pad"
        /\ Made("ret", n) = Made(Made("ret", n).src, n)
    BY <2>2 DEF Made, NoBytes
  <2>. QED
    BY <2>1, <2>2, <2>3, LeaveWhy, StatusTypes DEF SlotTold
<1>8. ASSUME NEW reason \in Bytes, RevertWith(reason), depth > 0,
             reason.src # "pad"
      PROVE  Why'
  <2>1. reason.len \in Nat /\ CrossCallFailed # StatusOk
    BY DEF Bytes, CrossCallFailed, StatusOk
  <2>. QED
    BY <1>8, <2>1, LeaveWhy, StatusTypes DEF RevertWith, SlotTold
<1>9. ASSUME NEW n \in Size, Revert(n)
      PROVE  Why'
  <2>1. Made("rev", n) \in Bytes /\ Made("rev", n).src # "pad"
    BY MadeType, BoundAssumption DEF Source, Made, NoBytes
  <2>. QED
    BY <1>8, <1>9, <2>1 DEF Revert
<1>10. CASE WrapperRevert
  <2>1. Top.last.data \in Bytes
    BY <1>10, TopType DEF WrapperRevert, IInv, Frame, Result
  <2>2. Top.last.data.src # "pad"
    BY <1>10 DEF WrapperRevert, Why
  <2>. QED
    BY <1>8, <1>10, <2>1, <2>2 DEF WrapperRevert
<1>11. CASE Trap
  BY <1>8, <1>11, ConstantTypes DEF Trap, NoBytes
<1>12. CASE OutOfGas
  <2>1. PICK l \in RefusalLen :
          Leave(CrossCallOutOfGas, NoBytes,
                IF depth = 1 THEN 0 ELSE SlotLen(frame[depth - 1].site, l), FALSE)
    BY <1>12 DEF OutOfGas
  <2> DEFINE n == IF depth = 1 THEN 0 ELSE SlotLen(frame[depth - 1].site, l)
  <2>2. n \in Nat
    BY <1>12, OutLenType DEF OutOfGas
  <2>3. depth # 1 => SlotTold(CrossCallOutOfGas, NoBytes, n)
    BY DEF SlotLen, NoBytes, SlotTold
  <2>4. CrossCallOutOfGas # StatusOk /\ NoBytes.src # "pad"
    BY DEF CrossCallOutOfGas, StatusOk, NoBytes
  <2> HIDE DEF n
  <2>. QED
    BY <1>12, <2>1, <2>2, <2>3, <2>4, LeaveWhy, StatusTypes, ConstantTypes
       DEF OutOfGas, n
<1>. QED
  BY <1>1, <1>2, <1>3, <1>4, <1>5, <1>6, <1>7, <1>9, <1>10, <1>11, <1>12
     DEF Next, Work

(* However many wrappers passed it on (execOrRevert, ExecOrRevert), the    *)
(* reason in a failed transaction's receipt is one somebody gave, where    *)
(* the host writes the length slot, and without Go contracts even where it *)
(* does not.                                                               *)
THEOREM ReceiptsSayWhy ==
  ASSUME PadNeverForwarded
  PROVE  Spec => []ReceiptSaysWhy
<1>1. Init => Why
  BY DEF Init, Why, ReceiptSaysWhy
<1>2. IInv /\ Why /\ [Next]_vars => Why'
  BY WhyStep
<1>3. Why => ReceiptSaysWhy
  BY DEF Why
<1>. QED
  BY <1>1, <1>2, <1>3, InductiveInvariant, PTL DEF Spec

-----------------------------------------------------------------------------
(* The supply *)

\* The undo points hold it too: a frame that fails puts one of them back.
FullSupply(w) == Total(w.bal) = Total(Supply)
Conserved ==
  /\ FullSupply(world)
  /\ \A d \in 1 .. depth : FullSupply(frame[d].entry)

LEMMA TotalIsSum ==
  ASSUME NEW balance \in [Contract -> Nat]
  PROVE  Total(balance) = SumOn(balance, Contract)
BY DEF Total, FoldFunction, SumOn

LEMMA TransferConserves ==
  ASSUME IsFiniteSet(Contract), IInv, NEW s \in Site, depth > 0, Refusals(s) = {}
  PROVE  Total(Transfer(s).bal) = Total(world.bal)
<1> DEFINE b    == world.bal
           to   == s.target
           from == Top.self
           paid == [b EXCEPT ![to] = b[to] + s.value]
           t    == Transfer(s).bal
<1>1. /\ world \in World /\ Top \in Frame /\ Transfer(s) \in World
      /\ s.value \in Nat /\ to \in Contract
  BY TopType, TransferType, SiteAssumption DEF IInv, SiteType
<1>2. from \in Contract /\ b \in [Contract -> Nat] /\ t \in [Contract -> Nat]
  BY <1>1 DEF Frame, World
<1>3. paid \in [Contract -> Nat] /\ paid[to] = b[to] + s.value
  BY <1>1, <1>2
<1>4. \A c \in Contract : t[c] = b[c] + (IF c = to THEN s.value ELSE 0)
                                     - (IF c = from THEN s.value ELSE 0)
  BY <1>1, <1>2 DEF Transfer, World
<1>5. /\ t[from] = paid[from] - s.value
      /\ \A c \in Contract \ {from} : t[c] = paid[c]
  BY <1>1, <1>2, <1>3, <1>4
<1>6. \A c \in Contract \ {to} : paid[c] = b[c]
  BY <1>2
<1> HIDE DEF b, to, from, paid, t
<1>7. SumOn(b, Contract) \in Int
  <2>1. \A c \in Contract : b[c] \in Int
    BY <1>2
  <2>. QED
    BY <1>1, <2>1, SumRemove
<1>8. SumOn(paid, Contract) = SumOn(b, Contract) + paid[to] - b[to]
  <2>1. \A c \in Contract : b[c] \in Int
    BY <1>2
  <2>2. paid[to] \in Int
    BY <1>1, <1>3
  <2>. QED
    BY <1>1, <1>6, <2>1, <2>2, SumChange
<1>9. SumOn(t, Contract) = SumOn(paid, Contract) + t[from] - paid[from]
  <2>1. \A c \in Contract : paid[c] \in Int
    BY <1>3
  <2>2. t[from] \in Int
    BY <1>2
  <2>. QED
    BY <1>2, <1>5, <2>1, <2>2, SumChange
<1>10. b[to] \in Int /\ paid[from] \in Int /\ s.value \in Int
  BY <1>1, <1>2, <1>3
<1>11. SumOn(t, Contract) = SumOn(b, Contract)
  BY <1>3, <1>5, <1>7, <1>8, <1>9, <1>10
<1>. QED
  BY <1>2, <1>11, TotalIsSum DEF b, t

LEMMA LeaveConserves ==
  ASSUME IInv, Conserved, depth > 0,
         NEW status \in Status, NEW sent \in Bytes, NEW outLen \in Nat,
         NEW decodes \in BOOLEAN,
         Leave(status, sent, outLen, decodes),
         world' = world \/ world' = Top.entry
  PROVE  Conserved'
<1>1. FullSupply(world')
  BY TopType DEF Conserved, Top, IInv
<1>2. CASE depth = 1
  BY <1>1, <1>2 DEF Leave, EndTx, Conserved, FullSupply
<1>3. CASE depth # 1
  <2>1. /\ depth' = depth - 1 /\ depth \in Nat
        /\ frame'[depth - 1].entry = frame[depth - 1].entry
        /\ \A d \in 1 .. depth - 2 : frame'[d] = frame[d]
    BY <1>3, LeaveEffect, TopType DEF Resumed, IInv
  <2>2. \A d \in 1 .. depth - 1 : frame'[d].entry = frame[d].entry
    BY <2>1
  <2>. QED
    BY <1>1, <2>1, <2>2 DEF Conserved, FullSupply
<1>. QED
  BY <1>2, <1>3

LEMMA ConservedStep ==
  ASSUME IsFiniteSet(Contract)
  PROVE  IInv /\ Conserved /\ [Next]_vars => Conserved'
<1> SUFFICES ASSUME IInv, Conserved, [Next]_vars
             PROVE  Conserved'
  OBVIOUS
<1>1. CASE UNCHANGED vars
  BY <1>1 DEF vars, Conserved, FullSupply
<1>2. ASSUME NEW c \in Contract, NEW f \in Fn, Begin(c, f)
      PROVE  Conserved'
  <2>1. frame \in [Depths -> Frame \cup {NoFrame}] /\ 1 \in Depths
    BY ConstantTypes DEF IInv, TypeOK
  <2>2. depth' = 1 /\ frame'[1].entry = world /\ world' = world
    BY <1>2, <2>1 DEF Begin, NewFrame
  <2>. QED
    BY <2>2 DEF Conserved, FullSupply
<1>3. ASSUME NEW v \in Val, SStore(v)
      PROVE  Conserved'
  <2>1. depth > 0 /\ Top.gas > 0 /\ Top \in Frame /\ world \in World /\ depth \in Depths
    BY <1>3, TopType DEF SStore, CanAct, IInv
  <2>2. world'.bal = world.bal
    BY <1>3, <2>1 DEF SStore, World
  <2>3. frame'[depth].entry = Top.entry
    BY <1>3, <2>1, SpendType DEF SStore, IInv, TypeOK
  <2>4. depth' = depth /\ \A d \in 1 .. depth : frame'[d].entry = frame[d].entry
    BY <1>3, <2>3, SStoreEffect, TopType DEF Top, IInv
  <2>. QED
    BY <2>2, <2>4 DEF Conserved, FullSupply
<1>4. ASSUME NEW s \in Site, Refuse(s)
      PROVE  Conserved'
  <2>1. /\ depth > 0 /\ depth' = depth /\ world' = world
        /\ frame'[depth].entry = Top.entry
        /\ \A d \in 1 .. depth - 1 : frame'[d] = frame[d]
    BY <1>4, RefuseEffect
  <2>2. \A d \in 1 .. depth : frame'[d].entry = frame[d].entry
    BY <2>1, TopType DEF Top, IInv
  <2>. QED
    BY <2>1, <2>2 DEF Conserved, FullSupply
<1>5. ASSUME NEW s \in Site, Enter(s)
      PROVE  Conserved'
  <2>1. /\ depth > 0 /\ depth \in Nat /\ depth' = depth + 1
        /\ world' = Transfer(s) /\ Refusals(s) = {}
        /\ frame'[depth + 1].entry = world
        /\ \A d \in 1 .. depth : frame'[d].entry = frame[d].entry
    BY <1>5, EnterEffect DEF Top
  <2>2. FullSupply(world')
    BY <2>1, TransferConserves DEF Conserved, FullSupply
  <2>. QED
    BY <2>1, <2>2 DEF Conserved, FullSupply
<1>6. ASSUME NEW s \in Site, TooDeep(s)
      PROVE  Conserved'
  <2>1. 1 \in 1 .. depth
    BY <1>6, TopType DEF TooDeep, CanAct, IInv
  <2>. QED
    BY <1>6, <2>1 DEF TooDeep, EndTx, Conserved, FullSupply
<1>7. ASSUME NEW n \in Size, Return(n)
      PROVE  Conserved'
  <2>1. PICK decodes \in Decodings : Leave(StatusOk, Made("ret", n), n, decodes)
    BY <1>7 DEF Return
  <2>2. /\ decodes \in BOOLEAN /\ n \in Nat /\ depth > 0 /\ world' = world
        /\ Made("ret", n) \in Bytes
    BY <1>7, BoundAssumption, MadeType DEF Decodings, Source, Return
  <2>. QED
    BY <2>1, <2>2, LeaveConserves, StatusTypes
<1>8. ASSUME NEW reason \in Bytes, RevertWith(reason), depth > 0
      PROVE  Conserved'
  <2>1. reason.len \in Nat
    BY DEF Bytes
  <2>. QED
    BY <1>8, <2>1, LeaveConserves, StatusTypes DEF RevertWith
<1>9. ASSUME NEW n \in Size, Revert(n)
      PROVE  Conserved'
  <2>1. Made("rev", n) \in Bytes
    BY MadeType, BoundAssumption DEF Source
  <2>. QED
    BY <1>8, <1>9, <2>1 DEF Revert
<1>10. CASE WrapperRevert
  <2>1. Top.last.data \in Bytes
    BY <1>10, TopType DEF WrapperRevert, IInv, Frame, Result
  <2>. QED
    BY <1>8, <1>10, <2>1 DEF WrapperRevert
<1>11. CASE Trap
  BY <1>8, <1>11, ConstantTypes DEF Trap
<1>12. CASE OutOfGas
  <2>1. PICK l \in RefusalLen :
          Leave(CrossCallOutOfGas, NoBytes,
                IF depth = 1 THEN 0 ELSE SlotLen(frame[depth - 1].site, l), FALSE)
    BY <1>12 DEF OutOfGas
  <2>2. (IF depth = 1 THEN 0 ELSE SlotLen(frame[depth - 1].site, l)) \in Nat
    BY <1>12, OutLenType DEF OutOfGas
  <2>. QED
    BY <1>12, <2>1, <2>2, LeaveConserves, StatusTypes, ConstantTypes DEF OutOfGas
<1>. QED
  BY <1>1, <1>2, <1>3, <1>4, <1>5, <1>6, <1>7, <1>9, <1>10, <1>11, <1>12
     DEF Next, Work

(* Whatever calls move value, fail and are undone, the balances add up to  *)
(* the supply, for any number of contracts.                                *)
THEOREM SupplyConserved ==
  ASSUME IsFiniteSet(Contract)
  PROVE  Spec => []ValueConserved
<1>1. Init => Conserved
  BY DEF Init, Conserved, FullSupply
<1>2. IInv /\ Conserved /\ [Next]_vars => Conserved'
  BY ConservedStep
<1>3. Conserved => ValueConserved
  BY DEF Conserved, FullSupply, ValueConserved
<1>. QED
  BY <1>1, <1>2, <1>3, InductiveInvariant, PTL DEF Spec

-----------------------------------------------------------------------------
(* Calls are atomic *)

\* What the refinement needs to know of both ends of a step.
RInv == IInv /\ FailureUndone /\ ViewInv

\* A wrapper always says something.
LEMMA WrapSpeaks ==
  ASSUME NEW sdk, NEW style, NEW io \in Io
  PROVE  Wrap(sdk, style, io).tag # "None"
<1>1. RustRaw(io).tag # "None"
  BY DEF RustRaw, Ok, Err, ErrFromStatus
<1>2. RustTyped(io).tag # "None"
  BY <1>1 DEF RustTyped, Err
<1>3. GoExec(io).tag # "None" /\ AsExec(io).tag # "None"
  BY DEF GoExec, AsExec, Ok, Halt, Failed
<1>4. GoExecOrRevert(io).tag # "None" /\ AsExecOrRevert(io).tag # "None"
  BY <1>3 DEF GoExecOrRevert, AsExecOrRevert, Forwarded, Halt
<1>. QED
  BY <1>1, <1>2, <1>3, <1>4 DEF Wrap

\* Only the frame the transaction entered is seen.
LEMMA InnerAtomic ==
  ASSUME depth \in Nat, depth' \in Nat, depth > 1, depth' > 1,
         frame'[1] = frame[1]
  PROVE  UNCHANGED Abstract!vars
BY DEF Abstract!vars

LEMMA EndAtomic ==
  ASSUME depth \in Nat, depth > 0, depth' = 0,
         \/ depth = 1 /\ world' = world
         \/ world' = frame[1].entry
  PROVE  Abstract!Next
<1>1. CASE depth = 1 /\ world' = world
  <2>. Abstract!Commit
    BY <1>1 DEF Abstract!Commit
  <2>. QED
    BY DEF Abstract!Next
<1>2. CASE world' = frame[1].entry
  <2>. Abstract!Abort
    BY <1>2 DEF Abstract!Abort
  <2>. QED
    BY DEF Abstract!Next
<1>. QED
  BY <1>1, <1>2

LEMMA LeaveAtomic ==
  ASSUME RInv, RInv', depth > 0,
         NEW status \in Status, NEW sent \in Bytes, NEW outLen \in Nat,
         NEW decodes \in BOOLEAN,
         Leave(status, sent, outLen, decodes),
         world' = world \/ world' = Top.entry
  PROVE  [Abstract!Next]_Abstract!vars
<1>1. depth \in Nat /\ 1 \in 1 .. depth
  BY TopType DEF RInv, IInv
<1>2. CASE depth = 1
  <2>1. depth' = 0
    BY <1>2 DEF Leave, EndTx
  <2>2. world' = world \/ world' = frame[1].entry
    BY <1>2 DEF Top
  <2>. QED
    BY <1>1, <1>2, <2>1, <2>2, EndAtomic
<1>3. CASE depth > 2
  <2>1. depth' = depth - 1 /\ \A d \in 1 .. depth - 2 : frame'[d] = frame[d]
    BY <1>1, <1>3, LeaveEffect DEF RInv
  <2>2. frame'[1] = frame[1]
    BY <1>1, <1>3, <2>1
  <2>. QED
    BY <1>1, <1>3, <2>1, <2>2, InnerAtomic
<1>4. CASE depth = 2
  <2> DEFINE new == frame'[1]
             io  == CallIo(frame[1].site, status, outLen, sent, decodes)
  <2>1. /\ depth' = 1 /\ io \in Io
        /\ new.view = frame[1].view /\ new.entry = frame[1].entry
        /\ new.before = frame[2].entry
        /\ new.last = Wrap(SdkOf[frame[1].code], frame[1].site.style, io)
    <3>1. depth - 1 = 1 /\ depth # 1
      BY <1>4
    <3>2. /\ depth' = depth - 1
          /\ CallIo(frame[depth - 1].site, status, outLen, sent, decodes) \in Io
          /\ Resumed(frame[depth - 1],
                     CallIo(frame[depth - 1].site, status, outLen, sent, decodes),
                     frame'[depth - 1])
      BY <1>1, <3>1, LeaveEffect DEF RInv
    <3>. QED
      BY <1>4, <3>1, <3>2 DEF Resumed, Top
  <2>2. new.last.tag # "None"
    <3> HIDE DEF io
    <3>. QED
      BY <2>1, WrapSpeaks
  <2>3. frame[2].entry = frame[1].before /\ world' \in World
    BY <1>1, <1>4 DEF RInv, IInv, UndoChain, TypeOK
  <2>4. ReportsFailure(new.last) => world' = frame[1].before
    BY <2>1, <2>3 DEF RInv, FailureUndone, Top
  <2>5. frame[1].view => world' = frame[1].before
    <3> SUFFICES ASSUME frame[1].view
                 PROVE  world' = frame[1].before
      OBVIOUS
    <3>1. world = frame[1].entry /\ frame[2].view
      BY <1>4 DEF RInv, ViewInv
    <3>2. world = frame[2].entry
      BY <1>4, <3>1 DEF RInv, ViewInv
    <3>3. world' = new.entry
      <4>1. 1 \in 1 .. depth' /\ frame'[1].view
        BY <2>1
      <4>. QED
        BY <4>1 DEF RInv, ViewInv
    <3>. QED
      BY <2>1, <2>3, <3>1, <3>2, <3>3
  <2> HIDE DEF new, io
  <2> DEFINE out == OutcomeOf(new.last)
  <2>6. out = IF new.last.tag = "Ok" THEN "ok"
              ELSE IF ReportsFailure(new.last) THEN "failed" ELSE "unreadable"
    BY <2>2 DEF OutcomeOf
  <2> HIDE DEF out
  <2>7. CASE out = "failed"
    <3>. world' = frame[1].before
      BY <2>4, <2>6, <2>7
    <3>. Abstract!CallFailed
      BY <1>4, <2>1, <2>7 DEF Abstract!CallFailed, new, out
    <3>. QED
      BY DEF Abstract!Next
  <2>8. CASE out # "failed"
    <3>. out \in {"ok", "unreadable"}
      BY <2>6, <2>8
    <3>. Abstract!CallDone
      BY <1>4, <2>1, <2>3, <2>5 DEF Abstract!CallDone, new, out
    <3>. QED
      BY DEF Abstract!Next
  <2>. QED
    BY <2>7, <2>8
<1>. QED
  BY <1>1, <1>2, <1>3, <1>4

LEMMA AtomicInit == Init => Abstract!Init
<1> SUFFICES ASSUME Init PROVE Abstract!Init
  OBVIOUS
<1>1. world \in World
  BY ContractAssumption DEF Init, World
<1>. QED
  BY <1>1 DEF Init, Abstract!Init

LEMMA AtomicStep == RInv /\ RInv' /\ [Next]_vars => [Abstract!Next]_Abstract!vars
<1> SUFFICES ASSUME RInv, RInv', [Next]_vars
             PROVE  [Abstract!Next]_Abstract!vars
  OBVIOUS
<1>t. world \in World /\ world' \in World /\ depth \in Nat
  BY ConstantTypes DEF RInv, IInv, TypeOK
<1>1. CASE UNCHANGED vars
  BY <1>1 DEF vars, Abstract!vars
<1>2. ASSUME NEW c \in Contract, NEW f \in Fn, Begin(c, f)
      PROVE  [Abstract!Next]_Abstract!vars
  <2>1. frame \in [Depths -> Frame \cup {NoFrame}] /\ 1 \in Depths
    BY ConstantTypes DEF RInv, IInv, TypeOK
  <2>2. /\ depth = 0 /\ depth' = 1 /\ world' = world
        /\ frame'[1].entry = world /\ frame'[1].last = NoResult
        /\ frame'[1].view = (f \in ViewFn)
    BY <1>2, <2>1 DEF Begin, NewFrame
  <2>3. OutcomeOf(frame'[1].last) = "none"
    BY <2>2 DEF OutcomeOf, NoResult
  <2>. Abstract!Begin
    BY <2>2, <2>3 DEF Abstract!Begin
  <2>. QED
    BY DEF Abstract!Next
<1>3. ASSUME NEW v \in Val, SStore(v)
      PROVE  [Abstract!Next]_Abstract!vars
  <2>1. /\ depth > 0 /\ Top.gas > 0 /\ Top \in Frame /\ depth \in Depths
        /\ ~ Top.view /\ depth' = depth
    BY <1>3, TopType DEF SStore, CanAct, RInv, IInv
  <2>2. /\ frame'[depth].entry = Top.entry /\ frame'[depth].last = NoResult
        /\ frame'[depth].view = Top.view
    BY <1>t, <1>3, <2>1, SpendType DEF SStore, RInv, IInv, TypeOK
  <2>3. CASE depth = 1
    <3>1. OutcomeOf(frame'[1].last) = "none"
      BY <2>2, <2>3 DEF OutcomeOf, NoResult
    <3>. Abstract!Act
      BY <1>t, <2>1, <2>2, <2>3, <3>1 DEF Abstract!Act, Top
    <3>. QED
      BY DEF Abstract!Next
  <2>4. CASE depth > 1
    <3>1. frame'[1] = frame[1]
      BY <1>t, <1>3, <2>4, SStoreEffect DEF RInv
    <3>. QED
      BY <1>t, <2>1, <2>4, <3>1, InnerAtomic
  <2>. QED
    BY <1>t, <2>1, <2>3, <2>4
<1>4. ASSUME NEW s \in Site, Refuse(s)
      PROVE  [Abstract!Next]_Abstract!vars
  <2>1. PICK c \in Refusals(s), l \in RefusalLen :
          LET io == CallIo(s, c, SlotLen(s, l), NoBytes, FALSE)
          IN  /\ io \in Io
              /\ frame'[depth].last = Wrap(SdkOf[Top.code], s.style, io)
              /\ frame'[depth].io = io
    BY <1>4, RefuseEffect DEF RInv
  <2>2. /\ depth > 0 /\ depth' = depth /\ world' = world
        /\ frame'[depth].view = Top.view /\ frame'[depth].entry = Top.entry
        /\ \A d \in 1 .. depth - 1 : frame'[d] = frame[d]
    BY <1>4, RefuseEffect DEF RInv
  <2>3. CASE depth = 1
    <3>1. frame'[1].last.tag # "None"
      BY <2>1, <2>3, WrapSpeaks
    <3>2. OutcomeOf(frame'[1].last) \in {"ok", "failed", "unreadable"}
      BY <3>1 DEF OutcomeOf
    <3>3. CASE OutcomeOf(frame'[1].last) = "failed"
      <4>. Abstract!CallFailed
        BY <2>2, <2>3, <3>3 DEF Abstract!CallFailed, Top
      <4>. QED
        BY DEF Abstract!Next
    <3>4. CASE OutcomeOf(frame'[1].last) # "failed"
      <4>. Abstract!CallDone
        BY <1>t, <2>2, <2>3, <3>2, <3>4 DEF Abstract!CallDone, Top
      <4>. QED
        BY DEF Abstract!Next
    <3>. QED
      BY <3>3, <3>4
  <2>4. CASE depth > 1
    <3>1. frame'[1] = frame[1]
      BY <1>t, <2>2, <2>4
    <3>. QED
      BY <1>t, <2>2, <2>4, <3>1, InnerAtomic
  <2>. QED
    BY <1>t, <2>2, <2>3, <2>4
<1>5. ASSUME NEW s \in Site, Enter(s)
      PROVE  [Abstract!Next]_Abstract!vars
  <2>1. /\ depth > 0 /\ depth' = depth + 1
        /\ frame'[depth].view = Top.view /\ frame'[depth].entry = Top.entry
        /\ frame'[depth].before = world /\ frame'[depth].last = NoResult
        /\ \A d \in 1 .. depth - 1 : frame'[d] = frame[d]
    BY <1>5, EnterEffect DEF RInv
  <2>2. CASE depth = 1
    <3>1. OutcomeOf(frame'[1].last) = "none"
      BY <2>1, <2>2 DEF OutcomeOf, NoResult
    <3>. Abstract!Act
      BY <1>t, <2>1, <2>2, <3>1 DEF Abstract!Act, Top
    <3>. QED
      BY DEF Abstract!Next
  <2>3. CASE depth > 1
    <3>1. frame'[1] = frame[1]
      BY <1>t, <2>1, <2>3
    <3>. QED
      BY <1>t, <2>1, <2>3, <3>1, InnerAtomic
  <2>. QED
    BY <1>t, <2>1, <2>2, <2>3
<1>6. ASSUME NEW s \in Site, TooDeep(s)
      PROVE  [Abstract!Next]_Abstract!vars
  <2>1. depth > 0 /\ depth' = 0 /\ world' = frame[1].entry
    BY <1>6 DEF TooDeep, CanAct, EndTx
  <2>. QED
    BY <1>t, <2>1, EndAtomic
<1>7. ASSUME NEW n \in Size, Return(n)
      PROVE  [Abstract!Next]_Abstract!vars
  <2>1. PICK decodes \in Decodings : Leave(StatusOk, Made("ret", n), n, decodes)
    BY <1>7 DEF Return
  <2>2. /\ decodes \in BOOLEAN /\ n \in Nat /\ depth > 0 /\ world' = world
        /\ Made("ret", n) \in Bytes
    BY <1>7, BoundAssumption, MadeType DEF Decodings, Source, Return
  <2>. QED
    BY <2>1, <2>2, LeaveAtomic, StatusTypes
<1>8. ASSUME NEW reason \in Bytes, RevertWith(reason), depth > 0
      PROVE  [Abstract!Next]_Abstract!vars
  <2>1. reason.len \in Nat
    BY DEF Bytes
  <2>. QED
    BY <1>8, <2>1, LeaveAtomic, StatusTypes DEF RevertWith
<1>9. ASSUME NEW n \in Size, Revert(n)
      PROVE  [Abstract!Next]_Abstract!vars
  <2>1. Made("rev", n) \in Bytes
    BY MadeType, BoundAssumption DEF Source
  <2>. QED
    BY <1>8, <1>9, <2>1 DEF Revert
<1>10. CASE WrapperRevert
  <2>1. Top.last.data \in Bytes
    BY <1>10, TopType DEF WrapperRevert, RInv, IInv, Frame, Result
  <2>. QED
    BY <1>8, <1>10, <2>1 DEF WrapperRevert
<1>11. CASE Trap
  BY <1>8, <1>11, ConstantTypes DEF Trap
<1>12. CASE OutOfGas
  <2>1. PICK l \in RefusalLen :
          Leave(CrossCallOutOfGas, NoBytes,
                IF depth = 1 THEN 0 ELSE SlotLen(frame[depth - 1].site, l), FALSE)
    BY <1>12 DEF OutOfGas
  <2>2. (IF depth = 1 THEN 0 ELSE SlotLen(frame[depth - 1].site, l)) \in Nat
    BY <1>12, OutLenType DEF OutOfGas, RInv
  <2>. QED
    BY <1>12, <2>1, <2>2, LeaveAtomic, StatusTypes, ConstantTypes DEF OutOfGas
<1>. QED
  BY <1>1, <1>2, <1>3, <1>4, <1>5, <1>6, <1>7, <1>9, <1>10, <1>11, <1>12
     DEF Next, Work

(* The contract a transaction enters sees every call it makes, of however  *)
(* many contracts below it, as one step that is done or undone as its      *)
(* wrapper says, and the chain sees all of the transaction or none of it.  *)
THEOREM CallsAreAtomic == Spec => Atomic
<1>1. Init => Abstract!Init
  BY AtomicInit
<1>2. RInv /\ RInv' /\ [Next]_vars => [Abstract!Next]_Abstract!vars
  BY AtomicStep
<1>3. Init => ViewInv
  BY DEF Init, ViewInv
<1>4. IInv /\ ViewInv /\ [Next]_vars => ViewInv'
  BY ViewStep
<1>5. RInv <=> IInv /\ FailureUndone /\ ViewInv
  BY DEF RInv
<1>. QED
  BY <1>1, <1>2, <1>3, <1>4, <1>5, InductiveInvariant, FailuresUndone, PTL
     DEF Spec, Atomic, Abstract!Spec
=============================================================================
