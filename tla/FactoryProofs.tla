---------------------------- MODULE FactoryProofs ----------------------------
(***************************************************************************)
(* What holds of factories and their children, for any number of them and  *)
(* any nesting of constructors.                                            *)
(***************************************************************************)
EXTENDS Factory, DataProofs

-----------------------------------------------------------------------------
(* Salts: a pair's salt says which pair it is of, and nothing of its order *)

\* The encoding has the pair's elements, and the lower one first.
LEMMA EncodingOfPair ==
  ASSUME NEW a \in Token, NEW b \in Token
  PROVE  /\ UnorderedPairEncoding(a, b) = UnorderedPairEncoding(b, a)
         /\ {UnorderedPairEncoding(a, b)[1], UnorderedPairEncoding(a, b)[2]} = {a, b}
<1>1. Rank[a] \in Int /\ Rank[b] \in Int /\ (Rank[a] = Rank[b] => a = b)
  BY RankAssumption
<1>2. CASE Rank[a] < Rank[b]
  BY <1>1, <1>2 DEF UnorderedPairEncoding
<1>3. CASE Rank[b] < Rank[a]
  BY <1>1, <1>3 DEF UnorderedPairEncoding
<1>4. CASE a = b
  BY <1>1, <1>4 DEF UnorderedPairEncoding
<1> QED BY <1>1, <1>2, <1>3, <1>4

\* unordered_pair, of all SDKs: two pairs have one salt exactly when they are
\* the same two addresses, whichever is given first.
THEOREM SaltOfPairExact ==
  ASSUME NEW a \in Token, NEW b \in Token, NEW c \in Token, NEW d \in Token
  PROVE  SaltOfUnorderedPair(a, b) = SaltOfUnorderedPair(c, d) <=> {a, b} = {c, d}
<1> DEFINE e == UnorderedPairEncoding(a, b)  g == UnorderedPairEncoding(c, d)
<1>1. SaltOfUnorderedPair(a, b) = SaltOfUnorderedPair(c, d) <=> e = g
  BY DEF SaltOfUnorderedPair, Poseidon2
<1>2. ASSUME e = g PROVE {a, b} = {c, d}
  <2>1. {e[1], e[2]} = {a, b} /\ {g[1], g[2]} = {c, d}
    BY EncodingOfPair
  <2> QED BY <2>1, <1>2
<1>3. ASSUME {a, b} = {c, d} PROVE e = g
  <2>1. (a = c /\ b = d) \/ (a = d /\ b = c)
    BY <1>3
  <2>2. CASE a = c /\ b = d
    BY <2>2
  <2>3. CASE a = d /\ b = c
    BY <2>3, EncodingOfPair
  <2> QED BY <2>1, <2>2, <2>3
<1> QED BY <1>1, <1>2, <1>3

-----------------------------------------------------------------------------
(* Children: whose they are, and where *)

Record(f, a, n) ==
  [of |-> [by |-> f, id |-> IF f \in Sequential THEN NumberId(a, n) ELSE PairId(a)],
   at |-> HostAddr(f, a.template,
                   IF f \in Sequential THEN SaltOf(n)
                   ELSE SaltOfUnorderedPair(a.pair[1], a.pair[2]))]

\* The child that create would now make.
ChildOf(f, a, w) == Record(f, a, w.next[f])

Genuine ==
  UNION {{Record(f, a, n) : a \in Asked(f), n \in 0 .. MaxNumber} : f \in Maker}

LEMMA ChildIs ==
  ASSUME NEW f, NEW a, NEW w
  PROVE  /\ ChildOf(f, a, w).of = IdFor(f, a, w)
         /\ ChildOf(f, a, w).at = HostAddr(f, a.template, SaltFor(f, a, w))
         /\ ChildOf(f, a, w) = [of |-> IdFor(f, a, w),
                                at |-> HostAddr(f, a.template, SaltFor(f, a, w))]
BY DEF ChildOf, Record, IdFor, SaltFor

LEMMA AskedPair ==
  ASSUME NEW f \in Maker, NEW a \in Asked(f), f \notin Sequential
  PROVE  a.pair \in Pairs /\ a.pair[1] \in Token /\ a.pair[2] \in Token
BY FactoryAssumption DEF Asked, Ask

LEMMA ChildGenuine ==
  ASSUME NEW f \in Maker, NEW a \in Asked(f), NEW w,
         f \in Sequential => w.next[f] \in 0 .. MaxNumber
  PROVE  ChildOf(f, a, w) \in Genuine
<1>1. CASE f \in Sequential
  BY <1>1 DEF Genuine, ChildOf
<1>2. CASE f \notin Sequential
  <2>1. ChildOf(f, a, w) = Record(f, a, 0) /\ 0 \in 0 .. MaxNumber
    BY <1>2, FactoryAssumption DEF ChildOf, Record
  <2> QED
    BY <2>1 DEF Genuine
<1> QED
  BY <1>1, <1>2

LEMMA GenuineIs ==
  ASSUME NEW r \in Genuine
  PROVE  \E f \in Maker : \E a \in Asked(f) : \E n \in 0 .. MaxNumber : r = Record(f, a, n)
BY DEF Genuine

LEMMA GenuineAt ==
  ASSUME NEW r \in Genuine
  PROVE  r.at \in AddressSpace
<1>1. PICK f \in Maker : \E a \in Asked(f) : \E n \in 0 .. MaxNumber : r = Record(f, a, n)
  BY GenuineIs
<1>2. PICK a \in Asked(f), n \in 0 .. MaxNumber : r = Record(f, a, n)
  BY <1>1
<1>3. a.template \in Template
  BY DEF Asked, Ask
<1>4. CASE f \in Sequential
  BY <1>2, <1>3, <1>4 DEF Record, AddressSpace
<1>5. CASE f \notin Sequential
  BY <1>2, <1>3, <1>5, AskedPair DEF Record, AddressSpace
<1> QED
  BY <1>4, <1>5

(* A child's address and what it is the child of determine one another.    *)
LEMMA RecordExact ==
  ASSUME NEW r \in Genuine, NEW q \in Genuine
  PROVE  r.of = q.of <=> r.at = q.at
<1>1. PICK f \in Maker : \E a \in Asked(f) : \E n \in 0 .. MaxNumber : r = Record(f, a, n)
  BY GenuineIs
<1>2. PICK a \in Asked(f), n \in 0 .. MaxNumber : r = Record(f, a, n)
  BY <1>1
<1>3. PICK g \in Maker : \E b \in Asked(g) : \E m \in 0 .. MaxNumber : q = Record(g, b, m)
  BY GenuineIs
<1>4. PICK b \in Asked(g), m \in 0 .. MaxNumber : q = Record(g, b, m)
  BY <1>3
<1> DEFINE salt(h, c, k) == IF h \in Sequential THEN SaltOf(k)
                            ELSE SaltOfUnorderedPair(c.pair[1], c.pair[2])
           id(h, c, k)   == IF h \in Sequential THEN NumberId(c, k) ELSE PairId(c)
<1>5. r.at = q.at <=> /\ f = g /\ a.template = b.template
                      /\ salt(f, a, n) = salt(g, b, m)
  BY <1>2, <1>4 DEF Record, HostAddr
<1>6. r.of = q.of <=> f = g /\ id(f, a, n) = id(g, b, m)
  BY <1>2, <1>4 DEF Record
<1> SUFFICES ASSUME f = g
             PROVE  id(f, a, n) = id(g, b, m) <=>
                      /\ a.template = b.template
                      /\ salt(f, a, n) = salt(g, b, m)
  BY <1>5, <1>6
<1>7. CASE f \in Sequential
  <2>1. SaltOf(n) = SaltOf(m) <=> n = m
    BY DEF SaltOf, Poseidon2
  <2>2. NumberId(a, n) = NumberId(b, m) <=> a.template = b.template /\ {n} = {m}
    BY DEF NumberId
  <2>3. {n} = {m} <=> n = m
    OBVIOUS
  <2>4. /\ id(f, a, n) = NumberId(a, n) /\ id(g, b, m) = NumberId(b, m)
        /\ salt(f, a, n) = SaltOf(n) /\ salt(g, b, m) = SaltOf(m)
    BY <1>7
  <2> HIDE DEF id, salt
  <2> QED
    BY <2>1, <2>2, <2>3, <2>4
<1>8. CASE f \notin Sequential
  <2>1. /\ a.pair[1] \in Token /\ a.pair[2] \in Token
        /\ b.pair[1] \in Token /\ b.pair[2] \in Token
    BY <1>8, AskedPair
  <2>2. PairId(a) = PairId(b) <=> /\ a.template = b.template
                                  /\ {a.pair[1], a.pair[2]} = {b.pair[1], b.pair[2]}
    BY DEF PairId
  <2>3. salt(f, a, n) = salt(g, b, m) <=>
          {a.pair[1], a.pair[2]} = {b.pair[1], b.pair[2]}
    <3>1. SaltOfUnorderedPair(a.pair[1], a.pair[2])
            = SaltOfUnorderedPair(b.pair[1], b.pair[2]) <=>
            {a.pair[1], a.pair[2]} = {b.pair[1], b.pair[2]}
      <4> DEFINE p == a.pair[1]  o == a.pair[2]  u == b.pair[1]  v == b.pair[2]
      <4>1. p \in Token /\ o \in Token /\ u \in Token /\ v \in Token
        BY <2>1
      <4> HIDE DEF p, o, u, v
      <4>2. SaltOfUnorderedPair(p, o) = SaltOfUnorderedPair(u, v) <=> {p, o} = {u, v}
        BY <4>1, SaltOfPairExact
      <4> QED
        BY <4>2 DEF p, o, u, v
    <3>2. /\ salt(f, a, n) = SaltOfUnorderedPair(a.pair[1], a.pair[2])
          /\ salt(g, b, m) = SaltOfUnorderedPair(b.pair[1], b.pair[2])
      BY <1>8
    <3> QED
      BY <3>1, <3>2
  <2>4. id(f, a, n) = PairId(a) /\ id(g, b, m) = PairId(b)
    BY <1>8
  <2> HIDE DEF id, salt
  <2> QED
    BY <2>2, <2>3, <2>4
<1> QED
  BY <1>7, <1>8

LEMMA RecordOne ==
  ASSUME NEW r \in Genuine, NEW q \in Genuine, r.at = q.at \/ r.of = q.of
  PROVE  r = q
<1>1. r.at = q.at /\ r.of = q.of
  BY RecordExact
<1>2. /\ \E f, a, n : r = Record(f, a, n)
      /\ \E f, a, n : q = Record(f, a, n)
  BY GenuineIs
<1>3. r = [of |-> r.of, at |-> r.at] /\ q = [of |-> q.of, at |-> q.at]
  BY <1>2 DEF Record
<1> QED
  BY <1>1, <1>3

-----------------------------------------------------------------------------
(* Balances *)

Account == Maker \cup {Payer}
Ledger  ==
  UNION {[S -> Nat] : S \in {T \in SUBSET (Account \cup AddressSpace) : Account \subseteq T}}
Holding(bal, a) == IF a \in DOMAIN bal THEN bal[a] ELSE 0

LEMMA LedgerIs ==
  ASSUME NEW bal \in Ledger
  PROVE  /\ Account \subseteq DOMAIN bal
         /\ DOMAIN bal \subseteq Account \cup AddressSpace
         /\ bal \in [DOMAIN bal -> Nat]
         /\ \A a \in Account : bal[a] \in Nat
         /\ \A a : Holding(bal, a) \in Nat
BY DEF Ledger, Holding

\* A payment to an address that is no account's.
LEMMA PayEffect ==
  ASSUME NEW bal \in Ledger, NEW from \in Account, NEW to \in AddressSpace,
         NEW v \in Nat, v <= bal[from]
  PROVE  /\ Pay(bal, from, to, v) \in Ledger
         /\ Pay(bal, from, to, v)[from] = bal[from] - v
         /\ \A a \in Account \ {from} : Pay(bal, from, to, v)[a] = bal[a]
         /\ Holding(Pay(bal, from, to, v), to) >= v
         /\ v > 0 => Holding(Pay(bal, from, to, v), to) > 0
         /\ \A a \in AddressSpace : Holding(bal, a) <= Holding(Pay(bal, from, to, v), a)
<1> DEFINE p == Pay(bal, from, to, v)
           S == DOMAIN bal \cup {to}
<1>1. /\ Account \subseteq DOMAIN bal
      /\ DOMAIN bal \subseteq Account \cup AddressSpace
      /\ \A a \in DOMAIN bal : bal[a] \in Nat
  BY LedgerIs
<1>2. from \in DOMAIN bal /\ from # to /\ from \notin AddressSpace
  BY <1>1, AddressAssumption DEF Account
<1>3. p = [a \in S |-> Holding(bal, a) + (IF a = to THEN v ELSE 0)
                                   - (IF a = from THEN v ELSE 0)]
  BY DEF Pay, Holding
<1>4. \A a \in S : Holding(bal, a) \in Nat
  BY <1>1 DEF Holding
<1> HIDE DEF p
<1>5. /\ DOMAIN p = S
      /\ \A a \in S : p[a] = Holding(bal, a) + (IF a = to THEN v ELSE 0)
                                         - (IF a = from THEN v ELSE 0)
  BY <1>3
<1>6. p[from] = bal[from] - v /\ p[from] \in Nat
  BY <1>1, <1>2, <1>5 DEF Holding
<1>7. \A a \in S \ {from} : p[a] \in Nat /\ p[a] >= Holding(bal, a)
  BY <1>4, <1>5
<1>8. p[to] = Holding(bal, to) + v /\ p[to] \in Nat /\ to \in S
  BY <1>2, <1>4, <1>5
<1>9. p \in [S -> Nat]
  BY <1>3, <1>5, <1>6, <1>7
<1>10. p \in Ledger
  <2>1. S \in SUBSET (Account \cup AddressSpace) /\ Account \subseteq S
    BY <1>1
  <2> QED
    BY <1>9, <2>1 DEF Ledger
<1>11. \A a \in Account \ {from} : p[a] = bal[a]
  <2> SUFFICES ASSUME NEW a \in Account \ {from} PROVE p[a] = bal[a]
    OBVIOUS
  <2>1. a \in DOMAIN bal /\ a # to /\ bal[a] \in Nat
    BY <1>1, AddressAssumption DEF Account
  <2> QED
    BY <1>5, <2>1 DEF Holding
<1>12. Holding(p, to) >= v /\ (v > 0 => Holding(p, to) > 0)
  <2>1. Holding(p, to) = Holding(bal, to) + v /\ Holding(bal, to) \in Nat
    BY <1>4, <1>5, <1>8 DEF Holding
  <2> QED
    BY <2>1
<1>13. \A a \in AddressSpace : Holding(bal, a) <= Holding(p, a)
  <2> SUFFICES ASSUME NEW a \in AddressSpace PROVE Holding(bal, a) <= Holding(p, a)
    OBVIOUS
  <2>1. CASE a \in S
    <3>1. Holding(p, a) = p[a] /\ a # from
      BY <1>2, <1>5, <2>1 DEF Holding
    <3> QED
      BY <1>4, <1>7, <2>1, <3>1
  <2>2. CASE a \notin S
    BY <1>5, <2>2 DEF Holding
  <2> QED
    BY <2>1, <2>2
<1> QED
  BY <1>6, <1>10, <1>11, <1>12, <1>13 DEF p

-----------------------------------------------------------------------------
(* What a wrapper answers *)

AnswerTag ==
  {"None", "Ok", "Exists", "CtorReverted", "TemplateNotFound", "CtorMismatch",
   "PrefixCollision", "CapExceeded", "InsufficientBalance", "Unexpected", "Halt"}
Answer == [tag : AnswerTag, addr : AddressSpace \cup {Zero}, data : Bytes]

IsOutcome(io) ==
  /\ io.status \in InstantiateStatus /\ io.addr \in AddressSpace \cup {Zero}
  /\ io.outLen \in Nat /\ io.cap \in Nat /\ io.sent \in Bytes

LEMMA OutcomeIs ==
  ASSUME NEW status \in InstantiateStatus, NEW addr \in AddressSpace \cup {Zero},
         NEW outLen \in Nat, NEW sent \in Bytes, NEW cap \in Nat
  PROVE  /\ IsOutcome(Outcome(status, addr, outLen, sent, cap))
         /\ Outcome(status, addr, outLen, sent, cap).status = status
         /\ Outcome(status, addr, outLen, sent, cap).addr = addr
         /\ Outcome(status, addr, outLen, sent, cap).outLen = outLen
         /\ Outcome(status, addr, outLen, sent, cap).sent = sent
         /\ Outcome(status, addr, outLen, sent, cap).cap = cap
BY DEF IsOutcome, Outcome

LEMMA BytesMade ==
  ASSUME NEW src \in Source, NEW n \in Nat
  PROVE  Made(src, n) \in Bytes /\ Made(src, n).len = n
BY DEF Made, NoBytes, Bytes, Source

LEMMA PayloadType ==
  ASSUME NEW io, IsOutcome(io)
  PROVE  Payload(io) \in Bytes
<1>1. /\ io.sent.src \in Source /\ io.outLen \in Nat /\ io.cap \in Nat
      /\ "pad" \in Source
  BY DEF IsOutcome, Bytes, Source
<1>2. Least(io.outLen, io.cap) \in Nat
  BY <1>1 DEF Least
<1> QED
  BY <1>1, <1>2, BytesMade DEF Payload, Read

LEMMA AnswerIs ==
  ASSUME NEW sdk, NEW style, NEW io, IsOutcome(io)
  PROVE  /\ WrapInstantiate(sdk, style, io) \in Answer
         /\ WrapInstantiate(sdk, style, io).tag \in {"Ok", "Exists"} =>
              WrapInstantiate(sdk, style, io).addr = io.addr
         /\ WrapInstantiate(sdk, style, io).tag = "Ok" <=> io.status = StatusOk
         /\ WrapInstantiate(sdk, style, io).tag = "Exists" =>
              io.status = AddressOccupied
<1> DEFINE Fits(r) == /\ r \in Answer
                      /\ r.tag \in {"Ok", "Exists"} => r.addr = io.addr
                      /\ r.tag = "Ok" <=> io.status = StatusOk
                      /\ r.tag = "Exists" => io.status = AddressOccupied
<1>1. io.status \in InstantiateStatus /\ io.addr \in AddressSpace \cup {Zero}
  BY DEF IsOutcome
<1>2. /\ Payload(io) \in Bytes /\ NoBytes \in Bytes
      /\ Made("generic", 1) \in Bytes /\ Made("named", 1) \in Bytes
  BY PayloadType, BytesMade DEF NoBytes, Bytes, Source
<1>3. /\ StatusTag(io.status) \in AnswerTag \ {"None", "Halt"}
      /\ StatusTag(io.status) = "Ok" <=> io.status = StatusOk
      /\ StatusTag(io.status) = "Exists" <=> io.status = AddressOccupied
      /\ StatusTag(io.status) = "CtorReverted" <=> io.status = CtorReverted
  BY <1>1 DEF StatusTag, AnswerTag, InstantiateStatus, StatusOk, CtorReverted,
              AddressOccupied, TemplateNotFound, CtorMismatch, PrefixCollision,
              CapExceeded, InsufficientBalance
<1>4. StatusOk # AddressOccupied /\ StatusOk # CtorReverted /\ AddressOccupied # CtorReverted
  BY DEF StatusOk, AddressOccupied, CtorReverted
<1> HIDE DEF Fits
<1>5. Fits(GoInstantiate(io)) /\ Fits(AsInstantiate(io))
  BY <1>1, <1>2, <1>3 DEF Fits, GoInstantiate, AsInstantiate, Seen, Answer
<1>6. Fits(RustInstantiate(io))
  BY <1>1, <1>2, <1>3, <1>4 DEF Fits, RustInstantiate, Child, NoChild, Answer, AnswerTag
<1>7. ASSUME NEW r, Fits(r), NEW text \in {"generic", "named"}
      PROVE  Fits(ForwardedInstantiate(r, text))
  <2>1. r.data \in Bytes /\ Made(text, 1) \in Bytes
    BY <1>2, <1>7 DEF Fits, Answer
  <2> QED
    BY <1>1, <1>2, <1>4, <1>7, <2>1
       DEF Fits, ForwardedInstantiate, Child, NoChild, Answer, AnswerTag
<1>8. Fits(WrapInstantiate(sdk, style, io))
  BY <1>5, <1>6, <1>7 DEF WrapInstantiate
<1> QED
  BY <1>8 DEF Fits

-----------------------------------------------------------------------------
(* The inductive invariant *)

Chain ==
  [child : SUBSET Genuine, bal : Ledger, book : SUBSET Genuine,
   paid : [Maker -> Nat], next : [Maker -> Nat], sent : SUBSET Genuine]

FrameType ==
  [kind : {"create", "ctor"}, self : Maker \cup AddressSpace, ask : Ask,
   pc : {"run", "call", "halt"}, value : {0, 1}, style : InstantiateStyle,
   entry : Chain, before : Chain, last : Answer, sent : Bytes]

KindAt(d) == IF d % 2 = 1 THEN "create" ELSE "ctor"

Stack ==
  /\ depth \in 0 .. MaxDepth /\ made \in 0 .. MaxPerTx
  /\ frame \in [Depths -> FrameType \cup {NoFrame}]
  /\ \A d \in 1 .. depth : frame[d] \in FrameType /\ frame[d].kind = KindAt(d)
  /\ \A d \in Depths : d > depth => frame[d] = NoFrame

\* A book names children, and what was paid in advance is there.
GoodWorld(w) ==
  /\ w \in Chain
  /\ w.book \subseteq w.child
  /\ \A s \in w.sent : Holding(w.bal, s.at) > 0

Worlds == GoodWorld(world) /\ \A d \in 1 .. depth : GoodWorld(frame[d].entry)

\* The world that frame d has made so far, as the frame above found it.
After(d) == IF d < depth THEN frame[d + 1].entry ELSE world

\* Nothing that a running frame does takes from what was there before it.
Grow(u, w) ==
  /\ u.child \subseteq w.child /\ u.book \subseteq w.book
  /\ \A a \in AddressSpace : Holding(u.bal, a) <= Holding(w.bal, a)

Grows == \A e \in 1 .. depth : \A d \in 1 .. e : Grow(frame[d].entry, After(e))

Answered(fr) == fr.last.tag \in {"Ok", "Exists"}

\* Only Go reads the buffer whatever the status.
NoGoFactory == \A f \in Maker : SdkOf[f] # "go"

\* The bytes a factory's author was last given are those its constructor sent.
Honest(fr) ==
  LET d == fr.last.data
  IN  d # NoBytes =>
        \/ /\ d.src = "rev" /\ fr.last.tag \in {"CtorReverted", "Halt"}
           /\ PrefixOf(d, fr.sent)
        \/ /\ d.src = "ret" /\ fr.last.tag = "Ok" /\ SdkOf[fr.self] = "as"
           /\ PrefixOf(d, fr.sent)
        \/ d.src \in {"generic", "named"} /\ fr.last.tag = "Halt"

MakerFrame(fr, top) ==
  /\ fr.self \in Maker /\ fr.ask \in Asked(fr.self)
  /\ NoGoFactory => Honest(fr)
  /\ top => fr.pc \in {"run", "halt"}
  /\ ~ top => fr.pc = "call" /\ ~ Answered(fr)

Born(w, c, v) == c \in w.child /\ Holding(w.bal, c.at) >= v

\* A constructor's frame: m is its maker's, and w what it has done so far.
CtorFrame(fr, m, w) ==
  /\ fr.pc = "run" /\ fr.last = NothingYet
  /\ fr.self = ChildOf(m.self, m.ask, fr.entry).at
  /\ m.before = fr.entry
  /\ ~ Exists(fr.entry, fr.self)
  /\ Born(w, ChildOf(m.self, m.ask, fr.entry), m.value)

Frames ==
  \A d \in 1 .. depth :
    IF frame[d].kind = "create" THEN MakerFrame(frame[d], d = depth)
    ELSE CtorFrame(frame[d], frame[d - 1], After(d))

\* A factory that numbers its children has the same number to give as when
\* it called the constructor that runs above it.
Numbered ==
  \A e \in 1 .. depth : \A d \in 1 .. e - 1 :
    frame[d].self \in Sequential =>
      After(e).next[frame[d].self] = frame[d + 1].entry.next[frame[d].self]

Alone ==
  \A d, e \in 1 .. depth :
    d # e /\ frame[d].self \in Maker /\ frame[d].self = frame[e].self =>
      frame[d].self \in Reentrant

\* What a factory has been told and not yet dealt with.
Got ==
  depth > 0 /\ Answered(Top) =>
    LET c == ChildOf(Top.self, Top.ask, world)
    IN  /\ Top.kind = "create"
        /\ Top.last.addr = c.at
        /\ c \in world.child
        /\ Top.last.tag = "Ok" => /\ ~ Exists(Top.before, c.at)
                                  /\ Born(world, c, Top.value)
                                  /\ \A d \in 1 .. depth : frame[d].self # c.at

\* What the lowest k frames of a stack hold for a factory.
HeldTo(f, st, k) == SumOn([d \in 1 .. k |-> Pending(f, st[d])], 1 .. k)

Level(f, w, st, k) == w.bal[f] + w.paid[f] + HeldTo(f, st, k) = Supply

\* The frames whose pending value a frame's undo point is short of: a
\* constructor's is from before its maker paid.
Under(d) == IF d % 2 = 1 THEN d - 1 ELSE d - 2

Balanced ==
  \A f \in Maker :
    /\ Level(f, world, frame, depth)
    /\ \A d \in 1 .. depth : Level(f, frame[d].entry, frame, Under(d))

FInv ==
  Stack /\ Worlds /\ Grows /\ Frames /\ Numbered /\ Alone /\ Got /\ Balanced

\* What a step does not change: the undo points of the frames that it leaves.
Kept == \A d \in 1 .. depth : d <= depth' => frame'[d].entry = frame[d].entry

-----------------------------------------------------------------------------

LEMMA ChainIs ==
  ASSUME NEW w \in Chain
  PROVE  /\ w.child \subseteq Genuine /\ w.book \subseteq Genuine
         /\ w.sent \subseteq Genuine /\ w.bal \in Ledger
         /\ w.paid \in [Maker -> Nat] /\ w.next \in [Maker -> Nat]
         /\ \A a : Holding(w.bal, a) \in Nat
<1>1. w.bal \in Ledger
  BY DEF Chain
<1> QED
  BY <1>1, LedgerIs DEF Chain

LEMMA GrowTrans ==
  ASSUME NEW u \in Chain, NEW v \in Chain, NEW w \in Chain, Grow(u, v), Grow(v, w)
  PROVE  Grow(u, w)
<1>1. \A a : Holding(u.bal, a) \in Nat /\ Holding(v.bal, a) \in Nat /\ Holding(w.bal, a) \in Nat
  BY ChainIs
<1>2. \A a \in AddressSpace : Holding(u.bal, a) <= Holding(w.bal, a)
  BY <1>1 DEF Grow
<1> QED
  BY <1>2 DEF Grow

LEMMA GrowSelf == ASSUME NEW w \in Chain PROVE Grow(w, w)
<1>1. \A a : Holding(w.bal, a) \in Nat
  BY ChainIs
<1> QED
  BY <1>1 DEF Grow

LEMMA BornGrows ==
  ASSUME NEW u \in Chain, NEW w \in Chain, Grow(u, w), NEW c, NEW v \in {0, 1},
         Born(u, c, v)
  PROVE  Born(w, c, v)
<1>1. Holding(u.bal, c.at) \in Nat /\ Holding(w.bal, c.at) \in Nat
  BY ChainIs
<1>2. c \in Genuine
  BY ChainIs DEF Born
<1>3. c.at \in AddressSpace
  BY <1>2, GenuineAt
<1> QED
  BY <1>1, <1>3 DEF Grow, Born

\* Of two worlds that agree on a factory's number, if it has one.
LEMMA ChildSame ==
  ASSUME NEW f, NEW a, NEW u, NEW w, f \in Sequential => u.next[f] = w.next[f]
  PROVE  ChildOf(f, a, u) = ChildOf(f, a, w)
BY DEF ChildOf, Record

LEMMA TopIs ==
  ASSUME Stack, Worlds, depth > 0
  PROVE  /\ depth \in Depths /\ depth \in Nat /\ depth \in 1 .. depth
         /\ Top \in FrameType /\ Top = frame[depth]
         /\ world \in Chain /\ Top.entry \in Chain /\ GoodWorld(Top.entry)
         /\ After(depth) = world
BY FactoryAssumption DEF Stack, Worlds, GoodWorld, Depths, Top, FrameType, After

LEMMA AfterIs ==
  ASSUME Stack, Worlds, NEW d \in 1 .. depth
  PROVE  After(d) \in Chain /\ frame[d].entry \in Chain /\ d \in Depths
<1>1. d \in Depths /\ frame[d].entry \in Chain /\ world \in Chain
  BY FactoryAssumption DEF Stack, Worlds, GoodWorld, Depths, FrameType
<1>2. d < depth => d + 1 \in 1 .. depth
  BY DEF Stack
<1> QED
  BY <1>1, <1>2 DEF Stack, FrameType, After

LEMMA PendingIs ==
  ASSUME NEW f, NEW fr \in FrameType
  PROVE  Pending(f, fr) \in {0, 1}
BY DEF Pending, FrameType

LEMMA HeldIs ==
  ASSUME NEW f, NEW st, NEW k \in Nat, \A d \in 1 .. k : st[d] \in FrameType
  PROVE  /\ HeldTo(f, st, k) \in Int
         /\ k = 0 => HeldTo(f, st, k) = 0
         /\ \A m \in Nat : m = k - 1 =>
              HeldTo(f, st, k) = HeldTo(f, st, m) + Pending(f, st[k])
<1> DEFINE g == [d \in 1 .. k |-> Pending(f, st[d])]
<1>1. IsFiniteSet(1 .. k) /\ \A d \in 1 .. k : g[d] \in Int
  BY FS_Interval, PendingIs
<1>2. HeldTo(f, st, k) \in Int /\ (k = 0 => HeldTo(f, st, k) = 0)
  <2>1. HeldTo(f, st, k) = SumOn(g, 1 .. k)
    BY DEF HeldTo
  <2>2. CASE k = 0
    <3>1. 1 .. k = {}
      BY <2>2
    <3> QED
      BY <2>1, <3>1, SumEmpty
  <2>3. CASE k # 0
    <3>1. k \in 1 .. k
      BY <2>3
    <3> HIDE DEF g
    <3> QED
      BY <1>1, <2>1, <2>3, <3>1, SumRemove
  <2> QED
    BY <2>2, <2>3
<1>3. ASSUME NEW m \in Nat, m = k - 1
      PROVE  HeldTo(f, st, k) = HeldTo(f, st, m) + Pending(f, st[k])
  <2> DEFINE h == [d \in 1 .. m |-> Pending(f, st[d])]
  <2>1. /\ k \in 1 .. k /\ (1 .. k) \ {k} = 1 .. m /\ g[k] = Pending(f, st[k])
        /\ \A d \in 1 .. m : d \in 1 .. k
    BY <1>3
  <2>2. /\ IsFiniteSet(1 .. m) /\ \A d \in 1 .. m : g[d] \in Int
        /\ \A d \in 1 .. m : g[d] = h[d]
    <3>1. IsFiniteSet(1 .. m)
      BY FS_Interval
    <3>2. \A d \in 1 .. m : g[d] = h[d]
      BY <2>1
    <3> HIDE DEF g, h
    <3> QED
      BY <1>1, <2>1, <3>1, <3>2
  <2>3. HeldTo(f, st, k) = SumOn(g, 1 .. k) /\ HeldTo(f, st, m) = SumOn(h, 1 .. m)
    BY DEF HeldTo
  <2> HIDE DEF g, h
  <2>4. /\ SumOn(g, 1 .. k) = g[k] + SumOn(g, (1 .. k) \ {k})
        /\ SumOn(g, (1 .. k) \ {k}) \in Int
    BY <1>1, <2>1, SumRemove
  <2>5. SumOn(g, 1 .. m) = SumOn(h, 1 .. m)
    BY <2>2, SumSame
  <2>6. g[k] \in Int
    BY <1>1, <2>1
  <2>7. SumOn(g, (1 .. k) \ {k}) = SumOn(g, 1 .. m)
    BY <2>1
  <2>8. SumOn(g, 1 .. k) = g[k] + SumOn(h, 1 .. m) /\ SumOn(h, 1 .. m) \in Int
    BY <2>4, <2>5, <2>7
  <2> QED
    BY <2>1, <2>3, <2>6, <2>8
<1> QED
  BY <1>2, <1>3

LEMMA HeldSame ==
  ASSUME NEW f, NEW st, NEW tt, NEW k, \A d \in 1 .. k : st[d] = tt[d]
  PROVE  HeldTo(f, st, k) = HeldTo(f, tt, k)
<1>1. [d \in 1 .. k |-> Pending(f, st[d])] = [d \in 1 .. k |-> Pending(f, tt[d])]
  OBVIOUS
<1> QED
  BY <1>1 DEF HeldTo

LEMMA UnderIs ==
  ASSUME NEW d \in Nat \ {0}
  PROVE  Under(d) \in Nat /\ Under(d) <= d - 1
<1>1. CASE d = 1
  BY <1>1 DEF Under
<1>2. CASE d # 1
  BY <1>2 DEF Under
<1> QED
  BY <1>1, <1>2

(* A step that leaves the lowest k frames, and may change the last of them. *)
LEMMA StackStep ==
  ASSUME FInv, NEW k \in 0 .. depth, depth' = k, made' \in 0 .. MaxPerTx,
         frame' \in [Depths -> FrameType \cup {NoFrame}],
         \A d \in 1 .. k - 1 : frame'[d] = frame[d],
         \A d \in Depths : d > k => frame'[d] = NoFrame,
         k > 0 => /\ frame'[k] \in FrameType
                  /\ frame'[k].kind = frame[k].kind
                  /\ frame'[k].self = frame[k].self
                  /\ frame'[k].ask = frame[k].ask
                  /\ frame'[k].entry = frame[k].entry
                  /\ frame[k].kind = "create" =>
                       /\ frame'[k].pc \in {"run", "halt"}
                       /\ NoGoFactory => Honest(frame'[k])
                  /\ frame[k].kind = "ctor" => frame'[k] = frame[k]
                  /\ Grow(After(k), world')
                  /\ \A d \in 1 .. k - 1 :
                       frame[d].self \in Sequential =>
                         world'.next[frame[d].self] = After(k).next[frame[d].self],
         GoodWorld(world'), Got',
         \A f \in Maker : Level(f, world', frame', k)
  PROVE  FInv' /\ Kept
<1> USE DEF FInv
<1>1. /\ depth \in Nat /\ MaxDepth \in Nat /\ depth <= MaxDepth /\ k \in Nat
      /\ \A d \in 1 .. k : d \in 1 .. depth /\ d \in Depths
  BY FactoryAssumption DEF Stack, Depths
<1>2. \A d \in 1 .. k : /\ frame'[d] \in FrameType
                        /\ frame'[d].kind = frame[d].kind
                        /\ frame'[d].self = frame[d].self
                        /\ frame'[d].ask = frame[d].ask
                        /\ frame'[d].entry = frame[d].entry
  <2> SUFFICES ASSUME NEW d \in 1 .. k
               PROVE  /\ frame'[d] \in FrameType
                      /\ frame'[d].kind = frame[d].kind
                      /\ frame'[d].self = frame[d].self
                      /\ frame'[d].ask = frame[d].ask
                      /\ frame'[d].entry = frame[d].entry
    OBVIOUS
  <2>1. CASE d = k
    BY <2>1
  <2>2. CASE d # k
    <3>1. frame'[d] = frame[d] /\ d \in 1 .. depth
      BY <1>1, <2>2
    <3> QED
      BY <3>1 DEF Stack
  <2> QED
    BY <2>1, <2>2
<1>3. Stack'
  BY <1>1, <1>2 DEF Stack
<1>4. Worlds'
  BY <1>1, <1>2 DEF Worlds
<1>5. \A e \in 1 .. k - 1 : After(e)' = After(e)
  <2> SUFFICES ASSUME NEW e \in 1 .. k - 1 PROVE After(e)' = After(e)
    OBVIOUS
  <2>1. e < depth /\ e < depth' /\ e + 1 \in 1 .. k
    BY <1>1
  <2> QED
    BY <1>2, <2>1 DEF After
<1>6. k > 0 => After(k)' = world' /\ world' \in Chain /\ After(k) \in Chain
  BY <1>1, AfterIs DEF After, GoodWorld
<1>7. Grows'
  <2> SUFFICES ASSUME NEW e \in 1 .. k, NEW d \in 1 .. e
               PROVE  Grow(frame'[d].entry, After(e)')
    BY DEF Grows
  <2>1. /\ d \in 1 .. k /\ d \in 1 .. depth /\ e \in 1 .. depth
        /\ frame'[d].entry = frame[d].entry /\ frame[d].entry \in Chain
    BY <1>1, <1>2, AfterIs
  <2>2. Grow(frame[d].entry, After(e))
    BY <2>1 DEF Grows
  <2>3. CASE e = k
    BY <1>6, <2>1, <2>2, <2>3, GrowTrans
  <2>4. CASE e # k
    BY <1>1, <1>5, <2>1, <2>2, <2>4
  <2> QED
    BY <2>3, <2>4
<1>8. Frames'
  <2> SUFFICES ASSUME NEW d \in 1 .. k
               PROVE  IF frame'[d].kind = "create" THEN MakerFrame(frame'[d], d = depth')
                      ELSE CtorFrame(frame'[d], frame'[d - 1], After(d)')
    BY DEF Frames
  <2>1. /\ d \in 1 .. depth /\ frame[d] \in FrameType /\ frame'[d].kind = frame[d].kind
        /\ d # k => d \in 1 .. k - 1 /\ frame'[d] = frame[d] /\ d # depth
    BY <1>1, <1>2 DEF Stack
  <2>2. CASE frame[d].kind = "create"
    <3>1. MakerFrame(frame[d], d = depth)
      BY <2>1, <2>2 DEF Frames
    <3>2. ASSUME d = k PROVE MakerFrame(frame'[d], TRUE)
      BY <1>2, <2>2, <3>1, <3>2 DEF MakerFrame
    <3>3. ASSUME d # k PROVE MakerFrame(frame'[d], FALSE)
      BY <2>1, <3>1, <3>3 DEF MakerFrame
    <3> QED
      BY <2>1, <2>2, <3>2, <3>3 DEF MakerFrame
  <2>3. CASE frame[d].kind # "create"
    <3>1. CtorFrame(frame[d], frame[d - 1], After(d))
      BY <2>1, <2>3 DEF Frames
    <3>2. frame[d].kind = "ctor" /\ frame'[d] = frame[d]
      BY <2>1, <2>3 DEF FrameType
    <3>3. d # 1 /\ d - 1 \in 1 .. k - 1 /\ d - 1 \in 1 .. depth
      BY <1>1, <2>1, <2>3 DEF Stack, KindAt
    <3>4. frame'[d - 1] = frame[d - 1] /\ frame[d - 1].value \in {0, 1}
      BY <3>3 DEF Stack, FrameType
    <3>5. Grow(After(d), After(d)') /\ After(d) \in Chain /\ After(d)' \in Chain
      BY <1>1, <1>5, <1>6, <2>1, AfterIs, GrowSelf
    <3>6. CtorFrame(frame[d], frame[d - 1], After(d)')
      BY <3>1, <3>4, <3>5, BornGrows DEF CtorFrame
    <3> QED
      BY <2>1, <2>3, <3>2, <3>4, <3>6
  <2> QED
    BY <2>2, <2>3
<1>9. Numbered'
  <2> SUFFICES ASSUME NEW e \in 1 .. k, NEW d \in 1 .. e - 1, frame'[d].self \in Sequential
               PROVE  After(e)'.next[frame'[d].self] = frame'[d + 1].entry.next[frame'[d].self]
    BY DEF Numbered
  <2>1. /\ d \in 1 .. k /\ d + 1 \in 1 .. k /\ e \in 1 .. depth
        /\ frame'[d].self = frame[d].self /\ frame'[d + 1].entry = frame[d + 1].entry
    BY <1>1, <1>2
  <2>2. After(e).next[frame[d].self] = frame[d + 1].entry.next[frame[d].self]
    BY <2>1 DEF Numbered
  <2>3. CASE e = k
    BY <1>6, <2>1, <2>2, <2>3
  <2>4. CASE e # k
    BY <1>1, <1>5, <2>1, <2>2, <2>4
  <2> QED
    BY <2>3, <2>4
<1>10. Alone'
  BY <1>1, <1>2 DEF Alone
<1>11. Balanced'
  <2> SUFFICES ASSUME NEW f \in Maker, NEW d \in 1 .. k
               PROVE  Level(f, frame'[d].entry, frame', Under(d))
    BY DEF Balanced
  <2>1. d \in 1 .. depth /\ frame'[d].entry = frame[d].entry
    BY <1>1, <1>2
  <2>2. \A i \in 1 .. Under(d) : frame'[i] = frame[i]
    <3>1. Under(d) \in Nat /\ Under(d) <= d - 1 /\ d <= k
      BY UnderIs
    <3>2. \A i \in 1 .. Under(d) : i \in 1 .. k - 1
      BY <1>1, <3>1
    <3> QED
      BY <3>2
  <2>3. HeldTo(f, frame', Under(d)) = HeldTo(f, frame, Under(d))
    BY <2>2, HeldSame
  <2>4. Level(f, frame[d].entry, frame, Under(d))
    BY <2>1 DEF Balanced
  <2> QED
    BY <2>1, <2>3, <2>4 DEF Level
<1>12. Kept
  BY <1>1, <1>2 DEF Kept
<1> QED
  BY <1>3, <1>4, <1>7, <1>8, <1>9, <1>10, <1>11, <1>12

(* A step that adds a frame, on the world as it was.                       *)
LEMMA PushStep ==
  ASSUME FInv, depth < MaxDepth, depth' = depth + 1, made' \in 0 .. MaxPerTx,
         frame' \in [Depths -> FrameType \cup {NoFrame}],
         \A d \in 1 .. depth - 1 : frame'[d] = frame[d],
         \A d \in Depths : d > depth + 1 => frame'[d] = NoFrame,
         depth > 0 => /\ frame'[depth] \in FrameType
                      /\ frame'[depth].kind = frame[depth].kind
                      /\ frame'[depth].self = frame[depth].self
                      /\ frame'[depth].ask = frame[depth].ask
                      /\ frame'[depth].entry = frame[depth].entry
                      /\ frame[depth].kind = "create" =>
                           /\ frame'[depth].pc = "call" /\ ~ Answered(frame'[depth])
                           /\ frame'[depth].last = frame[depth].last
                           /\ frame'[depth].sent = frame[depth].sent
                      /\ frame[depth].kind = "ctor" => frame'[depth] = frame[depth],
         NEW new \in FrameType, frame'[depth + 1] = new,
         new.kind = KindAt(depth + 1), new.entry = world, ~ Answered(new),
         new.kind = "create" =>
           /\ MakerFrame(new, TRUE)
           /\ new.self \in Reentrant \/ \A d \in 1 .. depth : frame[d].self # new.self,
         new.kind = "ctor" => /\ new.self \notin Maker
                              /\ CtorFrame(new, frame'[depth], world'),
         GoodWorld(world'), Grow(world, world'), world'.next = world.next,
         \A f \in Maker : /\ Level(f, world', frame', depth + 1)
                          /\ Level(f, world, frame', Under(depth + 1))
  PROVE  FInv' /\ Kept
<1> USE DEF FInv
<1>1. /\ depth \in Nat /\ MaxDepth \in Nat /\ depth <= MaxDepth
      /\ \A d \in 1 .. depth + 1 : d \in Depths
      /\ \A d \in 1 .. depth + 1 : d \in 1 .. depth \/ d = depth + 1
  BY FactoryAssumption DEF Stack, Depths
<1>2. \A d \in 1 .. depth : /\ frame'[d] \in FrameType
                            /\ frame'[d].kind = frame[d].kind
                            /\ frame'[d].self = frame[d].self
                            /\ frame'[d].ask = frame[d].ask
                            /\ frame'[d].entry = frame[d].entry
  <2> SUFFICES ASSUME NEW d \in 1 .. depth
               PROVE  /\ frame'[d] \in FrameType
                      /\ frame'[d].kind = frame[d].kind
                      /\ frame'[d].self = frame[d].self
                      /\ frame'[d].ask = frame[d].ask
                      /\ frame'[d].entry = frame[d].entry
    OBVIOUS
  <2>1. CASE d = depth
    BY <1>1, <2>1
  <2>2. CASE d # depth
    <3>1. frame'[d] = frame[d]
      BY <1>1, <2>2
    <3> QED
      BY <3>1 DEF Stack
  <2> QED
    BY <2>1, <2>2
<1>3. Stack'
  <2>1. \A d \in 1 .. depth + 1 : frame'[d] \in FrameType /\ frame'[d].kind = KindAt(d)
    BY <1>1, <1>2 DEF Stack
  <2> QED
    BY <1>1, <2>1 DEF Stack
<1>4. world \in Chain /\ world' \in Chain /\ GoodWorld(world)
  BY DEF Worlds, GoodWorld
<1>5. Worlds'
  <2>1. \A d \in 1 .. depth + 1 : GoodWorld(frame'[d].entry)
    BY <1>1, <1>2, <1>4 DEF Worlds
  <2> QED
    BY <2>1 DEF Worlds
<1>6. \A e \in 1 .. depth : After(e)' = After(e)
  <2> SUFFICES ASSUME NEW e \in 1 .. depth PROVE After(e)' = After(e)
    OBVIOUS
  <2>1. e < depth' /\ e + 1 \in 1 .. depth + 1
    BY <1>1
  <2>2. CASE e = depth
    BY <1>1, <2>1, <2>2 DEF After
  <2>3. CASE e # depth
    <3>1. e < depth /\ e + 1 \in 1 .. depth
      BY <1>1, <2>3
    <3> QED
      BY <1>2, <2>1, <3>1 DEF After
  <2> QED
    BY <2>2, <2>3
<1>7. /\ \A e \in Nat : e = depth + 1 => After(e)' = world'
      /\ depth > 0 => After(depth) = world
  BY <1>1 DEF After
<1>8. Grows'
  <2> SUFFICES ASSUME NEW e \in 1 .. depth + 1, NEW d \in 1 .. e
               PROVE  Grow(frame'[d].entry, After(e)')
    BY DEF Grows
  <2>1. CASE e # depth + 1
    <3>1. e \in 1 .. depth /\ d \in 1 .. depth
      BY <1>1, <2>1
    <3>2. Grow(frame[d].entry, After(e)) /\ frame'[d].entry = frame[d].entry
      BY <1>2, <3>1 DEF Grows
    <3> QED
      BY <1>6, <3>1, <3>2
  <2>2. CASE e = depth + 1 /\ d = depth + 1
    BY <1>7, <2>2
  <2>3. CASE e = depth + 1 /\ d # depth + 1
    <3>1. d \in 1 .. depth /\ depth \in 1 .. depth /\ depth > 0 /\ d \in 1 .. depth
      BY <1>1, <2>3
    <3>2. Grow(frame[d].entry, world) /\ frame'[d].entry = frame[d].entry
      BY <1>2, <1>7, <3>1 DEF Grows
    <3>3. frame[d].entry \in Chain
      BY <3>1, AfterIs
    <3> QED
      BY <1>4, <1>7, <2>3, <3>2, <3>3, GrowTrans
  <2> QED
    BY <2>1, <2>2, <2>3
<1>9. Frames'
  <2> SUFFICES ASSUME NEW d \in 1 .. depth + 1
               PROVE  IF frame'[d].kind = "create" THEN MakerFrame(frame'[d], d = depth')
                      ELSE CtorFrame(frame'[d], frame'[d - 1], After(d)')
    BY DEF Frames
  <2>1. CASE d = depth + 1
    <3>1. frame'[d] = new /\ frame'[d - 1] = frame'[depth] /\ d = depth'
      BY <1>1, <2>1
    <3>2. CASE new.kind = "create"
      BY <3>1, <3>2
    <3>3. CASE new.kind # "create"
      <4>1. new.kind = "ctor"
        BY <3>3 DEF FrameType
      <4> QED
        BY <1>7, <2>1, <3>1, <3>3, <4>1
    <3> QED
      BY <3>2, <3>3
  <2>2. CASE d # depth + 1
    <3>1. /\ d \in 1 .. depth /\ d # depth' /\ frame[d] \in FrameType
          /\ frame'[d].kind = frame[d].kind /\ After(d)' = After(d)
      BY <1>1, <1>2, <1>6, <2>2 DEF Stack
    <3>2. d # depth => frame'[d] = frame[d]
      BY <1>1, <3>1
    <3>3. CASE frame[d].kind = "create"
      <4>1. MakerFrame(frame[d], d = depth)
        BY <3>1, <3>3 DEF Frames
      <4>2. /\ frame'[d].pc = "call" /\ ~ Answered(frame'[d])
            /\ frame'[d].last = frame[d].last /\ frame'[d].sent = frame[d].sent
        BY <3>1, <3>2, <3>3, <4>1 DEF MakerFrame
      <4>3. MakerFrame(frame'[d], FALSE)
        BY <1>2, <3>1, <4>1, <4>2 DEF MakerFrame, Honest
      <4> QED
        BY <3>1, <3>3, <4>3 DEF MakerFrame
    <3>4. CASE frame[d].kind # "create"
      <4>1. CtorFrame(frame[d], frame[d - 1], After(d))
        BY <3>1, <3>4 DEF Frames
      <4>2. frame'[d] = frame[d]
        BY <3>1, <3>2, <3>4 DEF FrameType
      <4>3. d # 1 /\ d - 1 \in 1 .. depth - 1
        BY <1>1, <3>1, <3>4 DEF Stack, KindAt
      <4>4. frame'[d - 1] = frame[d - 1]
        BY <4>3
      <4> QED
        BY <3>1, <3>4, <4>1, <4>2, <4>4
    <3> QED
      BY <3>3, <3>4
  <2> QED
    BY <2>1, <2>2
<1>10. Numbered'
  <2> SUFFICES ASSUME NEW e \in 1 .. depth + 1, NEW d \in 1 .. e - 1,
                      frame'[d].self \in Sequential
               PROVE  After(e)'.next[frame'[d].self] = frame'[d + 1].entry.next[frame'[d].self]
    BY DEF Numbered
  <2>1. d \in 1 .. depth /\ frame'[d].self = frame[d].self
    BY <1>1, <1>2
  <2>2. CASE d = depth
    BY <1>1, <1>7, <2>1, <2>2
  <2>3. CASE d # depth
    <3>1. d + 1 \in 1 .. depth /\ depth \in 1 .. depth /\ d \in 1 .. depth - 1
      BY <1>1, <2>1, <2>3
    <3>2. frame'[d + 1].entry = frame[d + 1].entry
      BY <1>2, <3>1
    <3>3. CASE e = depth + 1
      <4>1. After(depth).next[frame[d].self] = frame[d + 1].entry.next[frame[d].self]
        BY <2>1, <3>1 DEF Numbered
      <4> QED
        BY <1>1, <1>7, <2>1, <3>1, <3>2, <3>3, <4>1
    <3>4. CASE e # depth + 1
      <4>1. e \in 1 .. depth
        BY <1>1, <3>4
      <4>2. After(e).next[frame[d].self] = frame[d + 1].entry.next[frame[d].self]
        BY <2>1, <4>1 DEF Numbered
      <4> QED
        BY <1>6, <2>1, <3>2, <4>1, <4>2
    <3> QED
      BY <3>3, <3>4
  <2> QED
    BY <2>2, <2>3
<1>11. Alone'
  <2> SUFFICES ASSUME NEW d \in 1 .. depth + 1, NEW e \in 1 .. depth + 1, d # e,
                      frame'[d].self \in Maker, frame'[d].self = frame'[e].self
               PROVE  frame'[d].self \in Reentrant
    BY DEF Alone
  <2>1. CASE d \in 1 .. depth /\ e \in 1 .. depth
    BY <1>2, <2>1 DEF Alone
  <2>2. CASE d = depth + 1 \/ e = depth + 1
    <3>1. new.self \in Maker /\ frame'[d].self = new.self
      BY <2>2
    <3>2. new.kind = "create"
      BY <3>1 DEF FrameType
    <3>3. \E i \in 1 .. depth : frame[i].self = new.self
      BY <1>1, <1>2, <2>2
    <3> QED
      BY <3>1, <3>2, <3>3
  <2> QED
    BY <1>1, <2>1, <2>2
<1>12. Got'
  <2>1. Top' = new
    BY DEF Top
  <2> QED
    BY <2>1 DEF Got, Answered
<1>13. Balanced'
  <2> SUFFICES ASSUME NEW f \in Maker, NEW d \in 1 .. depth + 1
               PROVE  Level(f, frame'[d].entry, frame', Under(d))
    BY DEF Balanced
  <2>1. CASE d = depth + 1
    BY <2>1
  <2>2. CASE d # depth + 1
    <3>1. d \in 1 .. depth /\ frame'[d].entry = frame[d].entry
      BY <1>1, <1>2, <2>2
    <3>2. \A i \in 1 .. Under(d) : frame'[i] = frame[i]
      <4>1. Under(d) \in Nat /\ Under(d) <= d - 1 /\ d <= depth
        BY <3>1, UnderIs
      <4>2. \A i \in 1 .. Under(d) : i \in 1 .. depth - 1
        BY <1>1, <4>1
      <4> QED
        BY <4>2
    <3>3. HeldTo(f, frame', Under(d)) = HeldTo(f, frame, Under(d))
      BY <3>2, HeldSame
    <3>4. Level(f, frame[d].entry, frame, Under(d))
      BY <3>1 DEF Balanced
    <3> QED
      BY <3>1, <3>3, <3>4 DEF Level
  <2> QED
    BY <2>1, <2>2
<1>14. Kept
  BY <1>1, <1>2 DEF Kept
<1> QED
  BY <1>3, <1>5, <1>8, <1>9, <1>10, <1>11, <1>12, <1>13, <1>14

-----------------------------------------------------------------------------
(* What a factory asks for, and what it is told *)

LEMMA DeliverIs ==
  ASSUME NEW fr \in FrameType, NEW io, IsOutcome(io)
  PROVE  LET new == Deliver(fr, io)
         IN  /\ new \in FrameType
             /\ new.kind = fr.kind /\ new.self = fr.self /\ new.ask = fr.ask
             /\ new.entry = fr.entry /\ new.pc \in {"run", "halt"}
             /\ new.sent = io.sent
             /\ new.last = WrapInstantiate(SdkOf[fr.self], fr.style, io)
             /\ new.last.tag = "Ok" <=> io.status = StatusOk
             /\ new.last.tag = "Exists" => io.status = AddressOccupied
             /\ Answered(new) => new.last.addr = io.addr
             /\ new.last.tag = "Ok" => new.value = fr.value /\ new.before = fr.before
             /\ new.last.tag # "Ok" => new.value = 0
<1> DEFINE r == WrapInstantiate(SdkOf[fr.self], fr.style, io)
<1>1. /\ r \in Answer /\ (r.tag \in {"Ok", "Exists"} => r.addr = io.addr)
      /\ r.tag = "Ok" <=> io.status = StatusOk
      /\ r.tag = "Exists" => io.status = AddressOccupied
  BY AnswerIs
<1>2. io.sent \in Bytes
  BY DEF IsOutcome
<1>3. Deliver(fr, io) =
        [fr EXCEPT !.pc = IF r.tag = "Halt" THEN "halt" ELSE "run",
                   !.last = r, !.sent = io.sent, !.style = "match",
                   !.value  = IF r.tag = "Ok" THEN fr.value ELSE 0,
                   !.before = IF r.tag = "Ok" THEN fr.before ELSE fr.entry]
  BY DEF Deliver
<1> HIDE DEF r
<1>4. Deliver(fr, io) \in FrameType
  BY <1>1, <1>2, <1>3 DEF FrameType, InstantiateStyle
<1>5. LET new == Deliver(fr, io)
      IN  /\ new.kind = fr.kind /\ new.self = fr.self /\ new.ask = fr.ask
          /\ new.entry = fr.entry /\ new.pc \in {"run", "halt"}
          /\ new.sent = io.sent /\ new.last = r
          /\ new.value = IF r.tag = "Ok" THEN fr.value ELSE 0
          /\ new.before = IF r.tag = "Ok" THEN fr.before ELSE fr.entry
  BY <1>3 DEF FrameType
<1> QED
  BY <1>1, <1>4, <1>5 DEF Answered, r

\* The host says how much the constructor sent, and only if it ran.
Told(io) ==
  /\ io.status \in {StatusOk, CtorReverted} => io.outLen <= io.sent.len
  /\ io.status = StatusOk => io.sent = NoBytes \/ io.sent.src = "ret"
  /\ io.status = CtorReverted => io.sent = NoBytes \/ io.sent.src = "rev"

\* Then the payload is the start of what it sent.
LEMMA PayloadIs ==
  ASSUME NEW io, IsOutcome(io), Told(io), io.status \in {StatusOk, CtorReverted},
         Payload(io) # NoBytes
  PROVE  /\ PrefixOf(Payload(io), io.sent)
         /\ Payload(io).src = IF io.status = StatusOk THEN "ret" ELSE "rev"
<1> DEFINE n == Least(io.outLen, io.cap)
<1>1. /\ io.outLen \in Nat /\ io.cap \in Nat /\ io.sent.len \in Nat
      /\ io.outLen <= io.sent.len
  BY DEF IsOutcome, Bytes, Told
<1>2. n \in Nat /\ n <= Least(io.sent.len, io.cap) /\ n <= io.sent.len
  BY <1>1 DEF Least
<1>3. Payload(io) = Made(io.sent.src, n)
  BY <1>2 DEF Payload, Read
<1> HIDE DEF n
<1>4. n # 0 /\ Payload(io).src = io.sent.src /\ Payload(io).len = n
  BY <1>3 DEF Made
<1>5. io.sent # NoBytes
  BY <1>1, <1>2, <1>4 DEF NoBytes
<1>6. StatusOk # CtorReverted
  BY DEF StatusOk, CtorReverted
<1> QED
  BY <1>2, <1>3, <1>4, <1>5, <1>6 DEF PrefixOf, Told

\* An answer's bytes, for a factory on sdk whose constructor sent these.
HonestBytes(r, sent, sdk) ==
  r.data # NoBytes =>
    \/ r.data.src = "rev" /\ r.tag \in {"CtorReverted", "Halt"} /\ PrefixOf(r.data, sent)
    \/ r.data.src = "ret" /\ r.tag = "Ok" /\ sdk = "as" /\ PrefixOf(r.data, sent)
    \/ r.data.src \in {"generic", "named"} /\ r.tag = "Halt"

LEMMA AnswerHonest ==
  ASSUME NEW sdk, sdk # "go", NEW style, NEW io, IsOutcome(io), Told(io)
  PROVE  HonestBytes(WrapInstantiate(sdk, style, io), io.sent, sdk)
<1> DEFINE Fair(r) ==
      r.data # NoBytes =>
        /\ PrefixOf(r.data, io.sent)
        /\ \/ io.status = CtorReverted /\ r.data.src = "rev" /\ r.tag = "CtorReverted"
           \/ io.status = StatusOk /\ r.data.src = "ret" /\ r.tag = "Ok"
<1>1. /\ StatusTag(StatusOk) = "Ok" /\ StatusTag(CtorReverted) = "CtorReverted"
      /\ StatusOk # CtorReverted /\ StatusOk # AddressOccupied
      /\ CtorReverted # AddressOccupied
  BY DEF StatusTag, StatusOk, CtorReverted, AddressOccupied, TemplateNotFound,
         CtorMismatch, PrefixCollision, CapExceeded, InsufficientBalance
<1>2. io.status \in {StatusOk, CtorReverted} /\ Payload(io) # NoBytes =>
        /\ PrefixOf(Payload(io), io.sent)
        /\ Payload(io).src = IF io.status = StatusOk THEN "ret" ELSE "rev"
  BY PayloadIs
<1>3. Fair(AsInstantiate(io))
  BY <1>1, <1>2 DEF AsInstantiate, Seen
<1>4. CASE sdk = "rust"
  <2>1. RustInstantiate(io).data # NoBytes =>
          /\ io.status = CtorReverted /\ RustInstantiate(io).tag = "CtorReverted"
          /\ RustInstantiate(io).data = Payload(io)
    BY <1>1 DEF RustInstantiate, Child, NoChild
  <2> QED
    BY <1>1, <1>2, <1>4, <2>1 DEF HonestBytes, WrapInstantiate
<1>5. CASE sdk = "as" /\ style = "match"
  <2>1. HonestBytes(AsInstantiate(io), io.sent, sdk)
    BY <1>3, <1>5 DEF HonestBytes
  <2> QED
    BY <1>5, <2>1 DEF WrapInstantiate
<1>6. CASE sdk # "rust" /\ ~ (sdk = "as" /\ style = "match")
  <2> DEFINE r == AsInstantiate(io)
  <2>1. Fair(r)
    BY <1>3
  <2> HIDE DEF r
  <2>2. HonestBytes(ForwardedInstantiate(r, "named"), io.sent, sdk)
    <3>1. CASE r.tag = "Ok"
      BY <3>1 DEF HonestBytes, ForwardedInstantiate, Child
    <3>2. CASE r.tag # "Ok" /\ r.data # NoBytes
      BY <2>1, <3>2 DEF HonestBytes, ForwardedInstantiate, NoChild
    <3>3. CASE r.tag # "Ok" /\ r.data = NoBytes
      BY <3>3 DEF HonestBytes, ForwardedInstantiate, NoChild, Made
    <3> QED
      BY <3>1, <3>2, <3>3
  <2> QED
    BY <1>6, <2>2 DEF WrapInstantiate, r
<1> QED
  BY <1>4, <1>5, <1>6

LEMMA DeliverHonest ==
  ASSUME NEW fr \in FrameType, fr.self \in Maker, NEW io, IsOutcome(io), Told(io)
  PROVE  NoGoFactory => Honest(Deliver(fr, io))
<1>1. /\ Deliver(fr, io).last = WrapInstantiate(SdkOf[fr.self], fr.style, io)
      /\ Deliver(fr, io).sent = io.sent /\ Deliver(fr, io).self = fr.self
  BY DeliverIs
<1>2. NoGoFactory =>
        HonestBytes(WrapInstantiate(SdkOf[fr.self], fr.style, io), io.sent, SdkOf[fr.self])
  BY AnswerHonest DEF NoGoFactory
<1> QED
  BY <1>1, <1>2 DEF Honest, HonestBytes

LEMMA NothingIsHonest ==
  ASSUME NEW fr, fr.last = NothingYet PROVE Honest(fr)
BY DEF Honest, NothingYet, NoChild

-----------------------------------------------------------------------------
(* What a factory holds *)

LEMMA AccountIs ==
  ASSUME NEW w \in Chain, NEW f \in Maker
  PROVE  w.bal[f] \in Nat /\ w.paid[f] \in Nat
<1>1. f \in Account
  BY DEF Account
<1> QED
  BY <1>1, ChainIs, LedgerIs

LEMMA StackHeld ==
  ASSUME FInv, NEW f
  PROVE  /\ depth \in Nat
         /\ HeldTo(f, frame, depth) \in Int
         /\ \A m \in Nat : m = depth - 1 =>
              /\ HeldTo(f, frame, m) \in Int
              /\ HeldTo(f, frame, depth) = HeldTo(f, frame, m) + Pending(f, Top)
<1>1. depth \in Nat /\ \A d \in 1 .. depth : frame[d] \in FrameType
  BY DEF FInv, Stack
<1>2. ASSUME NEW m \in Nat, m = depth - 1 PROVE HeldTo(f, frame, m) \in Int
  <2>1. \A d \in 1 .. m : frame[d] \in FrameType
    BY <1>1, <1>2
  <2> QED
    BY <2>1, HeldIs
<1> QED
  BY <1>1, <1>2, HeldIs DEF Top

\* The frame on top changes, or another comes above it, and no more.
LEMMA LevelTop ==
  ASSUME FInv, depth > 0, NEW st, \A d \in 1 .. depth - 1 : st[d] = frame[d],
         st[depth] \in FrameType, NEW f \in Maker, NEW w \in Chain,
         w.bal[f] + w.paid[f] + Pending(f, st[depth])
           = world.bal[f] + world.paid[f] + Pending(f, Top)
  PROVE  Level(f, w, st, depth)
<1>1. PICK k \in Nat : k = depth - 1
  BY DEF FInv, Stack
<1>2. /\ depth \in Nat /\ HeldTo(f, frame, k) \in Int
      /\ HeldTo(f, frame, depth) = HeldTo(f, frame, k) + Pending(f, Top)
  BY <1>1, StackHeld
<1>3. HeldTo(f, st, k) = HeldTo(f, frame, k)
  BY <1>1, HeldSame
<1>4. HeldTo(f, st, depth) = HeldTo(f, st, k) + Pending(f, st[depth])
  <2>1. \A d \in 1 .. depth : st[d] \in FrameType
    <3>1. \A d \in 1 .. depth : d = depth \/ d \in 1 .. depth - 1
      BY <1>2
    <3>2. \A d \in 1 .. depth : frame[d] \in FrameType
      BY DEF FInv, Stack
    <3> QED
      BY <3>1, <3>2
  <2> QED
    BY <1>1, <1>2, <2>1, HeldIs
<1>5. /\ w.bal[f] \in Nat /\ w.paid[f] \in Nat
      /\ world.bal[f] \in Nat /\ world.paid[f] \in Nat
      /\ Pending(f, st[depth]) \in {0, 1} /\ Pending(f, Top) \in {0, 1}
  BY AccountIs, PendingIs, TopIs DEF FInv
<1>6. world.bal[f] + world.paid[f] + HeldTo(f, frame, depth) = Supply
  BY DEF FInv, Balanced, Level
<1> QED
  BY <1>2, <1>3, <1>4, <1>5, <1>6 DEF Level

LEMMA LevelPush ==
  ASSUME NEW k \in Nat, NEW j \in Nat, j = k + 1, NEW st, NEW f, NEW w,
         \A d \in 1 .. j : st[d] \in FrameType,
         Pending(f, st[j]) = 0, Level(f, w, st, k)
  PROVE  Level(f, w, st, j)
<1>1. HeldTo(f, st, j) = HeldTo(f, st, k) + 0
  BY HeldIs
<1>2. HeldTo(f, st, k) \in Int
  <2>1. \A d \in 1 .. k : st[d] \in FrameType
    OBVIOUS
  <2> QED
    BY <2>1, HeldIs
<1> QED
  BY <1>1, <1>2 DEF Level

\* Below a frame that holds nothing, nothing more was held.
LEMMA LevelBelow ==
  ASSUME FInv, depth > 0, NEW f \in Maker, Pending(f, Top) = 0,
         NEW k \in Nat, k = depth - 1, NEW st, \A d \in 1 .. k : st[d] = frame[d]
  PROVE  Level(f, world, st, k)
<1>1. /\ HeldTo(f, frame, k) \in Int
      /\ HeldTo(f, frame, depth) = HeldTo(f, frame, k) + 0
  BY StackHeld
<1>2. HeldTo(f, st, k) = HeldTo(f, frame, k)
  BY HeldSame
<1>3. world.bal[f] + world.paid[f] + HeldTo(f, frame, depth) = Supply
  BY DEF FInv, Balanced, Level
<1> QED
  BY <1>1, <1>2, <1>3 DEF Level

LEMMA TopMaker ==
  ASSUME FInv, depth > 0, Top.kind = "create"
  PROVE  /\ Top.self \in Maker /\ Top.ask \in Asked(Top.self)
         /\ Top.pc \in {"run", "halt"}
  BY TopIs DEF FInv, Frames, MakerFrame

LEMMA AskingIs ==
  ASSUME FInv, Asks, NEW v \in {0, 1}, NEW style \in StylesOfFactory(Top.self)
  PROVE  LET fr == Asking(v, style)
         IN  /\ fr \in FrameType
             /\ fr.kind = "create" /\ fr.self = Top.self /\ fr.ask = Top.ask
             /\ fr.entry = Top.entry /\ fr.last = Top.last /\ fr.sent = Top.sent
             /\ fr.value = v /\ fr.before = world /\ fr.pc = "run"
<1>1. Top \in FrameType /\ world \in Chain /\ Top.kind = "create" /\ Top.pc = "run"
  BY TopIs DEF FInv, Asks, Creating
<1>2. style \in InstantiateStyle
  BY DEF StylesOfFactory, InstantiateStyle
<1> QED
  BY <1>1, <1>2 DEF Asking, FrameType

LEMMA TargetIs ==
  ASSUME FInv, Asks
  PROVE  LET c == ChildOf(Top.self, Top.ask, world)
         IN  /\ depth > 0 /\ Top.kind = "create" /\ Top.self \in Maker
             /\ c \in Genuine /\ c.at = Target
             /\ c = [at |-> Target, of |-> IdFor(Top.self, Top.ask, world)]
             /\ Target \in AddressSpace
             /\ Exists(world, Target) <=> c \in world.child
<1> DEFINE c == ChildOf(Top.self, Top.ask, world)
<1>1. /\ depth > 0 /\ Top.kind = "create"
      /\ Top.self \in Maker /\ Top.ask \in Asked(Top.self)
  BY TopMaker DEF Asks, Creating
<1>2. world \in Chain
  BY <1>1, TopIs DEF FInv
<1>3. Top.self \in Sequential => world.next[Top.self] \in 0 .. MaxNumber
  BY <1>1, <1>2, FactoryAssumption DEF Asks, Chain
<1>4. c \in Genuine
  BY <1>1, <1>3, ChildGenuine
<1>5. c = [at |-> Target, of |-> IdFor(Top.self, Top.ask, world)] /\ c.at = Target
  BY ChildIs DEF Target, Salt
<1>6. Exists(world, Target) <=> c \in world.child
  <2>1. ASSUME NEW q \in world.child, q.at = Target PROVE q = c
    <3>1. q \in Genuine
      BY <1>2, ChainIs
    <3> HIDE DEF c
    <3> QED
      BY <1>4, <1>5, <2>1, <3>1, RecordOne
  <2> HIDE DEF c
  <2> QED
    BY <1>5, <2>1 DEF Exists
<1> QED
  BY <1>1, <1>4, <1>5, <1>6, GenuineAt

LEMMA StagedIs ==
  ASSUME FInv, Asks, NEW v \in {0, 1}, NEW withArgs, Refusals(v, withArgs) = {}
  PROVE  /\ GoodWorld(Staged(v)) /\ Grow(world, Staged(v))
         /\ ~ Exists(world, Target)
         /\ Born(Staged(v), ChildOf(Top.self, Top.ask, world), v)
         /\ Staged(v).next = world.next /\ Staged(v).paid = world.paid
         /\ Staged(v).bal[Top.self] = world.bal[Top.self] - v
         /\ \A f \in Maker \ {Top.self} : Staged(v).bal[f] = world.bal[f]
         /\ made < MaxPerTx
<1> DEFINE c   == ChildOf(Top.self, Top.ask, world)
           bal == Pay(world.bal, Top.self, Target, v)
           w   == Staged(v)
<1>1. /\ depth > 0 /\ Top.self \in Maker /\ c \in Genuine /\ c.at = Target
      /\ c = [at |-> Target, of |-> IdFor(Top.self, Top.ask, world)]
      /\ Target \in AddressSpace /\ (Exists(world, Target) <=> c \in world.child)
  BY TargetIs
<1>2. world \in Chain /\ GoodWorld(world) /\ world.bal \in Ledger /\ Top.self \in Account
  BY <1>1, TopIs, ChainIs DEF FInv, Worlds, Account
<1>3. made \in Nat /\ MaxPerTx \in Nat /\ made <= MaxPerTx
  BY FactoryAssumption DEF FInv, Stack
<1>4. made # MaxPerTx
  BY DEF Refusals
<1>5. ~ Exists(world, Target)
  BY <1>4 DEF Refusals, InstantiateStatus
<1>6. v <= world.bal[Top.self]
  <2>1. ~ (v > world.bal[Top.self])
    BY <1>4 DEF Refusals, InstantiateStatus
  <2>2. world.bal[Top.self] \in Nat
    BY <1>2, LedgerIs
  <2> QED
    BY <2>1, <2>2
<1>7. /\ bal \in Ledger
      /\ bal[Top.self] = world.bal[Top.self] - v
      /\ \A a \in Account \ {Top.self} : bal[a] = world.bal[a]
      /\ Holding(bal, Target) >= v
      /\ \A a \in AddressSpace : Holding(world.bal, a) <= Holding(bal, a)
  <2>1. v \in Nat
    OBVIOUS
  <2> QED
    BY <1>1, <1>2, <1>6, <2>1, PayEffect
<1> HIDE DEF bal, c
<1>8. w = [world EXCEPT !.child = world.child \cup {c}, !.bal = bal]
  BY <1>1 DEF Staged, bal
<1> HIDE DEF w
<1>9. /\ w \in Chain /\ w.child = world.child \cup {c} /\ w.bal = bal
      /\ w.book = world.book /\ w.sent = world.sent
      /\ w.next = world.next /\ w.paid = world.paid
  <2> DEFINE child == world.child \cup {c}
  <2>1. child \in SUBSET Genuine
    BY <1>1, <1>2, ChainIs
  <2>2. child = world.child \cup {c}
    OBVIOUS
  <2> HIDE DEF child
  <2>3. w = [world EXCEPT !.child = child, !.bal = bal]
    BY <1>8, <2>2
  <2>4. w \in Chain
    BY <1>2, <1>7, <2>1, <2>3 DEF Chain
  <2>5. /\ w.child = child /\ w.bal = bal /\ w.book = world.book
        /\ w.sent = world.sent /\ w.next = world.next /\ w.paid = world.paid
    BY <1>2, <2>3 DEF Chain
  <2> QED
    BY <2>2, <2>4, <2>5
<1>10. \A s \in w.sent : Holding(w.bal, s.at) > 0
  <2> SUFFICES ASSUME NEW s \in world.sent PROVE Holding(bal, s.at) > 0
    BY <1>9
  <2>1. s.at \in AddressSpace
    BY <1>2, ChainIs, GenuineAt
  <2>2. Holding(world.bal, s.at) > 0 /\ Holding(world.bal, s.at) <= Holding(bal, s.at)
    BY <1>2, <1>7, <2>1 DEF GoodWorld
  <2>3. Holding(world.bal, s.at) \in Nat /\ Holding(bal, s.at) \in Nat
    BY <1>2, <1>7, LedgerIs
  <2> QED
    BY <2>2, <2>3
<1>11. GoodWorld(w)
  BY <1>2, <1>9, <1>10 DEF GoodWorld
<1>12. Grow(world, w)
  BY <1>7, <1>9 DEF Grow
<1>13. Born(w, c, v)
  BY <1>1, <1>7, <1>9 DEF Born
<1> QED
  BY <1>2, <1>3, <1>4, <1>5, <1>7, <1>9, <1>11, <1>12, <1>13 DEF w, c, Account

-----------------------------------------------------------------------------
(* Every step keeps the invariant *)

\* What a factory endows a child with is what its balance is short of.
LEMMA StagedHeld ==
  ASSUME FInv, Asks, NEW v \in {0, 1}, NEW withArgs, Refusals(v, withArgs) = {},
         NEW g \in Maker, NEW n, n = IF g = Top.self THEN v ELSE 0
  PROVE  /\ Staged(v) \in Chain
         /\ Staged(v).bal[g] + Staged(v).paid[g] + n
              = world.bal[g] + world.paid[g] + Pending(g, Top)
<1> DEFINE w == Staged(v)
<1>1. /\ w \in Chain /\ w.paid = world.paid
      /\ w.bal[Top.self] = world.bal[Top.self] - v
      /\ \A f \in Maker \ {Top.self} : w.bal[f] = world.bal[f]
  BY StagedIs DEF GoodWorld
<1> HIDE DEF w
<1>2. Pending(g, Top) = 0 /\ world \in Chain
  BY TopIs DEF Asks, Creating, Pending, FInv
<1>3. /\ world.bal[g] \in Nat /\ world.paid[g] \in Nat
  BY <1>2, AccountIs
<1>4. w.bal[g] + w.paid[g] + n = world.bal[g] + world.paid[g]
  BY <1>1, <1>3
<1> QED
  BY <1>1, <1>2, <1>3, <1>4 DEF w

LEMMA FundStep ==
  ASSUME FInv, NEW f \in Maker, NEW a \in Asked(f), Fund(f, a)
  PROVE  FInv' /\ Kept
<1> DEFINE c   == ChildOf(f, a, world)
           bal == Pay(world.bal, Payer, c.at, 1)
<1>1. /\ depth = 0 /\ f \notin Sequential /\ world.bal[Payer] > 0
      /\ UNCHANGED <<depth, frame, made>>
  BY DEF Fund
<1>2. /\ c \in Genuine /\ c.at \in AddressSpace
      /\ c = [of |-> IdFor(f, a, world), at |-> ChildAddr(f, a.template, SaltFor(f, a, world))]
  <2>1. c \in Genuine
    BY <1>1, ChildGenuine
  <2> QED
    BY <2>1, GenuineAt, ChildIs DEF HostAddr, ChildAddr, ChildPreimage, DomainTag, Poseidon2
<1>3. world \in Chain /\ GoodWorld(world) /\ world.bal \in Ledger
  BY ChainIs DEF FInv, Worlds, GoodWorld
<1>4. /\ bal \in Ledger /\ Holding(bal, c.at) > 0
      /\ \A b \in AddressSpace : Holding(world.bal, b) <= Holding(bal, b)
      /\ \A b \in Account \ {Payer} : bal[b] = world.bal[b]
  <2>1. Payer \in Account /\ 1 \in Nat /\ 1 <= world.bal[Payer]
    BY <1>1, <1>3, LedgerIs DEF Account
  <2> HIDE DEF c
  <2> QED
    BY <1>2, <1>3, <2>1, PayEffect
<1>5. world' = [world EXCEPT !.bal = bal, !.sent = world.sent \cup {c}]
  BY <1>2 DEF Fund
<1> HIDE DEF c, bal
<1>6. /\ world' \in Chain /\ world'.child = world.child /\ world'.book = world.book
      /\ world'.bal = bal /\ world'.sent = world.sent \cup {c}
      /\ world'.paid = world.paid
  <2> DEFINE sent == world.sent \cup {c}
  <2>1. sent \in SUBSET Genuine /\ sent = world.sent \cup {c}
    BY <1>2, <1>3, ChainIs
  <2>2. world' = [world EXCEPT !.bal = bal, !.sent = sent]
    BY <1>5
  <2> HIDE DEF sent
  <2> QED
    BY <1>3, <1>4, <2>1, <2>2 DEF Chain
<1>7. \A s \in world'.sent : Holding(world'.bal, s.at) > 0
  <2> SUFFICES ASSUME NEW s \in world.sent PROVE Holding(bal, s.at) > 0
    BY <1>4, <1>6
  <2>1. s.at \in AddressSpace
    BY <1>3, ChainIs, GenuineAt
  <2>2. Holding(world.bal, s.at) > 0 /\ Holding(world.bal, s.at) <= Holding(bal, s.at)
    BY <1>3, <1>4, <2>1 DEF GoodWorld
  <2>3. Holding(world.bal, s.at) \in Nat /\ Holding(bal, s.at) \in Nat
    BY <1>3, <1>4, LedgerIs
  <2> QED
    BY <2>2, <2>3
<1>8. GoodWorld(world')
  BY <1>3, <1>6, <1>7 DEF GoodWorld
<1>9. Got'
  BY <1>1 DEF Got
<1>10. \A g \in Maker : Level(g, world', frame', 0)
  <2> SUFFICES ASSUME NEW g \in Maker PROVE Level(g, world', frame, 0)
    BY <1>1
  <2>1. Level(g, world, frame, 0)
    BY <1>1 DEF FInv, Balanced
  <2>2. g \in Account \ {Payer}
    BY FactoryAssumption DEF Account
  <2> QED
    BY <1>4, <1>6, <2>1, <2>2 DEF Level
<1> QED
  <2>1. /\ 0 \in 0 .. depth /\ depth' = 0 /\ made' \in 0 .. MaxPerTx
        /\ frame' \in [Depths -> FrameType \cup {NoFrame}]
        /\ \A d \in 1 .. 0 - 1 : frame'[d] = frame[d]
        /\ \A d \in Depths : d > 0 => frame'[d] = NoFrame
    BY <1>1 DEF FInv, Stack
  <2> QED
    BY <1>8, <1>9, <1>10, <2>1, StackStep

LEMMA NewFrameIs ==
  ASSUME NEW kind \in {"create", "ctor"}, NEW self \in Maker \cup AddressSpace,
         NEW a \in Ask, NEW w \in Chain
  PROVE  LET fr == NewFrame(kind, self, a, w)
         IN  /\ fr \in FrameType
             /\ fr.kind = kind /\ fr.self = self /\ fr.ask = a /\ fr.entry = w
             /\ fr.pc = "run" /\ fr.last = NothingYet /\ ~ Answered(fr)
             /\ Honest(fr) /\ \A f : Pending(f, fr) = 0
<1>1. NothingYet \in Answer /\ NothingYet.tag = "None" /\ NoBytes \in Bytes
  BY DEF NothingYet, Child, NoChild, Answer, AnswerTag, NoBytes, Bytes, Source, Made
<1> QED
  BY <1>1, NothingIsHonest DEF NewFrame, FrameType, Answered, InstantiateStyle, Pending

LEMMA CreateStep ==
  ASSUME FInv, NEW f \in Maker, NEW a \in Asked(f), Create(f, a)
  PROVE  FInv' /\ Kept
<1> DEFINE new == NewFrame("create", f, a, world)
<1>1. /\ depth > 0 => Top.kind = "ctor"
      /\ CanEnter(f) /\ depth < MaxDepth /\ depth' = depth + 1
      /\ frame' = [frame EXCEPT ![depth + 1] = new]
      /\ made' \in 0 .. MaxPerTx /\ world' = world
  BY FactoryAssumption DEF Create, FInv, Stack
<1>2. /\ depth \in Nat /\ MaxDepth \in Nat /\ depth + 1 \in Depths
      /\ frame \in [Depths -> FrameType \cup {NoFrame}]
  BY <1>1, FactoryAssumption DEF FInv, Stack, Depths
<1>3. world \in Chain /\ GoodWorld(world)
  BY DEF FInv, Worlds, GoodWorld
<1>4. a \in Ask
  BY DEF Asked
<1>5. /\ new \in FrameType /\ new.kind = "create" /\ new.self = f /\ new.ask = a
      /\ new.entry = world /\ new.pc = "run" /\ ~ Answered(new)
      /\ Honest(new) /\ \A g : Pending(g, new) = 0
  BY <1>3, <1>4, NewFrameIs
<1> HIDE DEF new
<1>6. new.kind = KindAt(depth + 1)
  <2>1. depth > 0 => KindAt(depth) = "ctor"
    BY <1>1, <1>2 DEF FInv, Stack, Top
  <2>2. depth % 2 = 0
    BY <1>2, <2>1 DEF KindAt
  <2>3. (depth + 1) % 2 = 1
    BY <1>2, <2>2
  <2> QED
    BY <1>5, <2>3 DEF KindAt
<1>7. /\ frame' \in [Depths -> FrameType \cup {NoFrame}]
      /\ frame'[depth + 1] = new
      /\ \A d \in Depths : d # depth + 1 => frame'[d] = frame[d]
  BY <1>1, <1>2, <1>5
<1>8. /\ \A d \in 1 .. depth - 1 : frame'[d] = frame[d]
      /\ \A d \in Depths : d > depth + 1 => frame'[d] = NoFrame
      /\ depth > 0 => /\ frame'[depth] = frame[depth] /\ frame[depth] \in FrameType
                      /\ frame[depth].kind = "ctor"
  BY <1>1, <1>2, <1>7 DEF FInv, Stack, Depths, Top
<1>9. MakerFrame(new, TRUE)
  BY <1>5 DEF MakerFrame
<1>10. new.self \in Reentrant \/ \A d \in 1 .. depth : frame[d].self # new.self
  BY <1>1, <1>5 DEF CanEnter
<1>11. Grow(world, world') /\ GoodWorld(world') /\ world'.next = world.next
  BY <1>1, <1>3, GrowSelf
<1>12. \A g \in Maker : /\ Level(g, world', frame', depth + 1)
                         /\ Level(g, world, frame', Under(depth + 1))
  <2> SUFFICES ASSUME NEW g \in Maker
               PROVE  /\ Level(g, world, frame', depth + 1)
                      /\ Level(g, world, frame', Under(depth + 1))
    BY <1>1
  <2>1. \A d \in 1 .. depth : frame'[d] = frame[d] /\ frame[d] \in FrameType
    BY <1>2, <1>7 DEF FInv, Stack, Depths
  <2>2. Level(g, world, frame', depth)
    <3>1. HeldTo(g, frame', depth) = HeldTo(g, frame, depth)
      BY <2>1, HeldSame
    <3> QED
      BY <3>1 DEF FInv, Balanced, Level
  <2>3. Under(depth + 1) = depth
    BY <1>2, <1>5, <1>6 DEF Under, KindAt
  <2>4. \A d \in 1 .. depth + 1 : frame'[d] \in FrameType
    <3>1. \A d \in 1 .. depth + 1 : d = depth + 1 \/ d \in 1 .. depth
      BY <1>2
    <3> QED
      BY <1>5, <1>7, <2>1, <3>1
  <2>5. Level(g, world, frame', depth + 1)
    <3>1. Pending(g, frame'[depth + 1]) = 0 /\ depth + 1 \in Nat
      BY <1>2, <1>5, <1>7
    <3> QED
      BY <1>2, <2>2, <2>4, <3>1, LevelPush
  <2> QED
    BY <2>2, <2>3, <2>5
<1> QED
  BY <1>1, <1>5, <1>6, <1>7, <1>8, <1>9, <1>10, <1>11, <1>12, PushStep

LEMMA EnterCtorStep ==
  ASSUME FInv, NEW v \in {0, 1}, NEW style \in StylesOfFactory(Top.self),
         NEW withArgs \in BOOLEAN, EnterCtor(v, style, withArgs)
  PROVE  FInv' /\ Kept
<1> DEFINE new == NewFrame("ctor", Target, Top.ask, world)
           old == [Asking(v, style) EXCEPT !.pc = "call"]
           c   == ChildOf(Top.self, Top.ask, world)
<1>1. /\ Asks /\ Refusals(v, withArgs) = {} /\ depth < MaxDepth
      /\ world' = Staged(v) /\ depth' = depth + 1 /\ made' = made + 1
      /\ frame' = [frame EXCEPT ![depth] = old, ![depth + 1] = new]
  BY DEF EnterCtor
<1>2. /\ depth > 0 /\ Top.kind = "create" /\ Top.self \in Maker
      /\ c.at = Target /\ Target \in AddressSpace
  BY <1>1, TargetIs
<1>3. /\ GoodWorld(world') /\ Grow(world, world') /\ ~ Exists(world, Target)
      /\ Born(world', c, v) /\ world'.next = world.next /\ made < MaxPerTx
  BY <1>1, StagedIs
<1>4. /\ depth \in Nat /\ MaxDepth \in Nat /\ depth \in Depths /\ depth + 1 \in Depths
      /\ frame \in [Depths -> FrameType \cup {NoFrame}]
      /\ made' \in 0 .. MaxPerTx
  BY <1>1, <1>2, <1>3, FactoryAssumption DEF FInv, Stack, Depths
<1>5. /\ world \in Chain /\ Top \in FrameType /\ Top.ask \in Ask
      /\ Top = frame[depth] /\ depth \in 1 .. depth
  BY <1>2, TopIs DEF FInv, FrameType
<1>6. /\ new \in FrameType /\ new.kind = "ctor" /\ new.self = Target
      /\ new.entry = world /\ new.pc = "run" /\ new.last = NothingYet /\ ~ Answered(new)
      /\ \A g : Pending(g, new) = 0
  BY <1>2, <1>5, NewFrameIs
<1>7. /\ old \in FrameType /\ old.kind = "create" /\ old.self = Top.self
      /\ old.ask = Top.ask /\ old.entry = Top.entry /\ old.pc = "call"
      /\ old.before = world /\ old.value = v /\ old.last = Top.last
      /\ old.sent = Top.sent
  <2>1. LET fr == Asking(v, style)
        IN  /\ fr \in FrameType
            /\ fr.kind = "create" /\ fr.self = Top.self /\ fr.ask = Top.ask
            /\ fr.entry = Top.entry /\ fr.last = Top.last /\ fr.sent = Top.sent
            /\ fr.value = v /\ fr.before = world /\ fr.pc = "run"
    BY <1>1, AskingIs
  <2> QED
    BY <2>1 DEF FrameType
<1>8. ~ Answered(old)
  BY <1>1, <1>7 DEF Asks, Creating, Answered
<1> HIDE DEF new, old, c
<1>9. new.kind = KindAt(depth + 1)
  <2>1. KindAt(depth) = "create"
    BY <1>2, <1>5 DEF FInv, Stack
  <2>2. depth % 2 = 1
    BY <2>1 DEF KindAt
  <2>3. (depth + 1) % 2 = 0
    BY <1>4, <2>2
  <2> QED
    BY <1>6, <2>3 DEF KindAt
<1>10. /\ frame' \in [Depths -> FrameType \cup {NoFrame}]
       /\ frame'[depth + 1] = new /\ frame'[depth] = old
       /\ \A d \in Depths : d # depth /\ d # depth + 1 => frame'[d] = frame[d]
  BY <1>1, <1>4, <1>6, <1>7
<1>11. /\ \A d \in 1 .. depth - 1 : frame'[d] = frame[d]
       /\ \A d \in Depths : d > depth + 1 => frame'[d] = NoFrame
  BY <1>4, <1>10 DEF FInv, Stack, Depths
<1>12. new.self \notin Maker
  BY <1>2, <1>6, AddressAssumption
<1>13. CtorFrame(new, frame'[depth], world')
  <2>1. ChildOf(frame'[depth].self, frame'[depth].ask, new.entry) = c
    BY <1>6, <1>7, <1>10 DEF c
  <2> QED
    BY <1>2, <1>3, <1>6, <1>7, <1>10, <2>1 DEF CtorFrame
<1>14. \A g \in Maker : /\ Level(g, world', frame', depth + 1)
                         /\ Level(g, world, frame', Under(depth + 1))
  <2> SUFFICES ASSUME NEW g \in Maker
               PROVE  /\ Level(g, world', frame', depth + 1)
                      /\ Level(g, world, frame', Under(depth + 1))
    OBVIOUS
  <2>1. Level(g, world', frame', depth)
    <3>1. /\ world' \in Chain
          /\ world'.bal[g] + world'.paid[g] + Pending(g, old)
               = world.bal[g] + world.paid[g] + Pending(g, Top)
      BY <1>1, <1>7, StagedHeld DEF GoodWorld, Pending
    <3> QED
      BY <1>2, <1>7, <1>10, <1>11, <3>1, LevelTop
  <2>2. \A d \in 1 .. depth + 1 : frame'[d] \in FrameType
    <3>1. \A d \in 1 .. depth + 1 : d = depth + 1 \/ d = depth \/ d \in 1 .. depth - 1
      BY <1>4
    <3>2. \A d \in 1 .. depth - 1 : frame[d] \in FrameType
      BY <1>4 DEF FInv, Stack
    <3> QED
      BY <1>6, <1>7, <1>10, <1>11, <3>1, <3>2
  <2>3. Level(g, world', frame', depth + 1)
    <3>1. Pending(g, frame'[depth + 1]) = 0 /\ depth + 1 \in Nat
      BY <1>4, <1>6, <1>10
    <3> QED
      BY <1>4, <2>1, <2>2, <3>1, LevelPush
  <2>4. Level(g, world, frame', Under(depth + 1))
    <3>1. Under(depth + 1) = depth - 1 /\ depth - 1 \in Nat
      BY <1>2, <1>4, <1>6, <1>9 DEF Under, KindAt
    <3>2. PICK k \in Nat : k = depth - 1
      BY <3>1
    <3>3. Pending(g, Top) = 0
      BY <1>1 DEF Asks, Creating, Pending
    <3>4. Level(g, world, frame', k)
      BY <1>2, <1>11, <3>2, <3>3, LevelBelow
    <3> QED
      BY <3>1, <3>2, <3>4
  <2> QED
    BY <2>3, <2>4
<1> QED
  BY <1>1, <1>2, <1>3, <1>4, <1>5, <1>6, <1>7, <1>8, <1>9, <1>10, <1>11, <1>12, <1>13, <1>14, PushStep

\* A constructor runs at an address where there is, by then, a child.
LEMMA BuiltIsThere ==
  ASSUME FInv, NEW e \in 1 .. depth, NEW d \in 1 .. e, frame[d].self \in AddressSpace
  PROVE  Exists(After(e), frame[d].self)
<1> DEFINE b == ChildOf(frame[d - 1].self, frame[d - 1].ask, frame[d].entry)
<1>1. d \in 1 .. depth /\ depth \in Nat /\ frame[d] \in FrameType
  BY DEF FInv, Stack
<1>2. CtorFrame(frame[d], frame[d - 1], After(d))
  BY <1>1, AddressAssumption DEF FInv, Frames, MakerFrame
<1>3. b.at = frame[d].self /\ b \in After(d).child
  BY <1>2 DEF CtorFrame, Born
<1> HIDE DEF b
<1>4. b \in After(e).child
  <2>1. CASE d = e
    BY <1>3, <2>1
  <2>2. CASE d # e
    <3>1. d + 1 \in 1 .. e /\ d < depth
      BY <1>1, <2>2
    <3>2. Grow(frame[d + 1].entry, After(e)) /\ After(d) = frame[d + 1].entry
      BY <3>1 DEF FInv, Grows, After
    <3> QED
      BY <1>3, <3>2 DEF Grow
  <2> QED
    BY <2>1, <2>2
<1> QED
  BY <1>3, <1>4 DEF Exists

LEMMA RefuseStep ==
  ASSUME FInv, NEW v \in {0, 1}, NEW style \in StylesOfFactory(Top.self),
         NEW withArgs \in BOOLEAN, Refuse(v, style, withArgs)
  PROVE  FInv' /\ Kept
<1> DEFINE c == ChildOf(Top.self, Top.ask, world)
           fr == Asking(v, style)
<1>1. Asks /\ UNCHANGED <<world, depth, made>>
  BY DEF Refuse
<1>2. PICK s \in Refusals(v, withArgs), l \in RefusalLen :
        frame' = [frame EXCEPT ![depth] =
                    Deliver(fr, Outcome(s, IF s = CapExceeded THEN Zero ELSE Target,
                                        IF l = "kept" THEN RustCap ELSE 0, NoBytes, RustCap))]
  BY DEF Refuse
<1> DEFINE io  == Outcome(s, IF s = CapExceeded THEN Zero ELSE Target,
                          IF l = "kept" THEN RustCap ELSE 0, NoBytes, RustCap)
           new == Deliver(fr, io)
<1>3. /\ depth > 0 /\ Top.kind = "create" /\ c.at = Target /\ Target \in AddressSpace
      /\ (Exists(world, Target) <=> c \in world.child)
  BY <1>1, TargetIs
<1>4. s \in InstantiateStatus /\ s # StatusOk
      /\ (s = AddressOccupied => Exists(world, Target))
  BY DEF Refusals, InstantiateStatus, CapExceeded, StatusOk, AddressOccupied,
         TemplateNotFound, CtorMismatch, PrefixCollision, InsufficientBalance, CtorReverted
<1>5. /\ IsOutcome(io) /\ io.status = s
      /\ io.addr = IF s = CapExceeded THEN Zero ELSE Target
  <2> DEFINE addr == IF s = CapExceeded THEN Zero ELSE Target
             len  == IF l = "kept" THEN RustCap ELSE 0
  <2>1. addr \in AddressSpace \cup {Zero}
    BY <1>3
  <2>2. len \in Nat /\ RustCap \in Nat /\ NoBytes \in Bytes
    BY RustCapAssumption, BytesMade DEF NoBytes, Bytes, Source
  <2> HIDE DEF addr, len
  <2>3. /\ IsOutcome(Outcome(s, addr, len, NoBytes, RustCap))
        /\ Outcome(s, addr, len, NoBytes, RustCap).status = s
        /\ Outcome(s, addr, len, NoBytes, RustCap).addr = addr
        /\ Outcome(s, addr, len, NoBytes, RustCap).outLen = len
        /\ Outcome(s, addr, len, NoBytes, RustCap).sent = NoBytes
    BY <1>4, <2>1, <2>2, OutcomeIs
  <2> QED
    BY <2>3 DEF addr, len
<1>6. /\ fr \in FrameType /\ fr.kind = "create" /\ fr.self = Top.self
      /\ fr.ask = Top.ask /\ fr.entry = Top.entry
  BY <1>1, AskingIs
<1> HIDE DEF io, fr, c
<1>7. /\ new \in FrameType /\ new.kind = "create" /\ new.self = Top.self
      /\ new.ask = Top.ask /\ new.entry = Top.entry /\ new.pc \in {"run", "halt"}
      /\ new.last.tag # "Ok" /\ (new.last.tag = "Exists" => s = AddressOccupied)
      /\ Answered(new) => new.last.addr = io.addr
  BY <1>4, <1>5, <1>6, DeliverIs
<1>14. NoGoFactory => Honest(new)
  <2>1. fr.self \in Maker
    BY <1>3, <1>6, TopMaker
  <2>2. s # CtorReverted
    BY DEF Refusals, CapExceeded, AddressOccupied,
           TemplateNotFound, CtorMismatch, PrefixCollision, InsufficientBalance, CtorReverted
  <2> QED
    BY <1>4, <1>5, <1>6, <2>1, <2>2, DeliverHonest DEF Told
<1> HIDE DEF new
<1>8. /\ depth \in Depths /\ Top = frame[depth] /\ depth \in 1 .. depth
      /\ world \in Chain /\ After(depth) = world
  BY <1>3, TopIs DEF FInv
<1>9. /\ frame' = [frame EXCEPT ![depth] = new]
      /\ frame \in [Depths -> FrameType \cup {NoFrame}]
  BY <1>2 DEF new, io, FInv, Stack
<1>10. /\ frame' \in [Depths -> FrameType \cup {NoFrame}] /\ frame'[depth] = new
       /\ \A d \in Depths : d # depth => frame'[d] = frame[d]
  BY <1>7, <1>8, <1>9
<1>11. Got'
  <2>1. Top' = new /\ depth' = depth /\ world' = world
    BY <1>1, <1>10 DEF Top
  <2>2. SUFFICES ASSUME Answered(new)
                 PROVE  LET d == ChildOf(new.self, new.ask, world)
                        IN  /\ new.kind = "create"
                            /\ new.last.addr = d.at
                            /\ d \in world.child
                            /\ new.last.tag # "Ok"
    BY <2>1 DEF Got
  <2>3. s = AddressOccupied /\ new.last.tag # "Ok"
    BY <1>7, <2>2 DEF Answered
  <2>4. new.last.addr = Target /\ c \in world.child
    BY <1>3, <1>4, <1>5, <1>7, <2>2, <2>3 DEF AddressOccupied, CapExceeded
  <2> QED
    BY <1>3, <1>7, <2>3, <2>4 DEF c
<1>12. /\ depth \in 0 .. depth /\ depth' = depth /\ made' \in 0 .. MaxPerTx
       /\ \A d \in 1 .. depth - 1 : frame'[d] = frame[d]
       /\ \A d \in Depths : d > depth => frame'[d] = NoFrame
  <2>1. /\ depth \in Nat /\ made \in 0 .. MaxPerTx
        /\ \A d \in 1 .. depth - 1 : d \in Depths /\ d # depth
        /\ \A d \in Depths : d > depth => d # depth /\ frame[d] = NoFrame
    BY FactoryAssumption DEF FInv, Stack, Depths
  <2> QED
    BY <1>1, <1>10, <2>1
<1>13. GoodWorld(world') /\ Grow(world, world') /\ world' = world
  BY <1>1, <1>8, GrowSelf DEF FInv, Worlds
<1>15. \A g \in Maker : Level(g, world', frame', depth)
  <2> SUFFICES ASSUME NEW g \in Maker PROVE Level(g, world, frame', depth)
    BY <1>1
  <2>1. Pending(g, new) = 0 /\ Pending(g, Top) = 0
    BY <1>1, <1>7 DEF Pending, Asks, Creating
  <2> QED
    BY <1>3, <1>7, <1>8, <1>10, <1>12, <2>1, LevelTop
<1> QED
  BY <1>3, <1>7, <1>8, <1>10, <1>11, <1>12, <1>13, <1>14, <1>15, StackStep

LEMMA InstantiateStep ==
  ASSUME FInv, NEW v \in {0, 1}, NEW style \in StylesOfFactory(Top.self),
         Instantiate(v, style)
  PROVE  FInv' /\ Kept
<1> DEFINE c   == ChildOf(Top.self, Top.ask, world)
           fr  == Asking(v, style)
           io  == Outcome(StatusOk, Target, 0, NoBytes, RustCap)
           new == Deliver(fr, io)
<1>1. /\ Asks /\ Refusals(v, FALSE) = {}
      /\ world' = Staged(v) /\ made' = made + 1 /\ depth' = depth
      /\ frame' = [frame EXCEPT ![depth] = new]
  BY DEF Instantiate
<1>2. /\ depth > 0 /\ Top.kind = "create" /\ c.at = Target /\ Target \in AddressSpace
      /\ Top.self \in Maker
  BY <1>1, TargetIs
<1>3. /\ GoodWorld(world') /\ Grow(world, world') /\ ~ Exists(world, Target)
      /\ Born(world', c, v) /\ world'.next = world.next /\ made < MaxPerTx
  BY <1>1, StagedIs
<1>4. /\ IsOutcome(io) /\ io.status = StatusOk /\ io.addr = Target
      /\ io.outLen = 0 /\ io.sent = NoBytes /\ io.sent.len = 0
  <2>1. 0 \in Nat /\ RustCap \in Nat /\ NoBytes \in Bytes /\ StatusOk \in InstantiateStatus
    BY RustCapAssumption, BytesMade DEF NoBytes, Bytes, Source, InstantiateStatus, StatusOk
  <2> QED
    BY <1>2, <2>1, OutcomeIs DEF NoBytes
<1>5. /\ fr \in FrameType /\ fr.kind = "create" /\ fr.self = Top.self
      /\ fr.ask = Top.ask /\ fr.entry = Top.entry /\ fr.before = world /\ fr.value = v
  BY <1>1, AskingIs
<1> HIDE DEF io, fr, c
<1>6. /\ new \in FrameType /\ new.kind = "create" /\ new.self = Top.self
      /\ new.ask = Top.ask /\ new.entry = Top.entry /\ new.pc \in {"run", "halt"}
      /\ new.last.tag = "Ok" /\ new.last.addr = Target
      /\ new.value = v /\ new.before = world
  BY <1>4, <1>5, DeliverIs DEF Answered
<1>14. NoGoFactory => Honest(new)
  <2>1. Told(io)
    BY <1>4 DEF Told, StatusOk, CtorReverted
  <2> QED
    BY <1>2, <1>4, <1>5, <2>1, DeliverHonest
<1> HIDE DEF new
<1>7. /\ depth \in Depths /\ Top = frame[depth] /\ depth \in 1 .. depth
      /\ world \in Chain /\ After(depth) = world
  BY <1>2, TopIs DEF FInv
<1>8. frame \in [Depths -> FrameType \cup {NoFrame}]
  BY DEF FInv, Stack
<1>9. /\ frame' \in [Depths -> FrameType \cup {NoFrame}] /\ frame'[depth] = new
      /\ \A d \in Depths : d # depth => frame'[d] = frame[d]
  BY <1>1, <1>6, <1>7, <1>8
<1>10. \A d \in 1 .. depth : frame[d].self # Target
  BY <1>2, <1>3, <1>7, BuiltIsThere
<1>11. Got'
  <2>1. Top' = new /\ depth' = depth
    BY <1>1, <1>9 DEF Top
  <2>2. \A d \in 1 .. depth : frame'[d].self = frame[d].self
    <3>1. \A d \in 1 .. depth : d \in Depths
      BY FactoryAssumption DEF FInv, Stack, Depths
    <3> QED
      BY <1>6, <1>7, <1>9, <3>1
  <2>3. ChildOf(new.self, new.ask, world') = c
    <3>1. ChildOf(Top.self, Top.ask, world') = c
      BY <1>3, ChildSame DEF c
    <3> QED
      BY <1>6, <3>1
  <2> QED
    BY <1>2, <1>3, <1>6, <1>10, <2>1, <2>2, <2>3 DEF Got, Born
<1>12. /\ depth \in 0 .. depth /\ depth' = depth /\ made' \in 0 .. MaxPerTx
       /\ \A d \in 1 .. depth - 1 : frame'[d] = frame[d]
       /\ \A d \in Depths : d > depth => frame'[d] = NoFrame
  <2>1. made' \in 0 .. MaxPerTx
    BY <1>1, <1>3, FactoryAssumption DEF FInv, Stack
  <2> QED
    BY <1>1, <1>7, <1>9, <2>1 DEF FInv, Stack, Depths
<1>13. \A d \in 1 .. depth - 1 : world'.next[frame[d].self] = After(depth).next[frame[d].self]
  BY <1>3, <1>7
<1>15. \A g \in Maker : Level(g, world', frame', depth)
  <2> SUFFICES ASSUME NEW g \in Maker PROVE Level(g, world', frame', depth)
    OBVIOUS
  <2>1. Pending(g, new) = IF g = Top.self THEN v ELSE 0
    BY <1>6 DEF Pending
  <2>2. /\ world' \in Chain
        /\ world'.bal[g] + world'.paid[g] + Pending(g, new)
             = world.bal[g] + world.paid[g] + Pending(g, Top)
    BY <1>1, <2>1, StagedHeld
  <2> QED
    BY <1>2, <1>6, <1>9, <1>12, <2>2, LevelTop
<1> QED
  BY <1>2, <1>3, <1>6, <1>7, <1>9, <1>11, <1>12, <1>13, <1>14, <1>15, StackStep

LEMMA TakeIs ==
  ASSUME FInv, Take
  PROVE  LET f == Top.self  c == ChildOf(f, Top.ask, world)
         IN  /\ f \in Maker /\ Top.kind = "create" /\ world' \in Chain /\ c \in world.child
             /\ world'.book = world.book \cup {c}
             /\ world'.child = world.child /\ world'.sent = world.sent
             /\ world'.bal = world.bal
             /\ world'.paid[f] = world.paid[f]
                                   + (IF Top.last.tag = "Ok" THEN Top.value ELSE 0)
             /\ \A g \in Maker \ {f} : /\ world'.paid[g] = world.paid[g]
                                       /\ world'.next[g] = world.next[g]
<1> DEFINE f     == Top.self
           c     == ChildOf(f, Top.ask, world)
           fresh == IF Top.last.tag = "Ok" THEN 1 ELSE 0
           book  == {e \in world.book : e.of # IdFor(f, Top.ask, world)}
                      \cup {[of |-> IdFor(f, Top.ask, world), at |-> Top.last.addr]}
           num   == IF f \in Sequential THEN world.next[f] + 1 ELSE 0
           cost  == world.paid[f] + fresh * Top.value
<1>1. /\ depth > 0 /\ Top.kind = "create" /\ Top.pc = "run" /\ Answered(Top)
      /\ world' = [world EXCEPT !.book = book, !.paid[f] = cost, !.next[f] = num]
  BY DEF Take, Answered
<1>2. Top \in FrameType /\ world \in Chain
  BY <1>1, TopIs DEF FInv
<1>3. f \in Maker
  BY <1>1, TopMaker
<1>4. c \in world.child /\ c.at = Top.last.addr /\ c \in Genuine
  BY <1>1, <1>2, ChainIs DEF FInv, Got
<1>5. book = world.book \cup {c}
  <2>1. c = [of |-> IdFor(f, Top.ask, world), at |-> Top.last.addr]
        /\ c.of = IdFor(f, Top.ask, world)
    BY <1>4, ChildIs
  <2>2. \A e \in world.book : e.of = c.of => e = c
    <3> HIDE DEF c
    <3> QED
      BY <1>2, <1>4, ChainIs, RecordOne
  <2> HIDE DEF c
  <2> QED
    BY <2>1, <2>2
<1>6. book \in SUBSET Genuine
  BY <1>2, <1>4, <1>5, ChainIs
<1>7. /\ world.paid \in [Maker -> Nat] /\ world.next \in [Maker -> Nat]
      /\ Top.value \in {0, 1}
  BY <1>2, ChainIs DEF FrameType
<1>8. cost = world.paid[f] + (IF Top.last.tag = "Ok" THEN Top.value ELSE 0)
  BY <1>3, <1>7
<1>9. cost \in Nat /\ num \in Nat
  BY <1>3, <1>7, <1>8
<1> HIDE DEF book, num, cost
<1>10. [world.paid EXCEPT ![f] = cost] \in [Maker -> Nat]
       /\ [world.next EXCEPT ![f] = num] \in [Maker -> Nat]
  BY <1>3, <1>7, <1>9
<1>11. world' = [world EXCEPT !.book = book, !.paid = [world.paid EXCEPT ![f] = cost],
                              !.next = [world.next EXCEPT ![f] = num]]
  BY <1>1, <1>2 DEF Chain
<1>12. /\ world' \in Chain
       /\ world'.book = book /\ world'.child = world.child /\ world'.sent = world.sent
       /\ world'.bal = world.bal
       /\ world'.paid = [world.paid EXCEPT ![f] = cost]
       /\ world'.next = [world.next EXCEPT ![f] = num]
  BY <1>2, <1>6, <1>10, <1>11 DEF Chain
<1> QED
  BY <1>1, <1>3, <1>4, <1>5, <1>7, <1>8, <1>12

LEMMA TakeStep ==
  ASSUME FInv, Take
  PROVE  FInv' /\ Kept
<1> DEFINE f   == Top.self
           c   == ChildOf(f, Top.ask, world)
           new == [Top EXCEPT !.last = NothingYet, !.value = 0]
<1>1. /\ f \in Maker /\ Top.kind = "create" /\ world' \in Chain /\ c \in world.child
      /\ world'.book = world.book \cup {c}
      /\ world'.child = world.child /\ world'.sent = world.sent
      /\ world'.bal = world.bal
      /\ world'.paid[f] = world.paid[f]
                            + (IF Top.last.tag = "Ok" THEN Top.value ELSE 0)
      /\ \A g \in Maker \ {f} : /\ world'.paid[g] = world.paid[g]
                                /\ world'.next[g] = world.next[g]
  BY TakeIs
<1>2. depth > 0 /\ Top.pc = "run" /\ depth' = depth /\ made' = made
  BY DEF Take
<1>3. /\ depth \in Depths /\ depth \in 1 .. depth /\ depth \in Nat
      /\ Top = frame[depth] /\ Top \in FrameType
      /\ world \in Chain /\ GoodWorld(world) /\ After(depth) = world
  BY <1>2, TopIs DEF FInv, Worlds
<1>4. frame' = [frame EXCEPT ![depth] = new]
  BY <1>3 DEF Take, FInv, Stack
<1>5. /\ new \in FrameType /\ new.kind = "create" /\ new.self = Top.self
      /\ new.ask = Top.ask /\ new.entry = Top.entry /\ new.pc = "run" /\ ~ Answered(new)
      /\ Honest(new)
  <2>1. NothingYet \in Answer /\ NothingYet.tag = "None"
    BY BytesMade DEF NothingYet, NoChild, Answer, AnswerTag, NoBytes, Bytes, Source
  <2> QED
    BY <1>1, <1>2, <1>3, <2>1, NothingIsHonest DEF FrameType, Answered
<1> HIDE DEF new, c
<1>6. /\ frame' \in [Depths -> FrameType \cup {NoFrame}] /\ frame'[depth] = new
      /\ \A d \in Depths : d # depth => frame'[d] = frame[d]
  BY <1>3, <1>4, <1>5 DEF FInv, Stack
<1>7. GoodWorld(world')
  BY <1>1, <1>3 DEF GoodWorld
<1>8. Grow(world, world')
  <2>1. \A a : Holding(world.bal, a) \in Nat
    BY <1>3, ChainIs
  <2> QED
    BY <1>1, <2>1 DEF Grow
\* No other frame of a factory that numbers its children can be on the stack.
<1>9. \A d \in 1 .. depth - 1 :
        frame[d].self \in Sequential =>
          world'.next[frame[d].self] = After(depth).next[frame[d].self]
  <2> SUFFICES ASSUME NEW d \in 1 .. depth - 1, frame[d].self \in Sequential
               PROVE  world'.next[frame[d].self] = world.next[frame[d].self]
    BY <1>3
  <2>1. d \in 1 .. depth /\ d # depth
    BY <1>3
  <2>2. frame[d].self \in Maker /\ frame[d].self \notin Reentrant
    BY FactoryAssumption
  <2>3. frame[d].self # f
    BY <1>3, <2>1, <2>2 DEF FInv, Alone
  <2> QED
    BY <1>1, <2>2, <2>3
<1>10. Got'
  <2>1. Top' = new
    BY <1>2, <1>6 DEF Top
  <2> QED
    BY <1>5, <2>1 DEF Got
<1>11. /\ depth \in 0 .. depth /\ made' \in 0 .. MaxPerTx
       /\ \A d \in 1 .. depth - 1 : frame'[d] = frame[d]
       /\ \A d \in Depths : d > depth => frame'[d] = NoFrame
  <2>1. /\ made \in 0 .. MaxPerTx
        /\ \A d \in 1 .. depth - 1 : d \in Depths /\ d # depth
        /\ \A d \in Depths : d > depth => d # depth /\ frame[d] = NoFrame
    BY FactoryAssumption DEF FInv, Stack, Depths
  <2> QED
    BY <1>2, <1>3, <1>6, <2>1
<1>12. \A g \in Maker : Level(g, world', frame', depth)
  <2> SUFFICES ASSUME NEW g \in Maker PROVE Level(g, world', frame', depth)
    OBVIOUS
  <2>1. Pending(g, new) = 0
    BY <1>5 DEF Pending, Answered
  <2>2. Pending(g, Top) = IF g = f /\ Top.last.tag = "Ok" THEN Top.value ELSE 0
    BY <1>1, <1>2 DEF Pending
  <2>3. /\ world.bal[g] \in Nat /\ world.paid[g] \in Nat /\ world'.bal = world.bal
        /\ Top.value \in {0, 1}
    BY <1>1, <1>3, AccountIs DEF FrameType
  <2>4. world'.bal[g] + world'.paid[g] + Pending(g, new)
          = world.bal[g] + world.paid[g] + Pending(g, Top)
    BY <1>1, <2>1, <2>2, <2>3
  <2> QED
    BY <1>1, <1>2, <1>5, <1>6, <1>11, <2>4, LevelTop
<1> QED
  BY <1>1, <1>2, <1>3, <1>5, <1>6, <1>7, <1>8, <1>9, <1>10, <1>11, <1>12, StackStep

\* What the caller of the frame that ends may find: all of its work, or none.
LEMMA BelowTop ==
  ASSUME FInv, depth > 0, NEW w \in {world, Top.entry}, NEW k \in Nat, k = depth - 1
  PROVE  /\ w \in Chain /\ GoodWorld(w)
         /\ k > 0 => /\ After(k) = Top.entry /\ Grow(After(k), w)
                     /\ \A d \in 1 .. k :
                          frame[d].self \in Sequential =>
                            w.next[frame[d].self] = After(k).next[frame[d].self]
<1>1. /\ depth \in Depths /\ depth \in 1 .. depth /\ depth \in Nat
      /\ Top = frame[depth] /\ GoodWorld(world) /\ GoodWorld(Top.entry)
      /\ world \in Chain /\ Top.entry \in Chain /\ After(depth) = world
  BY TopIs DEF FInv, Worlds
<1>2. k < depth /\ k + 1 = depth /\ depth \in 1 .. depth
  BY <1>1
<1>3. After(k) = Top.entry
  BY <1>1, <1>2 DEF After
<1>4. Grow(Top.entry, w)
  <2>1. Grow(frame[depth].entry, After(depth))
    BY <1>1 DEF FInv, Grows
  <2> QED
    BY <1>1, <2>1, GrowSelf
<1>5. ASSUME NEW d \in 1 .. k, frame[d].self \in Sequential
      PROVE  w.next[frame[d].self] = Top.entry.next[frame[d].self]
  <2> SUFFICES world.next[frame[d].self] = Top.entry.next[frame[d].self]
    OBVIOUS
  <2>1. d \in 1 .. depth - 1
    BY <1>1, <1>2
  <2>2. world.next[frame[d].self] = frame[d + 1].entry.next[frame[d].self]
    BY <1>1, <1>5, <2>1 DEF FInv, Numbered
  <2>3. CASE d = k
    BY <1>1, <1>2, <2>2, <2>3
  <2>4. CASE d # k
    <3>1. k \in 1 .. depth /\ d \in 1 .. k - 1
      BY <1>1, <1>2, <2>4
    <3>2. After(k).next[frame[d].self] = frame[d + 1].entry.next[frame[d].self]
      BY <1>5, <3>1 DEF FInv, Numbered
    <3> QED
      BY <1>3, <2>2, <3>2
  <2> QED
    BY <2>3, <2>4
<1> QED
  BY <1>1, <1>3, <1>4, <1>5

LEMMA PopStep ==
  ASSUME FInv, depth > 0, Top.kind = "create", NEW w, Pop(w),
         w = Top.entry \/ (w = world /\ Creating)
  PROVE  FInv' /\ Kept
<1>1. PICK k \in Nat : k = depth - 1
  BY DEF FInv, Stack
<1>2. /\ GoodWorld(w)
      /\ k > 0 => /\ After(k) = Top.entry /\ Grow(After(k), w)
                  /\ \A d \in 1 .. k :
                       frame[d].self \in Sequential =>
                         w.next[frame[d].self] = After(k).next[frame[d].self]
  <2>1. w \in {world, Top.entry}
    OBVIOUS
  <2> QED
    BY <1>1, <2>1, BelowTop
<1>3. /\ world' = w /\ depth' = k /\ frame' = [frame EXCEPT ![depth] = NoFrame]
      /\ made' = IF depth = 1 THEN 0 ELSE made
  BY <1>1 DEF Pop
<1>4. /\ depth \in Depths /\ depth \in 1 .. depth /\ Top = frame[depth] /\ Top \in FrameType
      /\ depth \in Nat /\ depth = k + 1 /\ depth <= MaxDepth /\ MaxDepth \in Nat
      /\ made' \in 0 .. MaxPerTx
  BY <1>1, <1>3, TopIs, FactoryAssumption DEF FInv, Stack
<1>5. /\ frame' \in [Depths -> FrameType \cup {NoFrame}] /\ frame'[depth] = NoFrame
      /\ \A d \in Depths : d # depth => frame'[d] = frame[d]
  BY <1>3, <1>4 DEF FInv, Stack
<1>6. /\ \A d \in 1 .. k : frame'[d] = frame[d] /\ frame[d] \in FrameType
      /\ \A d \in Depths : d > k => frame'[d] = NoFrame
  <2>1. \A d \in 1 .. k : d \in Depths /\ d # depth /\ d \in 1 .. depth
    BY <1>4 DEF Depths
  <2>2. \A d \in Depths : d > k => d = depth \/ (d > depth /\ d # depth)
    BY <1>4 DEF Depths
  <2> QED
    BY <1>5, <2>1, <2>2 DEF FInv, Stack
<1>7. k > 0 => frame[k].kind = "ctor" /\ frame[k].last = NothingYet
  <2> SUFFICES ASSUME k > 0 PROVE frame[k].kind = "ctor" /\ frame[k].last = NothingYet
    OBVIOUS
  <2>1. KindAt(depth) = "create" /\ k \in 1 .. depth
    BY <1>4 DEF FInv, Stack
  <2>2. depth % 2 = 1
    BY <2>1 DEF KindAt
  <2>3. k % 2 = 0
    BY <1>4, <2>2
  <2>4. frame[k].kind = "ctor"
    BY <2>1, <2>3 DEF FInv, Stack, KindAt
  <2> QED
    BY <2>1, <2>4 DEF FInv, Frames, CtorFrame
<1>8. Got'
  <2>1. k > 0 => Top' = frame[k]
    BY <1>3, <1>6 DEF Top
  <2> QED
    BY <1>3, <1>7, <2>1 DEF Got, Answered, NothingYet, NoChild
<1>9. k \in 0 .. depth /\ (k > 0 => frame'[k] = frame[k] /\ frame[k] \in FrameType)
  BY <1>4, <1>6
<1>10. \A g \in Maker : Level(g, world', frame', k)
  <2> SUFFICES ASSUME NEW g \in Maker PROVE Level(g, w, frame', k)
    BY <1>3
  <2>1. CASE w = Top.entry
    <3>1. Level(g, Top.entry, frame, Under(depth))
      BY <1>4 DEF FInv, Balanced
    <3>2. Under(depth) = k
      BY <1>4 DEF FInv, Stack, KindAt, Under
    <3>3. HeldTo(g, frame', k) = HeldTo(g, frame, k)
      BY <1>6, HeldSame
    <3> QED
      BY <2>1, <3>1, <3>2, <3>3 DEF Level
  <2>2. CASE w = world /\ Creating
    <3>1. Pending(g, Top) = 0
      BY <2>2 DEF Creating, Pending
    <3> QED
      BY <1>1, <1>6, <2>2, <3>1, LevelBelow
  <2> QED
    BY <2>1, <2>2
<1>11. /\ \A d \in 1 .. k - 1 : frame'[d] = frame[d]
       /\ k > 0 => frame[k].kind # "create"
       /\ k > 0 => /\ Grow(After(k), world')
                   /\ \A d \in 1 .. k - 1 :
                        frame[d].self \in Sequential =>
                          world'.next[frame[d].self] = After(k).next[frame[d].self]
  <2>1. \A d \in 1 .. k - 1 : d \in 1 .. k
    OBVIOUS
  <2> QED
    BY <1>2, <1>3, <1>6, <1>7, <2>1
<1> QED
  BY <1>2, <1>3, <1>4, <1>5, <1>6, <1>8, <1>9, <1>10, <1>11, StackStep

LEMMA CtorIs ==
  ASSUME FInv, depth > 0, Top.kind = "ctor"
  PROVE  LET c == ChildOf(Below.self, Below.ask, Top.entry)
         IN  /\ depth - 1 \in 1 .. depth /\ Below = frame[depth - 1]
             /\ Below \in FrameType /\ Below.kind = "create" /\ Below.self \in Maker
             /\ Below.pc = "call" /\ ~ Answered(Below)
             /\ Top.self = c.at /\ Top.self \in AddressSpace
             /\ Below.before = Top.entry /\ ~ Exists(Top.entry, Top.self)
             /\ Born(world, c, Below.value)
             /\ c = ChildOf(Below.self, Below.ask, world)
<1> DEFINE c == ChildOf(Below.self, Below.ask, Top.entry)
<1>1. /\ depth \in Depths /\ depth \in 1 .. depth /\ depth \in Nat
      /\ Top = frame[depth] /\ After(depth) = world /\ world \in Chain
  BY TopIs DEF FInv
<1>2. CtorFrame(Top, Below, world)
  BY <1>1 DEF FInv, Frames, Below
<1>3. depth - 1 \in 1 .. depth /\ Below \in FrameType /\ Below.kind = "create"
  <2>1. KindAt(depth) = "ctor"
    BY <1>1 DEF FInv, Stack
  <2>2. depth % 2 # 1
    BY <2>1 DEF KindAt
  <2>3. depth - 1 \in 1 .. depth /\ (depth - 1) % 2 = 1
    BY <1>1, <2>2
  <2> QED
    BY <2>3 DEF FInv, Stack, KindAt, Below
<1>4. MakerFrame(Below, FALSE)
  <2>1. MakerFrame(frame[depth - 1], depth - 1 = depth)
    BY <1>3 DEF FInv, Frames, Below
  <2> QED
    BY <1>1, <2>1 DEF Below, MakerFrame
<1>5. c \in Genuine
  BY <1>1, <1>2, ChainIs DEF CtorFrame, Born
<1>6. c = ChildOf(Below.self, Below.ask, world)
  <2>1. Below.self \in Sequential => world.next[Below.self] = Top.entry.next[Below.self]
    <3>1. depth - 1 \in 1 .. depth - 1 /\ (depth - 1) + 1 = depth
      BY <1>1, <1>3
    <3>2. \A d \in 1 .. depth - 1 :
            frame[d].self \in Sequential =>
              After(depth).next[frame[d].self] = frame[d + 1].entry.next[frame[d].self]
      BY <1>1 DEF FInv, Numbered
    <3> QED
      BY <1>1, <3>1, <3>2 DEF Below
  <2> QED
    BY <2>1, ChildSame
<1>7. c.at \in AddressSpace
  BY <1>5, GenuineAt
<1> QED
  BY <1>2, <1>3, <1>4, <1>6, <1>7 DEF MakerFrame, CtorFrame, Below

LEMMA CtorEndStep ==
  ASSUME FInv, NEW status \in {StatusOk, CtorReverted}, NEW w, NEW sent \in Bytes,
         CtorEnds(status, w, sent),
         sent = NoBytes \/ sent.src = IF status = StatusOk THEN "ret" ELSE "rev",
         w = IF status = StatusOk THEN world ELSE Top.entry
  PROVE  FInv' /\ Kept
<1> DEFINE c   == ChildOf(Below.self, Below.ask, Top.entry)
           io  == Outcome(status, Top.self, sent.len, sent, RustCap)
           new == Deliver(Below, io)
<1>1. /\ depth > 0 /\ Top.kind = "ctor" /\ world' = w /\ depth' = depth - 1 /\ made' = made
      /\ frame' = [frame EXCEPT ![depth] = NoFrame, ![depth - 1] = new]
  BY DEF CtorEnds
<1>2. /\ depth - 1 \in 1 .. depth /\ Below = frame[depth - 1]
      /\ Below \in FrameType /\ Below.kind = "create" /\ Below.self \in Maker
      /\ Top.self = c.at /\ Top.self \in AddressSpace
      /\ Below.before = Top.entry /\ ~ Exists(Top.entry, Top.self)
      /\ Born(world, c, Below.value)
      /\ c = ChildOf(Below.self, Below.ask, world)
  BY <1>1, CtorIs
<1> HIDE DEF c
<1>3. PICK k \in Nat : k = depth - 1
  BY <1>2
<1>4. /\ depth \in Depths /\ depth \in 1 .. depth /\ Top = frame[depth] /\ depth \in Nat
      /\ depth = k + 1 /\ k > 0 /\ depth <= MaxDepth /\ MaxDepth \in Nat
      /\ k \in 1 .. depth /\ k \in Depths /\ made' \in 0 .. MaxPerTx
  <2>1. /\ depth \in Depths /\ depth \in 1 .. depth /\ Top = frame[depth]
        /\ depth \in Nat /\ depth <= MaxDepth /\ MaxDepth \in Nat
    BY <1>1, TopIs, FactoryAssumption DEF FInv, Stack
  <2>2. depth = k + 1 /\ k > 0 /\ k \in 1 .. depth /\ k \in Depths
    BY <1>2, <1>3, <2>1 DEF Depths
  <2> QED
    BY <1>1, <2>1, <2>2 DEF FInv, Stack
<1>5. /\ GoodWorld(w) /\ After(k) = Top.entry /\ Grow(After(k), w)
      /\ \A d \in 1 .. k :
           frame[d].self \in Sequential =>
             w.next[frame[d].self] = After(k).next[frame[d].self]
  <2>1. w \in {world, Top.entry}
    OBVIOUS
  <2> QED
    BY <1>1, <1>3, <1>4, <2>1, BelowTop
<1>6. /\ IsOutcome(io) /\ io.status = status /\ io.addr = Top.self
      /\ Told(io)
  <2>1. /\ status \in InstantiateStatus /\ sent.len \in Nat
        /\ Top.self \in AddressSpace \cup {Zero}
    BY <1>2 DEF InstantiateStatus, Bytes
  <2>2. StatusOk # CtorReverted
    BY DEF StatusOk, CtorReverted
  <2> QED
    BY <2>1, <2>2, RustCapAssumption, OutcomeIs DEF Told
<1> HIDE DEF io
<1>7. /\ new \in FrameType /\ new.kind = "create" /\ new.self = Below.self
      /\ new.ask = Below.ask /\ new.entry = Below.entry /\ new.pc \in {"run", "halt"}
      /\ new.last.tag = "Ok" <=> status = StatusOk
      /\ new.last.tag = "Exists" => status = AddressOccupied
      /\ Answered(new) => new.last.addr = Top.self
      /\ new.last.tag = "Ok" => new.value = Below.value /\ new.before = Below.before
  BY <1>2, <1>6, DeliverIs
<1>14. NoGoFactory => Honest(new)
  BY <1>2, <1>6, DeliverHonest
<1> HIDE DEF new
<1>8. /\ frame' \in [Depths -> FrameType \cup {NoFrame}]
      /\ frame'[depth] = NoFrame /\ frame'[k] = new
      /\ \A d \in Depths : d # depth /\ d # k => frame'[d] = frame[d]
  BY <1>1, <1>3, <1>4, <1>7 DEF FInv, Stack
<1>9. /\ \A d \in 1 .. k - 1 : frame'[d] = frame[d]
      /\ \A d \in Depths : d > k => frame'[d] = NoFrame
  <2>1. \A d \in 1 .. k - 1 : d \in Depths /\ d # depth /\ d # k
    BY <1>4 DEF Depths
  <2>2. \A d \in Depths : d > k => d = depth \/ (d > depth /\ d # depth /\ d # k)
    BY <1>4 DEF Depths
  <2> QED
    BY <1>8, <2>1, <2>2 DEF FInv, Stack
<1>10. Got'
  <2>1. Top' = new
    BY <1>1, <1>3, <1>8 DEF Top
  <2> SUFFICES ASSUME Answered(new)
               PROVE  LET b == ChildOf(new.self, new.ask, world')
                      IN  /\ new.kind = "create"
                          /\ new.last.addr = b.at
                          /\ b \in world'.child
                          /\ ~ Exists(new.before, b.at)
                          /\ Born(world', b, new.value)
                          /\ \A d \in 1 .. k : frame'[d].self # b.at
    BY <1>1, <1>3, <2>1 DEF Got
  <2>2. status = StatusOk /\ new.last.tag = "Ok" /\ world' = world
    BY <1>1, <1>7 DEF Answered, AddressOccupied, StatusOk, CtorReverted
  <2>3. ChildOf(new.self, new.ask, world') = c
    BY <1>2, <1>7, <2>2
  <2>4. \A d \in 1 .. k : frame[d].self # Top.self
    BY <1>2, <1>4, <1>5, BuiltIsThere
  <2>5. \A d \in 1 .. k : frame'[d].self = frame[d].self
    <3>1. \A d \in 1 .. k : d = k \/ d \in 1 .. k - 1
      BY <1>4
    <3> QED
      BY <1>2, <1>3, <1>7, <1>8, <1>9, <3>1
  <2>6. c \in world.child
    BY <1>2 DEF Born
  <2> QED
    BY <1>2, <1>7, <2>2, <2>3, <2>4, <2>5, <2>6
<1>11. k \in 0 .. depth /\ depth' = k
  BY <1>1, <1>3, <1>4
<1>12. /\ frame[k].kind = "create" /\ new.self = frame[k].self /\ new.ask = frame[k].ask
       /\ new.entry = frame[k].entry
  BY <1>2, <1>3, <1>7
<1>13. \A d \in 1 .. k - 1 : d \in 1 .. k
  BY <1>4
<1>15. \A g \in Maker : Level(g, world', frame', k)
  <2> SUFFICES ASSUME NEW g \in Maker PROVE Level(g, w, frame', k)
    BY <1>1
  <2>1. PICK j \in Nat : j = k - 1
    BY <1>4
  <2>2. /\ \A d \in 1 .. k : frame'[d] \in FrameType /\ frame[d] \in FrameType
        /\ \A d \in 1 .. j : frame'[d] = frame[d]
        /\ \A d \in 1 .. j : frame[d] \in FrameType
    <3>1. \A d \in 1 .. k : d \in 1 .. depth /\ (d = k \/ d \in 1 .. k - 1)
      BY <1>4
    <3>2. \A d \in 1 .. depth : frame[d] \in FrameType
      BY DEF FInv, Stack
    <3>3. \A d \in 1 .. j : d \in 1 .. k - 1 /\ d \in 1 .. k
      BY <1>4, <2>1
    <3> QED
      BY <1>7, <1>8, <1>9, <3>1, <3>2, <3>3
  <2>3. /\ HeldTo(g, frame', k) = HeldTo(g, frame', j) + Pending(g, new)
        /\ HeldTo(g, frame, k) = HeldTo(g, frame, j) + Pending(g, Below)
        /\ HeldTo(g, frame', j) = HeldTo(g, frame, j) /\ HeldTo(g, frame, j) \in Int
    <3>1. k \in Nat
      BY <1>4
    <3>2. /\ HeldTo(g, frame', k) = HeldTo(g, frame', j) + Pending(g, frame'[k])
          /\ HeldTo(g, frame, k) = HeldTo(g, frame, j) + Pending(g, frame[k])
      BY <2>1, <2>2, <3>1, HeldIs
    <3>3. HeldTo(g, frame', j) = HeldTo(g, frame, j) /\ HeldTo(g, frame, j) \in Int
      BY <2>2, HeldIs, HeldSame
    <3> QED
      BY <1>2, <1>3, <1>8, <3>2, <3>3
  <2>4. CASE status = StatusOk
    <3>1. Pending(g, Top) = 0
      BY <1>1 DEF Pending
    <3>2. Level(g, world, frame, k)
      BY <1>1, <1>3, <1>4, <3>1, LevelBelow
    <3>3. Pending(g, new) = Pending(g, Below)
      BY <1>1, <1>2, <1>7, <2>4, CtorIs DEF Pending
    <3> QED
      BY <2>3, <2>4, <3>2, <3>3 DEF Level
  <2>5. CASE status # StatusOk
    <3>1. Level(g, Top.entry, frame, Under(depth))
      BY <1>4 DEF FInv, Balanced
    <3>2. Under(depth) = j
      BY <1>1, <1>4, <2>1 DEF FInv, Stack, KindAt, Under
    <3>3. Pending(g, new) = 0
      BY <1>7, <2>5 DEF Pending
    <3> QED
      BY <2>3, <2>5, <3>1, <3>2, <3>3 DEF Level
  <2> QED
    BY <2>4, <2>5
<1> QED
  BY <1>1, <1>4, <1>5, <1>7, <1>8, <1>9, <1>10, <1>11, <1>12, <1>13, <1>14, <1>15, StackStep

LEMMA InitFInv == Init => FInv
<1> SUFFICES ASSUME Init PROVE FInv
  OBVIOUS
<1>1. /\ depth = 0 /\ made = 0 /\ frame = [d \in Depths |-> NoFrame]
      /\ world = [child |-> {}, book |-> {}, sent |-> {},
                  bal  |-> [a \in Account |-> Supply],
                  paid |-> [f \in Maker |-> 0],
                  next |-> [f \in Maker |-> 0]]
  BY DEF Init, Account
<1>2. [a \in Account |-> Supply] \in Ledger
  <2>1. [a \in Account |-> Supply] \in [Account -> Nat]
    BY FactoryAssumption
  <2>2. Account \in {T \in SUBSET (Account \cup AddressSpace) : Account \subseteq T}
    OBVIOUS
  <2> QED
    BY <2>1, <2>2 DEF Ledger
<1>3. GoodWorld(world)
  <2> DEFINE b == [a \in Account |-> Supply]
             z == [f \in Maker |-> 0]
  <2>1. b \in Ledger /\ z \in [Maker -> Nat]
    BY <1>2
  <2>2. world = [child |-> {}, book |-> {}, sent |-> {}, bal |-> b, paid |-> z, next |-> z]
    BY <1>1
  <2> HIDE DEF b, z
  <2> QED
    BY <2>1, <2>2 DEF GoodWorld, Chain
<1>4. Stack
  BY <1>1, FactoryAssumption DEF Stack, Depths
<1>5. Worlds /\ Grows /\ Frames /\ Numbered /\ Alone /\ Got
  BY <1>1, <1>3 DEF Worlds, Grows, Frames, Numbered, Alone, Got
<1>6. Balanced
  <2> SUFFICES ASSUME NEW f \in Maker PROVE Level(f, world, frame, 0)
    BY <1>1 DEF Balanced
  <2>1. world.bal[f] = Supply /\ world.paid[f] = 0 /\ Supply \in Nat
    BY <1>1, FactoryAssumption DEF Account
  <2>2. HeldTo(f, frame, 0) = 0
    <3>1. \A d \in 1 .. 0 : frame[d] \in FrameType
      OBVIOUS
    <3> QED
      BY <3>1, HeldIs
  <2> QED
    BY <2>1, <2>2 DEF Level
<1> QED
  BY <1>4, <1>5, <1>6 DEF FInv

LEMMA NextFInv == FInv /\ [Next]_vars => FInv' /\ Kept
<1> SUFFICES ASSUME FInv, [Next]_vars PROVE FInv' /\ Kept
  OBVIOUS
<1>1. ASSUME NEW f \in Maker, NEW a \in Asked(f), Fund(f, a) \/ Create(f, a) PROVE FInv' /\ Kept
  BY <1>1, FundStep, CreateStep
<1>2. ASSUME NEW v \in {0, 1}, NEW style \in StylesOfFactory(Top.self), Instantiate(v, style)
      PROVE  FInv' /\ Kept
  BY <1>2, InstantiateStep
<1>3. ASSUME NEW v \in {0, 1}, NEW style \in StylesOfFactory(Top.self),
             NEW withArgs \in BOOLEAN,
             \/ Refuse(v, style, withArgs) \/ EnterCtor(v, style, withArgs)
             \/ TooDeep(v, withArgs)
      PROVE  FInv' /\ Kept
  <2>1. CASE Refuse(v, style, withArgs)
    BY <2>1, RefuseStep
  <2>2. CASE EnterCtor(v, style, withArgs)
    BY <2>2, EnterCtorStep
  <2>3. CASE TooDeep(v, withArgs)
    BY <2>3, PopStep DEF TooDeep, Asks, Creating
  <2> QED
    BY <1>3, <2>1, <2>2, <2>3
<1>4. ASSUME NEW n \in Size, CtorReturns(n) PROVE FInv' /\ Kept
  <2>1. Made("ret", n) \in Bytes
    BY FactoryAssumption, BytesMade DEF Source
  <2>2. Made("ret", n) = NoBytes \/ Made("ret", n).src = "ret"
    BY DEF Made
  <2> QED
    BY <1>4, <2>1, <2>2, CtorEndStep DEF CtorReturns
<1>5. ASSUME NEW n \in Size, CtorFails(n) PROVE FInv' /\ Kept
  <2>1. Made("rev", n) \in Bytes /\ CtorReverted # StatusOk
    BY FactoryAssumption, BytesMade DEF Source, CtorReverted, StatusOk
  <2>2. Made("rev", n) = NoBytes \/ Made("rev", n).src = "rev"
    BY DEF Made
  <2> QED
    BY <1>5, <2>1, <2>2, CtorEndStep DEF CtorFails
<1>6. CASE Take
  BY <1>6, TakeStep
<1>7. CASE Returns
  BY <1>7, PopStep DEF Returns, Creating
<1>8. CASE Reverts
  <2>1. depth > 0 /\ Pop(Top.entry)
    BY <1>8 DEF Reverts, Creating
  <2>2. Top.kind = "create"
    <3>1. Top.kind = "create" \/ Top.pc = "halt"
      BY <1>8 DEF Reverts, Creating
    <3>2. Top \in FrameType /\ depth \in 1 .. depth /\ Top = frame[depth]
      BY <2>1, TopIs DEF FInv
    <3>3. Top.pc = "halt" => Top.kind = "create"
      BY <3>2 DEF FInv, Frames, CtorFrame
    <3> QED
      BY <3>1, <3>3
  <2> QED
    BY <2>1, <2>2, PopStep
<1>9. CASE UNCHANGED vars
  BY <1>9 DEF vars, FInv, Stack, Worlds, Grows, Frames, Numbered, Alone, Got, After, Top,
                   Balanced, Kept
<1> QED
  BY <1>1, <1>2, <1>3, <1>4, <1>5, <1>6, <1>7, <1>8, <1>9 DEF Next

LEMMA AlwaysFInv == Spec => []FInv
BY InitFInv, NextFInv, PTL DEF Spec

-----------------------------------------------------------------------------
(* What always holds *)

\* The state keeps its shape: in particular the frames alternate, a factory's
\* call and the constructor it runs, within the host's cap.
THEOREM FactoryTypeOK == Spec => []TypeOK
<1>1. ASSUME FInv PROVE TypeOK
  <2>1. world \in Chain
    BY <1>1 DEF FInv, Worlds, GoodWorld
  <2>2. World(world) /\ DOMAIN world.bal \subseteq Maker \cup {Payer} \cup AddressSpace
    BY <2>1, LedgerIs DEF World, Chain, Account
  <2>3. ASSUME NEW d \in Depths
        PROVE  frame[d].kind = IF d > depth THEN "none"
                               ELSE IF d % 2 = 1 THEN "create" ELSE "ctor"
    <3>1. d \in Nat /\ depth \in Nat /\ (d > depth \/ d \in 1 .. depth)
      BY <1>1, FactoryAssumption DEF FInv, Stack, Depths
    <3> QED
      BY <1>1, <3>1 DEF FInv, Stack, KindAt, NoFrame
  <2> QED
    BY <1>1, <2>2, <2>3 DEF TypeOK, FInv, Stack
<1> QED
  BY <1>1, AlwaysFInv, PTL

\* A factory's book never names a child that is not there, however the
\* constructors nest, call back and revert.
THEOREM BookAlwaysTrue == Spec => []BookIsTrue
<1>1. FInv => BookIsTrue
  BY DEF FInv, Worlds, GoodWorld, BookIsTrue
<1> QED
  BY <1>1, AlwaysFInv, PTL

\* Ok(addr) is said of a child that was not there before the call, is there now
\* with its endowment, and that no constructor on the stack is still building.
THEOREM OkAlwaysBorn == Spec => []OkIsBorn
<1>1. ASSUME FInv PROVE OkIsBorn
  <2> SUFFICES ASSUME depth > 0, Top.last.tag = "Ok" PROVE OkIsBorn
    BY DEF OkIsBorn
  <2> DEFINE c == ChildOf(Top.self, Top.ask, world)
  <2>1. /\ Top.last.addr = c.at /\ ~ Exists(Top.before, c.at)
        /\ Born(world, c, Top.value)
        /\ \A d \in 1 .. depth : frame[d].self # c.at
    BY <1>1 DEF FInv, Got, Answered
  <2> HIDE DEF c
  <2>2. Exists(world, c.at) /\ Balance(world, c.at) >= Top.value
    BY <2>1 DEF Born, Exists, Balance, Holding
  <2>3. c.at \notin UnderConstruction
    BY <2>1 DEF UnderConstruction
  <2> QED
    BY <2>1, <2>2, <2>3 DEF OkIsBorn
<1> QED
  BY <1>1, AlwaysFInv, PTL

\* One child for each unordered pair and each number, and one of them for each
\* address, on the chain and in the book.
THEOREM AlwaysOneEach == Spec => []OneEach
<1>1. ASSUME FInv PROVE OneEach
  <2>1. world.child \subseteq Genuine /\ world.book \subseteq Genuine
    BY <1>1, ChainIs DEF FInv, Worlds, GoodWorld
  <2> QED
    BY <2>1, RecordExact DEF OneEach
<1> QED
  BY <1>1, AlwaysFInv, PTL

\* What was paid to an address a wallet computed is with the child, made
\* before or after.
THEOREM PaymentAlwaysReachesChild == Spec => []PaymentReachesChild
<1>1. ASSUME FInv PROVE PaymentReachesChild
  <2> SUFFICES ASSUME NEW s \in world.sent
               PROVE  /\ \A c \in world.child : c.of = s.of => c.at = s.at
                      /\ Balance(world, s.at) > 0
    BY DEF PaymentReachesChild
  <2>1. world.child \subseteq Genuine /\ s \in Genuine
    BY <1>1, ChainIs DEF FInv, Worlds, GoodWorld
  <2>2. \A c \in world.child : c.of = s.of => c.at = s.at
    BY <2>1, RecordExact
  <2>3. Holding(world.bal, s.at) > 0
    BY <1>1 DEF FInv, Worlds, GoodWorld
  <2> QED
    BY <2>2, <2>3 DEF Balance, Holding
<1> QED
  BY <1>1, AlwaysFInv, PTL

\* An instantiate that fails, at any depth and for any reason, costs a factory
\* nothing.
THEOREM BooksAlwaysBalance == Spec => []BooksBalance
<1>1. ASSUME FInv PROVE BooksBalance
  <2> SUFFICES ASSUME NEW f \in Maker
               PROVE  world.bal[f] + world.paid[f] + Held(f) = Supply
    BY DEF BooksBalance
  <2>1. Held(f) = HeldTo(f, frame, depth)
    BY DEF Held, HeldTo, FoldFunction, SumOn
  <2>2. Level(f, world, frame, depth)
    BY <1>1 DEF FInv, Balanced
  <2> QED
    BY <2>1, <2>2 DEF Level
<1> QED
  BY <1>1, AlwaysFInv, PTL

\* The bytes a Rust or AssemblyScript factory is given are what this child's
\* constructor reverted with, or, on success and in AssemblyScript, returned,
\* whether a refusal writes the length slot or not; a refusal gives none.
THEOREM PayloadAlwaysCtors ==
  ASSUME NoGoFactory
  PROVE  Spec => []PayloadIsCtors
<1>1. ASSUME FInv PROVE PayloadIsCtors
  <2> SUFFICES ASSUME depth > 0, Top.kind = "create"
               PROVE  Honest(Top)
    BY DEF PayloadIsCtors, Honest
  <2>1. depth \in 1 .. depth /\ Top = frame[depth]
    BY <1>1, TopIs DEF FInv
  <2> QED
    BY <1>1, <2>1 DEF FInv, Frames, MakerFrame
<1> QED
  BY <1>1, AlwaysFInv, PTL

\* How the last frame of a transaction ends, and how the first begins.
LEMMA LeavesBy ==
  ASSUME FInv, [Next]_vars, depth > 0, depth' = 0
  PROVE  depth = 1 /\ world' \in {world, Top.entry}
<1>1. depth \in Nat
  BY DEF FInv, Stack
<1>2. ~ UNCHANGED vars
  BY DEF vars
<1>3. ASSUME NEW w, Pop(w) PROVE depth = 1 /\ world' = w
  BY <1>1, <1>3 DEF Pop
<1>4. ASSUME NEW status, NEW w, NEW sent, CtorEnds(status, w, sent)
      PROVE  depth = 1 /\ world' = w
  BY <1>1, <1>4 DEF CtorEnds
<1>5. CASE \E f \in Maker : \E a \in Asked(f) : Fund(f, a) \/ Create(f, a)
  BY <1>1, <1>5 DEF Fund, Create
<1>6. ASSUME NEW v, NEW style, Instantiate(v, style) PROVE FALSE
  BY <1>1, <1>6 DEF Instantiate
<1>7. ASSUME NEW v, NEW style, NEW withArgs,
             Refuse(v, style, withArgs) \/ EnterCtor(v, style, withArgs)
      PROVE  FALSE
  BY <1>1, <1>7 DEF Refuse, EnterCtor
<1>8. ASSUME NEW v, NEW withArgs, TooDeep(v, withArgs)
      PROVE  depth = 1 /\ world' = Top.entry
  BY <1>3, <1>8 DEF TooDeep
<1>9. CASE \E n \in Size : CtorReturns(n) \/ CtorFails(n)
  BY <1>4, <1>9 DEF CtorReturns, CtorFails
<1>10. ~ Take
  BY DEF Take
<1>11. CASE Returns \/ Reverts
  BY <1>3, <1>11 DEF Returns, Reverts
<1> QED
  BY <1>2, <1>5, <1>6, <1>7, <1>8, <1>9, <1>10, <1>11 DEF Next

LEMMA EntersBy ==
  ASSUME FInv, [Next]_vars, depth = 0
  PROVE  /\ depth' = 0 => world'.child = world.child /\ world'.book = world.book
         /\ depth' > 0 => depth' = 1 /\ frame'[1].entry = world
<1>1. world \in Chain
  BY DEF FInv, Worlds, GoodWorld
<1>2. CASE UNCHANGED vars
  BY <1>2 DEF vars
<1>3. ASSUME NEW f \in Maker, NEW a \in Asked(f), Fund(f, a)
      PROVE  depth' = 0 /\ world'.child = world.child /\ world'.book = world.book
  BY <1>1, <1>3 DEF Fund, Chain
<1>4. ASSUME NEW f \in Maker, NEW a \in Asked(f), Create(f, a)
      PROVE  depth' = 1 /\ frame'[1].entry = world
  <2>1. /\ depth' = 1 /\ frame' = [frame EXCEPT ![1] = NewFrame("create", f, a, world)]
        /\ 1 \in Depths
    BY <1>4, FactoryAssumption DEF Create, Depths
  <2>2. frame \in [Depths -> FrameType \cup {NoFrame}]
    BY DEF FInv, Stack
  <2> QED
    BY <2>1, <2>2 DEF NewFrame
<1>5. ~ Take /\ ~ Returns /\ ~ Reverts
  BY DEF Take, Returns, Reverts, Creating
<1>6. \A n \in Size : ~ CtorReturns(n) /\ ~ CtorFails(n)
  BY DEF CtorReturns, CtorFails, CtorEnds
<1> QED
  BY <1>2, <1>3, <1>4, <1>5, <1>6 DEF Next

\* A transaction never takes away a child, nor an entry of a book, that an
\* earlier one left; and inside one only its outcome counts.
THEOREM ChildrenAreForever == Spec => Forever
<1>1. ASSUME FInv, FInv', Kept, [Next]_vars
      PROVE  /\ Committed.child \subseteq Committed'.child
             /\ Committed.book \subseteq Committed'.book
  <2>1. depth \in Nat /\ depth' \in Nat
    BY <1>1 DEF FInv, Stack
  <2>2. CASE depth > 0 /\ depth' > 0
    <3>1. frame'[1].entry = frame[1].entry
      BY <1>1, <2>1, <2>2 DEF Kept
    <3> QED
      BY <2>2, <3>1 DEF Committed
  <2>3. CASE depth > 0 /\ depth' = 0
    <3>1. depth = 1 /\ world' \in {world, Top.entry}
      BY <1>1, <2>1, <2>3, LeavesBy
    <3>2. 1 \in 1 .. depth /\ Top = frame[1] /\ After(1) = world
      BY <3>1 DEF Top, After
    <3>3. Grow(frame[1].entry, world)
      BY <1>1, <3>1, <3>2 DEF FInv, Grows
    <3> QED
      BY <2>3, <3>1, <3>2, <3>3 DEF Committed, Grow
  <2>4. CASE depth = 0
    <3>1. /\ depth' = 0 => world'.child = world.child /\ world'.book = world.book
          /\ depth' > 0 => depth' = 1 /\ frame'[1].entry = world
      BY <1>1, <2>4, EntersBy
    <3> QED
      BY <2>1, <2>4, <3>1 DEF Committed
  <2> QED
    BY <2>1, <2>2, <2>3, <2>4
<1> QED
  <2>1. FInv /\ [Next]_vars /\ FInv' /\ Kept
          => [/\ Committed.child \subseteq Committed'.child
              /\ Committed.book \subseteq Committed'.book]_vars
    BY <1>1
  <2> QED
    BY <2>1, InitFInv, NextFInv, PTL DEF Spec, Forever
=============================================================================
