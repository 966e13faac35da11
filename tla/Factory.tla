------------------------------- MODULE Factory -------------------------------
(***************************************************************************)
(* Factory contracts that create children of a template with instantiate.  *)
(* A factory has one entry, create: it makes the child of an unordered pair*)
(* of tokens, or the next of its numbered children, and writes the child's *)
(* address into its book.  The child's constructor runs inside instantiate *)
(* and may call a factory back.  The host is external, and so is the       *)
(* factory's code, which is the idiom the SDK documents for prepare.       *)
(***************************************************************************)
EXTENDS InstantiateWrappers, ChildAddress, Functions

CONSTANTS
  Maker, SdkOf,         \* the factories, and the SDK each is built on
  Sequential,           \* those that number their children
  Reentrant,            \* those whose create may be entered while it runs
  Template,
  Deployed, WithCtor,   \* the templates that have code, and a constructor
  Colliding,            \* the addresses that collide in the host's index
  Payer,                \* who pays children in advance
  Supply,               \* what a factory, and the payer, starts with
  Size,                 \* lengths of a constructor's return and revert data
  RefusalLen,           \* what a refusal does to the length slot
  Pairs,                \* the pairs create is asked for
  MaxDepth,             \* the host's cap on the stack
  MaxPerTx,             \* and on a transaction's instantiates
  MaxNumber             \* bounds a sequential factory's children

ASSUME FactoryAssumption ==
  /\ SdkOf \in [Maker -> Sdk]
  /\ Sequential \subseteq Maker /\ Reentrant \subseteq Maker
  /\ Sequential \cap Reentrant = {}
  /\ WithCtor \subseteq Deployed /\ Deployed \subseteq Template
  /\ Payer \notin Maker
  /\ Supply \in Nat /\ Size \subseteq Nat
  /\ RefusalLen \subseteq {"kept", "zero"} /\ RefusalLen # {}
  /\ Pairs \subseteq Token \X Token /\ Pairs # {}
  /\ MaxDepth \in Nat \ {0} /\ MaxPerTx \in Nat /\ MaxNumber \in Nat

VARIABLES
  world,        \* the chain, as the running frame sees it
  depth, frame, \* the stack of frames
  made          \* instantiates of this transaction

vars == <<world, depth, frame, made>>

\* What a caller of create asks for; a numbered child has no pair.
Ask == [template : Template, pair : Pairs \cup {<<>>}]
Asked(f) == {a \in Ask : a.pair = <<>> <=> f \in Sequential}

\* What a child is the child of.
PairId(a)      == [template |-> a.template, of |-> {a.pair[1], a.pair[2]}]
NumberId(a, n) == [template |-> a.template, of |-> {n}]

World(w) ==
  /\ DOMAIN w = {"child", "bal", "book", "paid", "next", "sent"}
  /\ \A a \in DOMAIN w.bal : w.bal[a] \in Nat
  /\ w.paid \in [Maker -> Nat] /\ w.next \in [Maker -> Nat]

NoFrame  == [kind |-> "none"]
Depths   == 1 .. MaxDepth
Top      == frame[depth]
Below    == frame[depth - 1]

Init ==
  /\ world = [child |-> {}, book |-> {}, sent |-> {},
              bal  |-> [a \in Maker \cup {Payer} |-> Supply],
              paid |-> [f \in Maker |-> 0],
              next |-> [f \in Maker |-> 0]]
  /\ depth = 0
  /\ frame = [d \in Depths |-> NoFrame]
  /\ made = 0

-----------------------------------------------------------------------------
(* Addresses *)

\* The salt the factory's code derives for what it is asked.
SaltFor(f, a, w) ==
  IF f \in Sequential THEN SaltOf(w.next[f])
  ELSE SaltOfUnorderedPair(a.pair[1], a.pair[2])

IdFor(f, a, w) ==
  [by |-> f, id |-> IF f \in Sequential THEN NumberId(a, w.next[f]) ELSE PairId(a)]

\* The host derives the address itself, from the frame that runs.
HostAddr(self, template, salt) ==
  [poseidon2 |-> <<"pyde-child:", self, template, salt>>]

Exists(w, a) == \E c \in w.child : c.at = a
Balance(w, a) == IF a \in DOMAIN w.bal THEN w.bal[a] ELSE 0

Pay(bal, from, to, v) ==
  [a \in DOMAIN bal \cup {to} |->
     (IF a \in DOMAIN bal THEN bal[a] ELSE 0)
       + (IF a = to THEN v ELSE 0) - (IF a = from THEN v ELSE 0)]

\* A wallet pays a child at the address it computes, before there is a child
\* or after.
Fund(f, a) ==
  LET to == ChildAddr(f, a.template, SaltFor(f, a, world))
  IN  /\ depth = 0
      /\ f \notin Sequential
      /\ world.bal[Payer] > 0
      /\ world' = [world EXCEPT
                     !.bal = Pay(world.bal, Payer, to, 1),
                     !.sent = @ \cup {[of |-> IdFor(f, a, world), at |-> to]}]
      /\ UNCHANGED <<depth, frame, made>>

-----------------------------------------------------------------------------
(* Frames *)

NewFrame(kind, self, a, w) ==
  [kind |-> kind, self |-> self, ask |-> a, pc |-> "run", value |-> 0,
   style |-> "match", entry |-> w, before |-> w, last |-> NothingYet,
   sent |-> NoBytes]

CanEnter(f) ==
  f \in Reentrant \/ \A d \in 1 .. depth : frame[d].self # f

\* A transaction, or a constructor, calls create.
Create(f, a) ==
  /\ depth > 0 => Top.kind = "ctor"
  /\ CanEnter(f) /\ depth < MaxDepth
  /\ depth' = depth + 1
  /\ frame' = [frame EXCEPT ![depth + 1] = NewFrame("create", f, a, world)]
  /\ made' = IF depth = 0 THEN 0 ELSE made
  /\ UNCHANGED world

\* The frame on top is gone; w is what its caller sees.
Pop(w) ==
  /\ world' = w
  /\ depth' = depth - 1
  /\ frame' = [frame EXCEPT ![depth] = NoFrame]
  /\ made' = IF depth = 1 THEN 0 ELSE made

Deliver(fr, io) ==
  LET r  == WrapInstantiate(SdkOf[fr.self], fr.style, io)
      ok == r.tag = "Ok"
  IN  [fr EXCEPT !.pc = IF r.tag = "Halt" THEN "halt" ELSE "run",
                 !.last = r, !.sent = io.sent, !.style = "match",
                 !.value  = IF ok THEN fr.value ELSE 0,
                 !.before = IF ok THEN fr.before ELSE fr.entry]

\* create is running, and has dealt with its last instantiate.
Creating ==
  /\ depth > 0 /\ Top.kind = "create" /\ Top.pc = "run"
  /\ Top.last.tag \notin {"Ok", "Exists"}

\* It asks for its child, now or once more.
Asks == Creating /\ (Top.self \in Sequential => world.next[Top.self] < MaxNumber)

Asking(v, style) ==
  [Top EXCEPT !.value = v, !.style = style, !.before = world]

StylesOfFactory(f) == IF SdkOf[f] = "rust" THEN {"match"} ELSE InstantiateStyle

Salt   == SaltFor(Top.self, Top.ask, world)
Target == HostAddr(Top.self, Top.ask.template, Salt)

\* The statuses instantiate may be refused with; withArgs: there is calldata
\* for a constructor.
Refusals(v, withArgs) ==
  IF made = MaxPerTx THEN {CapExceeded}
  ELSE {c \in InstantiateStatus :
          \/ c = TemplateNotFound /\ Top.ask.template \notin Deployed
          \/ c = AddressOccupied /\ Exists(world, Target)
          \/ c = CtorMismatch /\ withArgs /\ Top.ask.template \notin WithCtor
          \/ c = PrefixCollision /\ Target \in Colliding
          \/ c = InsufficientBalance /\ v > world.bal[Top.self]}

Refuse(v, style, withArgs) ==
  /\ Asks
  /\ \E c \in Refusals(v, withArgs), l \in RefusalLen :
       frame' = [frame EXCEPT ![depth] =
         Deliver(Asking(v, style),
                 Outcome(c, IF c = CapExceeded THEN Zero ELSE Target,
                         IF l = "kept" THEN RustCap ELSE 0, NoBytes, RustCap))]
  /\ UNCHANGED <<world, depth, made>>

\* The child as the host stages it: an address that was paid before keeps
\* what it was paid.
Staged(v) ==
  [world EXCEPT
     !.child = @ \cup {[at |-> Target, of |-> IdFor(Top.self, Top.ask, world)]},
     !.bal = Pay(world.bal, Top.self, Target, v)]

\* A template without a constructor: the child is there at once.
Instantiate(v, style) ==
  /\ Asks
  /\ Refusals(v, FALSE) = {} /\ Top.ask.template \notin WithCtor
  /\ world' = Staged(v)
  /\ frame' = [frame EXCEPT ![depth] =
       Deliver(Asking(v, style), Outcome(StatusOk, Target, 0, NoBytes, RustCap))]
  /\ made' = made + 1
  /\ UNCHANGED depth

\* The constructor starts on an undo point without the child.
EnterCtor(v, style, withArgs) ==
  /\ Asks
  /\ Refusals(v, withArgs) = {} /\ Top.ask.template \in WithCtor
  /\ depth < MaxDepth
  /\ world' = Staged(v)
  /\ depth' = depth + 1
  /\ frame' = [frame EXCEPT
       ![depth]     = [Asking(v, style) EXCEPT !.pc = "call"],
       ![depth + 1] = NewFrame("ctor", Target, Top.ask, world)]
  /\ made' = made + 1

\* Past the stack's cap the frame dies.
TooDeep(v, withArgs) ==
  /\ Asks
  /\ Refusals(v, withArgs) = {} /\ Top.ask.template \in WithCtor
  /\ depth = MaxDepth
  /\ Pop(Top.entry)

-----------------------------------------------------------------------------
(* A constructor ends *)

CtorEnds(status, w, sent) ==
  /\ depth > 0 /\ Top.kind = "ctor" /\ Top.pc = "run"
  /\ world' = w
  /\ depth' = depth - 1
  /\ frame' = [frame EXCEPT
       ![depth]     = NoFrame,
       ![depth - 1] = Deliver(Below, Outcome(status, Top.self, sent.len, sent, RustCap))]
  /\ UNCHANGED made

CtorReturns(n) == CtorEnds(StatusOk, world, Made("ret", n))

\* A revert, or a trap with nothing to say: the child goes, and whatever its
\* constructor and those it called had done.
CtorFails(n) == depth > 0 /\ CtorEnds(CtorReverted, Top.entry, Made("rev", n))

-----------------------------------------------------------------------------
(* The factory's code, once instantiate has answered *)

\* Ok(addr) | Err(Exists { addr }) => addr
Take ==
  /\ depth > 0 /\ Top.kind = "create" /\ Top.pc = "run"
  /\ Top.last.tag \in {"Ok", "Exists"}
  /\ LET f     == Top.self
         fresh == IF Top.last.tag = "Ok" THEN 1 ELSE 0
         id    == IdFor(f, Top.ask, world)
     IN  world' = [world EXCEPT
           !.book = {e \in world.book : e.of # id} \cup {[of |-> id, at |-> Top.last.addr]},
           !.paid[f] = world.paid[f] + fresh * Top.value,
           !.next[f] = IF f \in Sequential THEN world.next[f] + 1 ELSE 0]
  /\ frame' = [frame EXCEPT ![depth].last = NothingYet, ![depth].value = 0]
  /\ UNCHANGED <<depth, made>>

Returns == Creating /\ Pop(world)

\* The author's revert, or the wrapper's.
Reverts ==
  /\ Creating \/ (depth > 0 /\ Top.pc = "halt")
  /\ Pop(Top.entry)

Next ==
  \/ \E f \in Maker : \E a \in Asked(f) : Fund(f, a) \/ Create(f, a)
  \/ /\ depth > 0 /\ Top.kind = "create"
     /\ \E v \in {0, 1}, style \in StylesOfFactory(Top.self) :
          \/ Instantiate(v, style)
          \/ \E withArgs \in BOOLEAN :
               Refuse(v, style, withArgs) \/ EnterCtor(v, style, withArgs)
               \/ TooDeep(v, withArgs)
  \/ \E n \in Size : CtorReturns(n) \/ CtorFails(n)
  \/ Take \/ Returns \/ Reverts

Spec == Init /\ [][Next]_vars

-----------------------------------------------------------------------------

AddressSpace ==
  {HostAddr(f, t, s) : f \in Maker, t \in Template,
     s \in {SaltOfUnorderedPair(p[1], p[2]) : p \in Pairs}
             \cup {SaltOf(n) : n \in 0 .. MaxNumber}}

\* Nobody's address is the hash that is a child's.
ASSUME AddressAssumption == AddressSpace \cap (Maker \cup {Payer}) = {}

TypeOK ==
  /\ World(world)
  /\ DOMAIN world.bal \subseteq Maker \cup {Payer} \cup AddressSpace
  /\ depth \in 0 .. MaxDepth /\ made \in 0 .. MaxPerTx
  /\ \A d \in Depths :
       frame[d].kind = IF d > depth THEN "none"
                       ELSE IF d % 2 = 1 THEN "create" ELSE "ctor"

UnderConstruction == {frame[d].self : d \in {e \in 1 .. depth : frame[e].kind = "ctor"}}

(* A factory's book never names a child that is not there, through any     *)
(* nesting of constructors that call back and then revert.                 *)
BookIsTrue ==
  \A e \in world.book : \E c \in world.child : c.at = e.at /\ c.of = e.of

(* Ok is "live, endowed, and constructed": a child that was not there      *)
(* before the call, that no constructor is still running for, with at least*)
(* the endowment.                                                          *)
OkIsBorn ==
  depth > 0 /\ Top.last.tag = "Ok" =>
    /\ Exists(world, Top.last.addr) /\ ~ Exists(Top.before, Top.last.addr)
    /\ Top.last.addr \notin UnderConstruction
    /\ Balance(world, Top.last.addr) >= Top.value

(* One child for each pair, whatever order it is given in, and one pair, or*)
(* one number, for each child.                                             *)
OneEach ==
  /\ \A c, d \in world.child : c.of = d.of <=> c.at = d.at
  /\ \A e, g \in world.book : e.of = g.of <=> e.at = g.at

(* A failed instantiate costs no value: what a factory has, what it counts *)
(* as spent on children and what its pending instantiates hold is what it  *)
(* started with.                                                           *)
Pending(f, fr) ==
  IF fr.kind = "create" /\ fr.self = f /\ (fr.pc = "call" \/ fr.last.tag = "Ok")
  THEN fr.value ELSE 0

Held(f) ==
  FoldFunction(LAMBDA m, n : m + n, 0, [d \in 1 .. depth |-> Pending(f, frame[d])])

BooksBalance ==
  \A f \in Maker : world.bal[f] + world.paid[f] + Held(f) = Supply

(* Money sent to the address a wallet computed for a pair, before the child*)
(* existed or after, is the child's: it "can never brick it".              *)
PaymentReachesChild ==
  \A s \in world.sent :
    /\ \A c \in world.child : c.of = s.of => c.at = s.at
    /\ Balance(world, s.at) > 0

(* The bytes a factory's author gets are the constructor's of this very    *)
(* instantiate: what it reverted with, on CtorReverted, and handed on when *)
(* the wrapper reverts; what it returned, on Ok, from AssemblyScript alone *)
(* ("its return value on success").  A refusal has none: the constructor   *)
(* did not run.  A text of the SDK's own is only a revert's.               *)
PayloadIsCtors ==
  depth > 0 /\ Top.kind = "create" /\ Top.last.data # NoBytes =>
    LET d == Top.last.data
    IN  \/ /\ d.src = "rev" /\ Top.last.tag \in {"CtorReverted", "Halt"}
           /\ PrefixOf(d, Top.sent)
        \/ /\ d.src = "ret" /\ Top.last.tag = "Ok" /\ SdkOf[Top.self] = "as"
           /\ PrefixOf(d, Top.sent)
        \/ d.src \in {"generic", "named"} /\ Top.last.tag = "Halt"

(* What a transaction leaves stays: a child is never gone, and a book never*)
(* names another child for the same pair.                                  *)
Committed == IF depth = 0 THEN world ELSE frame[1].entry
Forever ==
  [][/\ Committed.child \subseteq Committed'.child
     /\ Committed.book \subseteq Committed'.book]_vars
=============================================================================
