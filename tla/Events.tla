-------------------------------- MODULE Events --------------------------------
(***************************************************************************)
(* Contracts that emit the events of one otigen.toml, from a Rust          *)
(* implementation with the structs of declare_events! and from a Go one    *)
(* that builds topics and data by hand, in frames that call one another,   *)
(* return and revert; and what a subscriber then finds in the log.         *)
(***************************************************************************)
EXTENDS EventCodec, FiniteSets

CONSTANTS
  Manifests,            \* the [events] tables an author may write
  Values(_),            \* the values tried for a type
  RawTopics,            \* the topic counts tried with the low-level call
  MaxEventData,         \* MAX_EVENT_DATA_SIZE of the host
  MaxDepth, MaxEmits    \* bound the stack and a history's emissions

ASSUME EventsAssumption ==
  /\ RawTopics \subseteq Nat
  /\ MaxEventData \in Nat /\ MaxDepth \in Nat \ {0} /\ MaxEmits \in Nat

\* A table of TOML has its keys once; "raw" stands for no declaration.
ASSUME ManifestsAssumption ==
  \A m \in Manifests :
    /\ IsFiniteSet(m)
    /\ \A raw \in m : /\ raw.name \in STRING \ {"raw"}
                      /\ raw.fields \in Seq([ty : STRING, indexed : BOOLEAN])
    /\ \A r, s \in m : r.name = s.name => r = s

ASSUME ValuesAssumption == \A ty \in FieldTy : \A v \in Values(ty) : HasType(ty, v)

VARIABLES
  manifest,     \* the events of otigen.toml
  events,       \* what declare_events! made of them; {} before, and on an error
  stage,        \* "source", "error" or "deployed"
  stack,        \* the frames, innermost last
  log,          \* the events buffer of the transaction
  said          \* what was emitted, in terms of the fields

vars == <<manifest, events, stage, stack, log, said>>

Sdks == {"rust", "go"}

Init ==
  /\ manifest \in Manifests
  /\ events = {} /\ stage = "source"
  /\ stack = <<>> /\ log = <<>> /\ said = <<>>

\* One declaration that does not lower is an error of the whole build.
DeclareEvents ==
  /\ stage = "source"
  /\ LET good == \A raw \in manifest : Lowers(raw)
     IN  /\ stage' = IF good THEN "deployed" ELSE "error"
         /\ events' = IF good THEN {LowerEvent(raw) : raw \in manifest} ELSE {}
  /\ UNCHANGED <<manifest, stack, log, said>>

\* The author edits otigen.toml, and cargo builds again.
Edit ==
  /\ stage = "error" /\ stage' = "source"
  /\ manifest' \in Manifests
  /\ UNCHANGED <<events, stack, log, said>>

-----------------------------------------------------------------------------
(* Frames of the host *)

Running == Len(stack) > 0
Top     == stack[Len(stack)]

\* A transaction, with a buffer of its own.
Begin(sdk, view) ==
  /\ stage = "deployed" /\ ~ Running
  /\ stack' = <<[sdk |-> sdk, view |-> view, undo |-> 0, mark |-> 0]>>
  /\ log' = <<>> /\ said' = <<>>
  /\ UNCHANGED <<manifest, events, stage>>

\* A call from the running frame: a view's calls are views.
Call(sdk, view) ==
  /\ Running /\ Len(stack) < MaxDepth /\ Len(said) < MaxEmits
  /\ Top.view => view
  /\ stack' = Append(stack, [sdk |-> sdk, view |-> view, undo |-> Len(log), mark |-> Len(said)])
  /\ UNCHANGED <<manifest, events, stage, log, said>>

Return ==
  /\ Running
  /\ stack' = Front(stack)
  /\ UNCHANGED <<manifest, events, stage, log, said>>

\* "Events from a reverted (sub-)call are discarded along with the overlay".
Dies ==
  /\ stack' = Front(stack)
  /\ log' = SubSeq(log, 1, Top.undo)
  /\ said' = SubSeq(said, 1, Top.mark)

Revert == Running /\ Dies /\ UNCHANGED <<manifest, events, stage>>

Refused(entry) ==
  Top.view \/ Len(entry.topics) \notin 1 .. 4 \/ Len(entry.data) > MaxEventData

\* emit_event of the host.  Neither SDK looks at the status it returns.
Appended(entry) == IF Refused(entry) THEN log ELSE Append(log, entry)

-----------------------------------------------------------------------------
(* The wrappers *)

\* emit_event of Rust: the buffer has room for four topics.
RustPanics(n) == n > 4

\* Go's Emit.
GoReverts(n) == n \notin 1 .. 4

Kills(sdk, n) == IF sdk = "rust" THEN RustPanics(n) ELSE GoReverts(n)

WrapEmit(entry, what) ==
  /\ Running /\ Len(said) < MaxEmits
  /\ IF Kills(Top.sdk, Len(entry.topics)) THEN Dies
     ELSE log' = Appended(entry) /\ said' = Append(said, what) /\ UNCHANGED stack
  /\ UNCHANGED <<manifest, events, stage>>

EventTopic0(sig) == Blake3(sig)

\* What Go's author builds: topic-0 of the ABI's signature, and borsh of the
\* fields, through the Encoder.
ByHand(ev, values) ==
  LET fields == Filling(ev, values)
      raw    == CHOOSE r \in manifest : r.name = ev.name
      plain  == DataOf(fields)
  IN  [topics |-> Topics(EventTopic0(AbiSignature(raw)), fields),
       data   |-> EncodeAll([i \in DOMAIN plain |-> plain[i].ty],
                            [i \in DOMAIN plain |-> plain[i].value])]

Entry(ev, values) ==
  IF Top.sdk = "rust" THEN EmitStruct(ev, values) ELSE ByHand(ev, values)

ValuesOf(ev) == TuplesOf([i \in DOMAIN ev.fields |-> Values(ev.fields[i].ty)])

Emit(ev, values) ==
  WrapEmit(Entry(ev, values),
           [name |-> ev.name, values |-> values, view |-> Top.view])

\* The low-level call, with n topics nobody declared.
EmitRaw(n) ==
  WrapEmit([topics |-> [k \in 1 .. n |-> Blake3(<<"raw">>)], data |-> <<>>],
           [name |-> "raw", values |-> <<n>>, view |-> Top.view])

Next ==
  \/ DeclareEvents \/ Edit
  \/ \E sdk \in Sdks, view \in BOOLEAN : Begin(sdk, view) \/ Call(sdk, view)
  \/ Running /\ \E ev \in events : \E values \in ValuesOf(ev) : Emit(ev, values)
  \/ Running /\ \E n \in RawTopics : EmitRaw(n)
  \/ Return \/ Revert

Spec == Init /\ [][Next]_vars

-----------------------------------------------------------------------------

IsTopic(t, k) ==
  \/ DOMAIN t = {"blake3"}
  \/ k > 1 /\ DOMAIN t = 1 .. 32 /\ \A i \in 1 .. 32 : t[i] \in 0 .. 255

TypeOK ==
  /\ stage \in {"source", "error", "deployed"}
  /\ Cardinality(events) = IF stage = "deployed" THEN Cardinality(manifest) ELSE 0
  /\ Len(stack) <= MaxDepth /\ Len(said) <= MaxEmits
  /\ \A i \in DOMAIN log :
       /\ Len(log[i].topics) \in 1 .. 4
       /\ \A k \in DOMAIN log[i].topics : IsTopic(log[i].topics[k], k)
       /\ \A j \in DOMAIN log[i].data : log[i].data[j] \in 0 .. 255

\* The ABI's view of a declaration, with the values s has for its fields.
Abi(raw, s) ==
  [i \in DOMAIN raw.fields |->
     [ty |-> Parse(raw.fields[i].ty), indexed |-> raw.fields[i].indexed, value |-> s.values[i]]]

BorshSize(fields) ==
  FoldLeft(LAMBDA n, f : n + (IF f.ty \in Variable THEN 4 + Len(f.value) ELSE Width[f.ty]),
           0, fields)

\* The emissions the host has to take: not a view's, no topic too few, no
\* byte too many.
MustTake(s) ==
  /\ ~ s.view
  /\ IF s.name = "raw" THEN s.values[1] > 0
     ELSE \A raw \in manifest : raw.name = s.name =>
            BorshSize(DataOf(Abi(raw, s))) <= MaxEventData

HeardOf(s) == Where(s, [i \in DOMAIN s |-> MustTake(s[i])])
Heard      == HeardOf(said)

(* A subscriber who filters on the topic-0 it computes from the ABI gets   *)
(* the event's emissions and no other's, in order, whichever SDK emitted   *)
(* them and whatever frames died in between, and decodes topics and data to *)
(* the values the contract emitted.                                        *)
SubscriberSees ==
  /\ Len(log) = Len(Heard)
  /\ \A i \in DOMAIN log, raw \in manifest :
       /\ log[i].topics[1] = Topic0FromAbi(raw) <=> Heard[i].name = raw.name
       /\ Heard[i].name = raw.name =>
            LET fields  == Abi(raw, Heard[i])
                indexed == IndexedOf(fields)
                plain   == DataOf(fields)
                data    == TryFromSlice([k \in DOMAIN plain |-> plain[k].ty], log[i].data)
            IN  /\ data.ok /\ data.values = [k \in DOMAIN plain |-> plain[k].value]
                /\ Len(log[i].topics) = 1 + Len(indexed)
                /\ \A k \in DOMAIN indexed :
                     ReadFixed(indexed[k].ty,
                               SubSeq(log[i].topics[k + 1], 1, Width[indexed[k].ty]))
                       = indexed[k].value

(* Filtering on the value of an indexed field finds the emissions with that*)
(* value: the client pads its value as documented, negative ones included. *)
FilterExact ==
  \A i \in DOMAIN log, raw \in manifest :
    Heard[i].name = raw.name =>
      LET indexed == IndexedOf(Abi(raw, Heard[i]))
      IN  \A k \in DOMAIN indexed : \A v \in Values(indexed[k].ty) :
            log[i].topics[k + 1] = FilterTopic(indexed[k].ty, v) <=> indexed[k].value = v

(* Emitting a declared event never kills the frame: what lower_event lets  *)
(* through stays within the topics that emit_event and Emit accept.        *)
EmitGoesOn ==
  [][Len(stack') < Len(stack) =>
       \A ev \in events : \A values \in ValuesOf(ev) : ~ Emit(ev, values)]_vars
=============================================================================
