# A TLA+ verification project for pyde-host

pyde-host is the set of bindings (Rust, AssemblyScript, Go, C) through which a
Pyde smart contract reaches its chain. The engine that executes contracts is not
in this repository; what is here are the SDK layers contract authors call:
cross-contract calls, factories, typed storage, calldata and events, codecs,
128-bit arithmetic, plus the tooling that keeps four bindings alike and
publishes them. This directory holds the specifications of those layers, the
TLC configurations that check them and the proofs of what matters most.

    tlc -workers 2 -config CallsAllSdks.cfg MCCrossCall.tla   # one run
    tlapm CrossCallProofs.tla                                 # one proof module

`PROJECT.json` lists the runs, the property each one checks, a mutation of the
code that breaks each property, the source lines behind every definition, the
hazards the properties are aimed at, and the theorems.

## 1. Inventory

For each part: the state it keeps, its operations, who it talks to, what makes
it hard, and when it is correct.

**Cross-contract call wrappers** (`lib.rs` module `call`, `go/call.go`,
`assembly/call.ts`). State: an out-buffer and a length slot on the caller's
stack, seeded with the buffer's capacity. Operations: `execute`, `execute_raw`,
`execute_static`, `Exec`, `ExecOrRevert`, `exec`, `execOrRevert`, in a call, a
static and a delegate form. They hand the host an out-pointer and turn a status,
the slot and the buffer into the value the author sees. Hard: what the slot
holds after a call that never ran; a value longer than the buffer; which errors
mean that nothing happened. Correct: a success is the callee's exact bytes; a
failure's payload is the callee's; an error reported as a failure left no trace.

**The host's call engine** (external; `HOST_FN_ABI_SPEC.md` 7.6 and 13). State:
the stack of frames, an undo point per frame, storage and balances, fuel.
Operations: entering, refusing, returning, reverting, trapping. Hard: nesting,
reentrancy, value moving before the callee runs, read-only execution along a
chain that contains delegate calls. Correct: atomic frames, conserved value,
frozen views, termination.

**Halt operations** (`revert`, `return_`, `go/exit.go`, `exit.ts`, `abort.ts`).
They end the frame; the SDK wrappers use them on the author's behalf.

**Factory instantiation** (`prepare`, `New`, `Instantiate`; `go/factory.go`,
`factory.ts`). State: child accounts, their code and endowment. Operations:
preparing an address, `instantiate`. Runs a constructor frame that may call back
into the factory. Hard: a constructor that fails late, the same address asked
for twice (`Exists` carries the address), the length slot again. Correct: a
child exists completely or not at all.

**Typed storage** (`pyde-storage-macros`, `go/storage.go`). State: slots keyed
by a hash of contract, field name and keys. Operations: get, set, remove of a
variable or a map entry; store, load, delete. Protocol: probe for a length,
allocate, read. Hard: the value changing type between versions, statuses that
are dropped, the preimage of the slot (a field name is not length-prefixed,
`storage-macros/src/lib.rs:690`). Correct: what is read is what was last
written there; two fields do not meet.

**Entry macro and calldata** (`pyde-entry-macros`, `calldata.go`, `calldata.ts`).
No state. Decodes the arguments, runs the author's function, returns its value.
Hard: an entry without arguments reads no calldata, a unit entry returns
nothing. Correct: runs exactly on the encodings of its argument types.

**Events** (`pyde-events-macros`, `events.go`). No state of its own; packs topics and data, which the
host buffers until the transaction ends. Hard: indexed integers of any width in 32-byte topics, data of a single
field, statuses that are dropped, frames that revert. Correct: a subscriber who knows the
ABI finds what was emitted and can filter on it.

**Codecs** (`borsh.go`, `codec.go`, `borsh.ts`, `codec.ts`). State: a cursor in
a byte string. Hard: length prefixes near the word size, truncated input,
trailing bytes. Correct: decode after encode is the identity, nothing else
decodes.

**U128** (`u128.go`, `u128_decimal.go`, `u128.ts`). No state; two 64-bit limbs.
Hard: carries, the checked forms, division by a divisor wider than a limb.

**Child addresses** (`child_preimage`, `child.go`, `child.ts`, `child.h`). No
state; four implementations of one preimage. Correct: equal, and injective.

**AssemblyScript transform** (`transform/index.ts`, `reconcile.ts`). State:
functions and intent markers collected while the compiler parses. Compares them
with `otigen.toml`. Hard: the many ways TOML has of saying one thing, misspelt markers.
Correct: reports exactly the disagreements.

**Parity check** (`check_parity.py`). Compares four tables of signatures.

**Release tooling** (`publish.yml`, `release.sh`). State: tags on the remote and
in a clone, what each registry has of each version. Operations: pushing a tag,
starting the workflow by hand, its jobs, the script's steps. Hard: parallel jobs
and runs, registries that accept a version once, replies that get lost, a rerun
that meets the leftovers of the first attempt. Correct: dependencies first,
nothing unchecked published, a success message only when it is true.

**Raw imports, context accessors, the ci matrix, the vector generator**: declarations
and pure forwarding; nothing to model.

How they meet: a contract's entry shim decodes calldata and runs the author's
code; that code uses storage, events, calls and factories; a call makes the host
push a frame which starts at another contract's entry shim; halting pops it and
the caller's wrapper interprets what is left in its out-buffer. The release
tooling meets the rest only as the commit it publishes.

## 2. Modules

| module | models | kind |
| --- | --- | --- |
| `CallWrappers` | every SDK's call wrapper, as a function of what the host did | operators |
| `CrossCall` | frames of contracts that call one another | state machine |
| `AtomicCall` | what a transaction promises the contract it enters | abstract specification |
| `CrossCallProofs` | type correctness, the undo points, failures undone, views frozen, what wrappers tell, the supply, atomic calls | proofs |
| `MCCrossCall` | programs of calls for TLC | instance |
| `TypedStorage` | `declare_storage!` accessors, Go's Store, Load and Delete, the host under them | state machine |
| `TypedMap` | what typed storage promises | abstract specification |
| `TypedStorageProofs` | distinct slots, typing, agreement of reads, refinement of `TypedMap` | proofs |
| `MCTypedStorage` | schemas for TLC | instance |
| `Release` | `publish.yml` and `release.sh` | state machine |
| `ReleaseProofs` | order, checks and honest messages of releases | proofs |
| `MCRelease` | histories of main for TLC | instance |
| `ChildAddress` | preimage of a child's address, salts | operators |
| `InstantiateWrappers` | every SDK's instantiate wrapper | operators |
| `Factory` | factories, constructors, what wallets pay in advance | state machine |
| `FactoryProofs` | a pair's salt; what always holds of factories and their children | proofs |
| `MCFactory` | two factories for TLC | instance |
| `BorshCodec` | borsh of the three SDKs | operators |
| `EventCodec` | what `declare_events!` makes of a declaration | operators |
| `Events` | emitting contracts, the host's events buffer, a subscriber | state machine |
| `EventsProofs` | what always holds of the log, and what a subscriber makes of it | proofs |
| `MCEvents` | event tables for TLC | instance |
| `Entry` | an entry's shim and its callers | state machine |
| `EntryProofs` | what always holds of entries and their callers | proofs |
| `MCEntry` | functions and calldata for TLC | instance |
| `U128Arith` | Go's 128-bit arithmetic on limbs | operators |
| `IntentCheck` | the AssemblyScript transform | operators |
| `SdkAlgorithms` | both, asked one question at a time | state machine |
| `SdkAlgorithmsProofs` | exactness of the arithmetic and of the intent check | proofs |
| `MCSdkAlgorithms` | operands and manifests for TLC | instance |
| `DataProofs` | recursion and induction up to a number, folds and sums; borsh: the decoders against the encoder | proofs |

### CallWrappers

A byte string is its origin and its length: `ret` and `rev` are the callee's
value and revert message, `generic`, `named` and `oversize` the SDKs' own texts,
`pad` a run that reaches into bytes of the out-buffer nobody wrote. `Read(io, k)`
is the slice of the first `k` bytes of the buffer, and is `pad` as soon as `k`
exceeds what the host copied in. `RustRaw`, `RustTyped`, `GoExec`, `AsExec` and
the two `OrRevert` operators are the wrappers, early returns in the code's
order. "Halt" means that the wrapper reverts its own frame.

### CrossCall

| TLA+ | code |
| --- | --- |
| `frame[1..depth]` | the running contract calls; only the top one moves |
| `frame.pc` | `run`: the author's code; `call`: in a host call; `halt`: in the SDK's own revert |
| `frame.gas` | fuel; every step of the author's code takes one unit |
| `frame.entry` | the host's undo point for the frame |
| `frame.last`, `frame.io` | the wrapper's result until the author's next step, and what the host had really done |
| `frame.before` | the world at the last call (history variable of the properties) |
| `world` | storage (a slot per contract) and balances |
| `Begin` | a transaction enters an exported function |
| `SStore` | a storage write; refused in a view |
| `Refuse(s)` | the host's pre-checks stop a call: -3, -5, -9, -10, -12, -13 |
| `Enter(s)` | undo point, value, callee's frame with min(limit, remaining) fuel |
| `TooDeep(s)` | the call past the depth cap traps the transaction |
| `Return`, `Revert`, `Trap`, `OutOfGas` | the four ends of a frame |
| `WrapperRevert` | `revert` inside `ExecOrRevert`, `execOrRevert`, or on an oversize value |

What the author does next is free: any call site of `Site`, a write, a return or
a revert, at any point, whatever the last result was, so every caller that
ignores an error and every one that forwards it is among the behaviours.

The host is external and modelled from what the wrappers rely on. Where its
documents disagree the model follows the two SDKs: a call past the depth cap
traps (go/call.go, call.ts), where the ABI's 13.4 returns -10; unused fuel goes
back to the caller. Whether a refused call clears the length slot
is a parameter, `RefusalLen`: `go/call.go:92` says it always writes it,
`CHANGELOG.md:76-82` says it does not.

### AtomicCall

For the contract the transaction enters, a sub-call however deep is one step;
failed sub-calls change nothing; a view changes nothing; a transaction commits
or aborts as a whole. `CrossCall` implements it under a refinement mapping:
`committed` is the undo point of frame 1, `working` is the world at frame 1's
last call while frames are stacked on it, and the world itself otherwise.
"unreadable" is the outcome the documents mention least: `DecodeError`,
`ReturnDataTooLarge` and the oversize revert are about a callee that succeeded.

### TypedStorage

One contract's storage, used in turn by several implementations, which is what a
proxy that delegate-calls does to it. Each implementation has an SDK, a schema
its accessors were compiled from (`Code`) and a schema the host enforces for it
(`Abi`); for a consistent build they are the same.

| TLA+ | code |
| --- | --- |
| `LowerField` | `lower_fields_scoped`: what compiles |
| `EncodeKey`, `KeyBytes`, `Preimage` | `encode_key_to_bytes`, `emit_map`, the host's slot derivation; the hash is injective and left out |
| `RustEncode`, `RustDecode` | `encode_for_write`; `decode_fixed`, `decode_variable` and their per-element parts |
| `GoEncode`, `GoDecode` | `Encoder`, `Decoder`: a decoder that runs out of bytes panics |
| `CheckKeys`, `CheckStore` | the host's schema check: -31, -32, -33, -34 |
| `Enter`, `Leave`, `Abort` | a frame of the contract, its commit and its revert |
| `Write`, `Delete` | `write`, `delete` of an accessor; `StoreScalar`, `StoreMap1`, ... |
| `SchemaCheck` | Rust drops the status, Go's `schemaCheck` reverts |
| `RustRead`, `GoRead` | `read` of an accessor; `probeThenRead` and the decoding that follows |
| `Upgrade` | the proxy gets another implementation |
| `last` | the last operation, as the author's code sees it |

A byte is a natural number and the four bytes of a length prefix are one of
them. The probe and the sized read are one step: nothing else runs between two
host calls of one frame. When a Go read finds nothing, the author is assumed to
take the type's default, as the Rust accessor does.

Assumed: implementations agree on the type of a field they both declare
(`SharedTypes`), and no map's name begins another field's name (`NoShadow`). The
second is not an assumption the macro checks: in the preimage `field || key`
nothing ends the name (`HOST_FN_ABI_SPEC.md:526`), so a map `a` with an address
key and a field whose name is `a` and 32 more bytes would meet.

### TypedMap

Every entry is a variable of its own. A read returns the value last written or
the type's default; a delete restores the default; a frame that fails leaves no
write behind, and one that goes on has had none of its operations refused.

### Release

`run[r]` is a workflow run: the commit it was checked out at, the version it
was given, and the state of its jobs `check`, `rust`, `npm` and `go`, which run
side by side once `check` is green. `script` is `release.sh publish` in a
maintainer's clone, with the clone's own tags. `reg[p][v]` is the commit from
which version `v` of package `p` was built: accepted once, as crates.io and npm
do. A hiccup is a failure that is nobody's fault; an upload that suffers one may
or may not have landed. Nothing restricts when runs start or overlap, except
that a slot is used for one run at a time.

Which steps of the ci matrix fail on a commit is a constant (`Fails`, over `CiSteps`).
The workflow publishes a commit on which none fails (`Good`); the script one on which none of its own steps fails (`Accepted`,
over `ScriptSteps`), and these are fewer: it compiles in every language and tests in Rust only. The versions in
`rust/Cargo.toml` and `package.json` are two functions of the commit, since nothing keeps them equal (alpha.16 and
alpha.18 at this one); a tag may name either.

Assumed of `release.sh`: its maintainer has updated the clone before a release
(`ScriptStart`), and afterwards main may move on.

### Factory

A factory has one entry, `create`, which makes the child of an unordered pair of
tokens or the next of its numbered children, and writes the address into its
book. That code is the author's; it is the idiom the documentation of `prepare`
gives (`lib.rs:1467-1480`), and the host is again external.

| TLA+ | code |
| --- | --- |
| `Create` | a transaction, or a constructor that calls back, enters `create` |
| `Instantiate`, `EnterCtor` | `instantiate` of a template without and with a constructor: the child is staged and endowed, then constructed |
| `Refuse` | -43, -44, -45, -46, -48 and the insufficient balance: nothing happened, except that -44 reports the address |
| `CtorReturns`, `CtorFails`, `TooDeep` | the constructor's end; a failure takes child, endowment and all it did along |
| `Take` | `Ok(addr)` or `Err(Exists { addr }) => addr`, and the entry in the book |
| `Fund` | a wallet pays the address it computes with `child_address`, which needs no child |
| `WrapInstantiate` | `Prepared::execute`, Go's `Instantiate`, `New(..).exec` and their `OrRevert` forms |
| `ChildPreimage`, `SaltOfUnorderedPair` | the preimage and salts of `child.go`, `child.ts`, `child.h` and `lib.rs` |

`Factories` has a Rust and an AssemblyScript factory, on a host that may keep the length slot, and none of Go:
`go/factory.go:68` trusts the slot on every refusal as `go/call.go:96` does (`GoRefused`), although
`go/factory.go:51-52` promises that "data is empty on every non-revert outcome". `PayloadIsCtors` says whose the bytes
are that come with each outcome, and that a refusal has none; AssemblyScript's result has the constructor's return value on
success (`factory.ts:159-163`). With a Go factory on such a host the property fails at the first refusal.

A numbered factory is taken not to be reentrant (`FactoryAssumption`). If its constructor
calls the factory back before the counter is written, the inner `create` asks for
the outer child's address, gets `Exists`, and books a child that may still
fail. Pair factories may be entered again, and there the constructor's own failure
takes the entry back (`BookIsTrue`).

### BorshCodec, EventCodec, Events

`BorshCodec` has one encoder, which all SDKs share byte for byte, and three
decoders over one cursor, whose differences are parameters of `Field`: Rust wants all bytes used, a
boolean of 0 or 1 and valid UTF-8; Go keeps any string bytes and ignores what is left
over; AssemblyScript takes any byte for a boolean, and makes some text of any string bytes
(`DecodeUnsafe`: ASCII is kept, anything else becomes one value that is no other's).
A length prefix of 2^31 or more is negative as a 32-bit number; Go's `take` refuses it, in
AssemblyScript the allocation or the copy fails. Positions are unbounded here: a position and a length
whose sum wraps at 2^31 pass the bound of `take` in both SDKs, and fail at the next step, Go's slice expression or
AssemblyScript's allocation. The outcome is the model's, the path is not represented.

`EventCodec` is `lower_event` with its errors, and the generated `emit`: the
topics, the two paths for data of one and of several fields. A selection of fields is a recursive function
(`Where`) and the tuples of values a fold (`TuplesOf`), so that both can be proved about. `Events` puts it
to work: contracts of Rust with generated structs, contracts of Go with topics
and data built by hand, frames that call, return and revert, the host's buffer that
a revert cuts back, and a client that knows the ABI only.

| TLA+ | code |
| --- | --- |
| `DeclareEvents`, `Lowers`, `LowerEvent` | `declare_events!`; one bad event fails the build |
| `EmitStruct`, `BuildDataEmit`, `TopicFromField` | the generated `emit` |
| `ByHand`, `EventTopic0` | what a Go author writes, after `go/events.go` |
| `WrapEmit`, `RustPanics`, `GoReverts` | `emit_event`, `Emit`: four topics, the status dropped |
| `Refused`, `Appended` | the host's `emit_event` |

Comments that the code does not bear out, and that no property depends on:
`events-macros/src/lib.rs:57-60` wants indexed fields of 32 bytes, the code takes
every fixed type; `lib.rs:860` has "0..=4 topics" where the host refuses none;
`go/events.go:6` says that emitting from a view traps, where the refusal is a
status that `Emit` ignores; the signature in `go/events.go:10-11` spells a
type `u128` where the canonical name is `uint128`.

### Entry

One deployed function and the callers around it. `Deploy` is the macro, with what it
rejects, or a Go or AssemblyScript author's shim; a second `Deploy` is an upgrade, and
callers keep the signature they were built with until `Rebuild`. `TypedCall` sends
the borsh of values of that signature, `RawCall` any bytes. `Shim` decodes or traps,
`Body` returns and the typed caller decodes, unless what came back is longer than its buffer (`ReturnCap`, the 4096
bytes of `lib.rs:988`): then it reports `ReturnDataTooLarge`. `SigRecord` is what the macro writes to
the `pyde.sig.v1` section.

An entry without parameters runs on any calldata, since it reads none
(`entry-macros/src/lib.rs:192`), and `RunsOnItsCalldata` says so. The record's comment,
`entry-macros/src/lib.rs:249`, calls it length-prefixed; it ends with a semicolon.

### U128Arith, IntentCheck, SdkAlgorithms

`U128Arith` is `u128.go` on limbs of any width. `LongDivision` takes bit after bit;
its remainder is below 2^127 before each shift, so `Shl1` never drops a bit,
which no line of the code says; the run confirms it and `LongDivisionExact` proves it.

`IntentCheck` is `reconcile.ts` and the hook of `index.ts`, on a manifest of
lines. `SdkAlgorithms` writes manifests line by line and builds them, and asks for every arithmetic
operation on all operands. What a manifest means is defined
apart from what the scanner does (`IsDeclared`, `AttributesOf`, by paths, as TOML says). Manifests are valid
TOML: otigen parses the file before asc runs.

## 3. Runs

Every constant below is a bound. None of the models has an unbounded counter.

| run | checks | size |
| --- | --- | --- |
| `CallsAllSdks` | `TypeOK`, `UndoChain`, `SuccessIsExact`, `PayloadIsCallees`, `FailureUndone`, `ViewFrozen`, `ValueConserved`, refinement `Atomic`, `Terminates` under `FairSpec` | 234k states |
| `CallsAs` | `PayloadIsCallees`, `ReceiptSaysWhy` | 208k |
| `StorageShared` | `TypeOK`, `ReadsAgree`, refinement `ActsAsMap` | 21k |
| `ReleaseRaces` | `TypeOK`, `HostNeedsMacros`, `OnlyChecked`, `GreenMeansPublished`, `SaidMeansPublished`, `CratesOfOneCommit` | 1.4M |
| `Factories` | `TypeOK`, `BookIsTrue`, `OkIsBorn`, `OneEach`, `BooksBalance`, `PaymentReachesChild`, `PayloadIsCtors`, `Forever` | 188k |
| `EventsLogged` | `TypeOK`, `SubscriberSees`, `FilterExact`, `EmitGoesOn` | 75k |
| `EntryCalled` | `TypeOK`, `RunsOnItsCalldata`, `SdksAgree`, `RecordIsTrue` | 100k |
| `SdkAlgorithms` | `U128Exact`, `IntentExact`, `NearMissWarned` | 2.7M |
| `GoRefused` | violates `PayloadIsCallees` | |
| `StorageStrings` | violates `ReadsAgree` | |
| `ReleaseRerun` | violates `RerunCompletes` under `FairSpec` | |
| `ReleaseByHand` | violates `OneRevision` | |

**CallsAllSdks.** Three contracts, one per SDK, with call sites of each kind and
style in both directions around the ring (`Program`), so a callee can call back
to a contract whose frame is still open. Depth 3 is the least at which a frame
in the middle fails after the frame above it succeeded, and at which a view is
two calls away from the delegate call that returns to it. Fuel 4 lets the
entered contract write, call, look at the result and call again. Lengths 0, 1
and 3 with a buffer of 2 are: nothing, fitting, too long. One coin per
contract makes a transfer of 1 succeed once and be refused the second time. Two
storage values distinguish a write from its undoing. `RefusalLen` is `zero`, the
host `go/call.go` documents.

`Terminates` is checked under fairness of `Work`: once a transaction has begun the
engine runs it (a single-threaded interpreter has nothing else to do); nothing
is assumed of the next transaction starting. Static calls cost the caller nothing
but the step that makes them, so termination is not simply fuel counting
down: a static call adds fuel of its own, and mutual static calls are bounded by the
depth.

**CallsAs.** The AssemblyScript wrappers hand on no payload but the callee's without that
promise too: `exec` reads the slot only on success and on -10. Two contracts, every
combination of target, function, value and style, on a host that may keep or
clear the slot. `ReceiptSaysWhy` follows a message through chains of
`execOrRevert`. All targets are deployed here: for a target without code the ABI
also uses -10, and the wrapper cannot tell that from a callee that failed.

**GoRefused.** The same Go code on a host that leaves the slot alone. `Exec`
takes the seed for a length and hands on the whole zeroed buffer, and
`ExecOrRevert` reverts with those zeros. The comment at `go/call.go:92` promises
otherwise; the AssemblyScript twin was fixed for exactly this in 0.1.0-alpha.17.

Rust has a weaker form of it, which no run shows: `execute_inner_raw` uses the slot for `Reverted`
alone, "regardless of success/failure" (`lib.rs:1226`), and `err_from_status` maps every status it does not list to
`Reverted`. A static call refused with `ERR_FORBIDDEN` is so reported as the revert of a callee that never ran, with the whole zeroed
buffer on a host that leaves the slot alone. For that reason the runs with Rust contracts have the host `zero`.

**StorageShared.** A Rust and a Go implementation, with a vec, a custom type and a
map with two keys of varying width; the host's schema of the Go one lacks a field
and has another width for the map's value, so every status of the schema check
but the arity and key-width ones occurs. Two operations per frame are a write followed by a
rejected one, which must take the first back. The keys `<<>>` and `<<1>>`
give two entries whose bytes are equal but for their length prefixes, and one
scalar's name begins another's. Only Go is given a drifted schema: the Rust accessors
ignore the status, so with one a rejected write passes for a success
and a read for the default (`pyde-storage-macros/src/lib.rs:455-459` names the
latter). That is the macro's behaviour, stated in PROJECT.json as a hazard.

**StorageStrings.** The same with a `string` field that both declare. Rust stores
the bytes of a `bytes` or `string` as they are; Go, by the comments in
`borsh.go:1-4` and `storage.go:13`, stores and expects a length first. After a
write by either, the other reads something else or panics.

**ReleaseRaces.** Two runs, started by tag or by hand, and the script, with two hiccups anywhere, over three
commits and two versions. The first commit is clean; the second has `package.json` a version ahead of the crates, as this
commit has, and fails a step that only the ci matrix runs; the third fails one that both run. Two runs overlap on
every pair of steps, a third adds no new pair (the slots are symmetric); two hiccups are what it takes to stop one
publisher and then its successor. `OnlyChecked` says what each way of publishing has checked: the whole matrix, until the script is
used, and the script's own steps from then on. With the second commit the script publishes what the matrix rejects, although
`release.sh:5-6` says that a local green "is what a green Actions run would be": it lacks `npm test` and the suite at the far end of
asc's range (`ci.yml:51-63`), gofmt, vet and test of Go (`ci.yml:83-88`), and the C vectors (`ci.yml:155-161`).

**ReleaseByHand.** A version is of one commit only crate by crate (`CratesOfOneCommit`). A manual run checks out the head
of main whatever version it is given (`publish.yml:20-45`, no `ref`), so a run repeated after main has moved puts the Go
tag of the first version on a later commit. Six steps and one hiccup, two commits with consistent manifests: `README.md:75-76`
promises one frozen spec revision per tag.

**ReleaseRerun.** `publish.yml:9-11` offers the manual run for "re-runs after a
transient registry hiccup". `publish-rust` starts over at the first crate, which
is out already and refused, so the rest is never published. The counterexample
holds with every job fair, and with maintainers who re-run for as long as
anything is missing.

**Factories.** A Rust pair factory that may be entered again and an AssemblyScript
one that numbers its children; a template with a constructor, one without, one
not deployed; both orders of one pair; one address that collides in the host's index.
Five frames are a factory, a constructor, the factory again, its constructor and a third `create`, so a child is
asked for while it is under construction and again within that; three instantiates let the cap be
reached at that depth. One coin per factory makes the second endowment fail. Lengths
0 and 3 with a buffer of 2 are an empty revert and one that is cut.

**EventsLogged.** Two events with equal fields, so that only the name tells their
topic-0 apart, over every type alone, indexed and not, the mixed orders of
variable and fixed data, a topic between them, three and four topics, none, and a type
that does not exist. Two emissions and two frames: one that survives and one that is discarded, in either order.
The host's data limit of 9 bytes refuses some of the data and takes the rest. Values are -1
and 1, 1 and 255, an empty string and one whose last byte is zero, so that padding and sign show.

**EntryCalled.** Eight functions, among them the unit one, one with a unit result only,
and an `async` one the macro rejects; all three SDKs; upgrades between any two of them under old callers.
Raw calldata is every string of up to three bytes of {0, 1, 127, 255}, and length prefixes of zero, one, one too many, 2^31 - 1 and
one with its sign bit set, with up to two bytes behind them. A return buffer of five bytes holds a string of one letter, all of it,
and an empty vector, but no vector of two.

**SdkAlgorithms.** Limbs of three bits: every one of the 4096 pairs of operands
for each operation, signed and unsigned; three bits are enough for a
carry into and out of every column. Four lines of manifest are the least for a table of the function, its attributes, another
table and a dotted or inline form of the same thing; the declarations carry every set of
markers. Spellings are every word of two to five letters over those of `view`, and one misspelling of
each kind of the others.

In dotted or inline form the transform raises false alarms only (`IntentExact` requires
agreement of every build that goes through; that only a disagreement fails a build is required of the
header form).

Deadlock is checked in all runs but the release ones: these models stop when everything is
published and no run is left to start, hence `CHECK_DEADLOCK FALSE` there.

## 4. Proofs

Every theorem holds for all values of the constants that satisfy the named assumptions of
its module; a hypothesis is in the last column and explained below the tables.

**Calls** (`CrossCallProofs`). Assumed: `ContractAssumption`, `SiteAssumption`,
`BoundAssumption`, `RustCapAssumption`. So for any contracts, any program of calls,
any depth, fuel and buffer size, and either treatment of the length slot.

| theorem | property of a run | if |
| --- | --- | --- |
| `TypeCorrect` | `TypeOK` | |
| `UndoPoints` | `UndoChain` | |
| `FailuresUndone` | `FailureUndone` | |
| `ViewsFrozen` | `ViewFrozen` | |
| `ExactSuccess` | `SuccessIsExact` | |
| `HonestPayload` | `PayloadIsCallees` | `PadNeverReported` |
| `ReceiptsSayWhy` | `ReceiptSaysWhy` | `PadNeverForwarded` |
| `SupplyConserved` | `ValueConserved` | `IsFiniteSet(Contract)` |
| `CallsAreAtomic` | refinement `Atomic` | |

**Typed storage** (`TypedStorageProofs`). Assumed: `StorageAssumption`, `SelfDelimiting`, `SharedTypes`,
`NoShadow`. Any schemas, names, keys and values.

| theorem | property of a run | if |
| --- | --- | --- |
| `DistinctSlots`: different entries have different slots | | |
| `StorageTypeOK` | `TypeOK` | `NoMixedText` |
| `ReadsAlwaysAgree` | `ReadsAgree` | `NoMixedText` |
| `StorageActsAsMap` | refinement `ActsAsMap` | `NoMixedText`, `RustUndrifted` |

**Factories** (`FactoryProofs`). Assumed: `FactoryAssumption`, `AddressAssumption`, `RankAssumption`.
Any makers, templates, tokens, depth and number of instantiates.

| theorem | property of a run | if |
| --- | --- | --- |
| `SaltOfPairExact`: one salt for one unordered pair | | |
| `FactoryTypeOK` | `TypeOK` | |
| `BookAlwaysTrue` | `BookIsTrue` | |
| `OkAlwaysBorn` | `OkIsBorn` | |
| `AlwaysOneEach` | `OneEach` | |
| `PaymentAlwaysReachesChild` | `PaymentReachesChild` | |
| `BooksAlwaysBalance` | `BooksBalance` | |
| `PayloadAlwaysCtors` | `PayloadIsCtors` | `NoGoFactory` |
| `ChildrenAreForever` | action property `Forever` | |

**Releases** (`ReleaseProofs`). Assumed: `ReleaseAssumption`. Any history of main, any versions in
either manifest, any steps failing, any runs and hiccups.

| theorem | property of a run | if |
| --- | --- | --- |
| `ReleaseTypeCorrect` | `TypeOK` | |
| `MacrosFirst` | `HostNeedsMacros` | |
| `CheckedOnly` | `OnlyChecked` | |
| `GreenIsTrue` | `GreenMeansPublished` | |
| `SaidIsTrue` | `SaidMeansPublished` | |
| `CratesAreOfOneCommit` | `CratesOfOneCommit` | |

**Arithmetic and intent check** (`SdkAlgorithmsProofs`). Assumed: `LimbAssumption`, limbs of any width above one
bit, so the 64 bits of the code, which no run can cover; `MarkersAssumption`, `LinesAssumption`, `DecoratorsAssumption`.
Manifests of any number of lines, any declarations, names of any length.

| theorem | property of a run |
| --- | --- |
| `CmpExact`: `Cmp` is the order of the values | |
| `AddCheckedExact`, `SubCheckedExact`, `MulCheckedExact`: the result modulo 2^128, and the flag | |
| `DivModExact`: quotient, remainder and panic, by each of the three ways | |
| `ArithmeticIsExact` | `U128Exact` |
| `IntentAlwaysExact` | `IntentExact` |
| `NearMissAlwaysWarned` | `NearMissWarned` |

**Entries** (`EntryProofs`). Assumed: `SourcesAssumption`, `CapAssumption`, `DataAssumption`. Any signatures over the types of
`BorshCodec`, any values of these types, any size of the return buffer, any calldata, for each of the three SDKs.

| theorem | property of a run |
| --- | --- |
| `EntryTypeOK` | `TypeOK` |
| `BodyRunsOnItsCalldata` | `RunsOnItsCalldata` |
| `SdksAlwaysAgree` | `SdksAgree` |
| `RecordAlwaysTrue` | `RecordIsTrue` |

**Events** (`EventsProofs`). Assumed: `EventsAssumption`, `ManifestsAssumption`, `ValuesAssumption`. Any
tables of events with any number of fields over the types and tokens there are, right or wrong, any values of these
types, any depth and number of emissions, any limit on an event's data.

| theorem | property of a run |
| --- | --- |
| `EventsTypeOK` | `TypeOK` |
| `SubscriberAlwaysSees` | `SubscriberSees` |
| `FilterAlwaysExact` | `FilterExact` |
| `EmissionsGoOn` | action property `EmitGoesOn` |

The assumptions of `CrossCall` say what the code fixes: `SdkOf` and `Exports` are total; a call
site uses a style of its own SDK; Rust callers use the SDK's fixed buffer; only
plain calls carry value; no function is both view and payable (the ABI rejects
such a contract at deployment); there is room for at least one frame. Those of
`Factory` say the same of factories, and that no child's address is an account
that was there before (`AddressAssumption`: an address is a hash). Those of `Entry` say that calldata are
bytes, that signatures use the types there are, and that a typed caller gives and a body returns values
of their types (`HasType`): a number is within its width, an address has 32 bytes, a string
is ASCII (the model takes every other byte for no UTF-8), and what has a count has at most 2^31 - 1 of it, since
a longer one is written but cannot be read back. They say nothing of what raw callers send. Those of
`Events` say that an `[events]` table has finitely many keys, each once (TOML allows no second one), and none
called `raw`, the model's name for what nobody declared; that the values tried for a type are of that
type; and that there is room for one frame. Which types are spelt wrong, how many fields are indexed and what the
values are is left open. Those of `IntentCheck` and `SdkAlgorithms` say that tables, keys and names are sequences of
strings, tables and keys not empty, and that no header is `[[functions.f]]`, which otigen has refused before asc
runs. Any path, key, value and spelling is allowed.

### What the hypotheses say

`PadNeverReported`, `PadNeverForwarded`: that no wrapper reads a length slot
that nobody wrote. They hold on a host that writes the slot when it refuses
(`RefusalLen = {"zero"}`), as the Go SDK believes, and on any host where no Go contract (for
`PadNeverReported`: only AssemblyScript contracts) calls. An AssemblyScript caller must moreover call deployed
contracts: under -10 it cannot tell a target without code from a callee that failed. `GoRefused` shows what happens otherwise.

`NoGoFactory`: no factory is built with the Go SDK, whose `Instantiate` reads the slot whatever the status.

`IsFiniteSet(Contract)`: the supply is a sum over the contracts.

`NoMixedText`: a Rust and a Go implementation share no field of type `bytes` or
`string`. `StorageStrings` shows that it is necessary.

`RustUndrifted`: the host's schema of a Rust implementation is the one it was compiled from. The Rust
accessors drop the status of a rejected operation, so that without this a rejected write
passes for a success. The host's schema of a Go implementation may be anything.

### How they are proved

*Calls.* `IInv == TypeOK /\ UndoChain`. Neither half is inductive
alone. That popping a frame leaves a well-formed caller needs the caller to be
waiting for a call of its own code's site, which is `UndoChain`; that
`UndoChain` survives a push needs the types. There is one lemma per action
(`BeginStep` to `OutOfGasStep`); the four ends of a frame share `LeaveStep`.

*Failures.* `FailureUndone` is preserved because a result reaches a caller in
two ways. A refusal leaves `world` as it was when the call was made
(`RefuseEffect`). A popped frame either returned, and then the wrapper's result
does not report a failure (`SuccessReported`), or was undone to `entry`, which
`UndoChain` says is the caller's `before` (`LeaveUndone`).

*Views.* `ViewFrozen` alone is not inductive: a frame may be popped onto a
waiting view. `ViewInv` adds that a frame above a view is a view itself and that a waiting
view's world at the call is its entry's. The flag is inherited through every
kind of call, writes and value are refused under it, and a plain call without
value moves nothing (`ViewMovesNothing`).

*Results.* Each wrapper is exact, and reports the callee's bytes, provided that the
length slot is honest (`WrapExact`, `WrapPayload`); the steps show where it is: always after a
callee that returned or reverted, after a refusal only on a host that writes the
slot, or where the SDK does not look. `Why` carries this into receipts: a message on its way through
`WrapperRevert` is one that some callee or SDK gave, at every depth.

*Supply.* A failing frame puts an undo point back, so these must hold the supply
too (`Conserved`). A transfer moves an amount between two terms of a sum
(`DataProofs` has sums over finite sets, and what changing one term does to them).

*Atomicity.* The mapping takes a step below the entered contract to a stutter and
the step that comes back to it to one call of `AtomicCall`. `RInv == IInv /\ FailureUndone /\ ViewInv`,
before and after the step: that a failed call left the world alone is `FailureUndone`, that a view did is `ViewInv`, and
that the world handed back is the one called from is `UndoChain`.

*Slots.* Two entries with one slot have one name: the shorter of the two begins
the other (`ConcatPrefix`), so by `NoShadow` they are equal if it names a map, and
by length if it names a scalar (`SameName`). Then the fields are equal, and
the keys follow one after the other: no encoded key begins another of its type
(`KeyPrefixFree`), either because both have the type's width or because their
length prefixes agree.

*Storage.* `SInv`: what an occupied slot holds, now and at the undo point, is what some implementation with the field makes
of a value of the field's type (`Holds`), and the last result is typed (`LastIs`). Decoding after encoding is the identity for
every type and both pairs of SDKs, the empty value included, which is also what a missing one reads as. With
`DistinctSlots`, writing one entry changes no other, which is the step of `TypedMap`.

*Factories.* `FInv == Stack /\ Worlds /\ Grows /\ Frames /\ Numbered /\ Alone /\ Got /\ Balanced`.
The stack alternates factories and constructors (`Stack`). In the world and in every undo point the book
names children that are there (`Worlds`); each frame's undo point is no larger than what any frame above it has come to
(`Grows`), so what an undo takes away is younger than the frame. A constructor's frame runs for a child that its
maker's undo point did not have and that is there, endowed, in what the frame has done (`Frames`): hence
a child that is reported `Ok` is not under construction elsewhere on the stack, and a second request for
one under construction is told `Exists` (`Got`). A numbering factory is on the stack once (`Alone`) and its
counter stands still while a constructor runs (`Numbered`), so it asks for no number twice.
`Balanced` says for the world and every undo point that what a factory has, has spent and has pending below that
level is its supply. `Forever` needs `Kept` too: a step does not touch the undo points that it leaves on the stack.

*Releases.* What is out never changes (`Grows`): a registry takes a version once, a
tag is not moved. So what a run or the script has done stays true while the others work, and
the lemmas `RunStep` and `ScriptStep` leave each action with its own actor's part of `IInv`.
`RunInv` says that a run's crate counter counts crates that are out from the
run's own commit, that only a checked commit is worked on, and that an unchecked run has done
nothing. `ScriptInv` says the same of the script. `SaidMeansPublished` needs `CloneInv`, the reason why
a tag that is only in the clone does no harm: it comes from a push that failed after all crates were
out, so the next script already fails at the first of them, and one that gets past
its first crate meets no such tag. `CratesOfOneCommit` rests on `RunInv` and `ScriptInv` again: a crate that is not the first is uploaded
by somebody whose own upload of the first one was taken, and is the first one's source therefore. `OnlyChecked` needs that a script
that has been used stays used (`CheckedGrows`), and that the script's steps are among the matrix's (`CheckedFacts`).

*Arithmetic.* Quotient and remainder by the limb are unique (`Unique`), so a sum of
two limbs and a carry is its carry and its low limb (`Carry`), a difference its
borrow (`Borrow`), a product its two limbs (`Product`). Two limbs are ordered by the
high one first (`Lexicographic`), which gives `CmpExact` and the ranges. For the product the four columns are
added with the carries of the column before, and give the whole product in four limbs;
since it is below 2^256, the fourth limb does not
overflow although nothing checks it, and the upper two are zero exactly when the product fits
(`UpperLimbs`).

The long division keeps `DivInv`: quotient so far times the divisor, plus the remainder at the weight of the bit, plus the
bits not yet taken, is the dividend; the quotient's bits below are clear; the remainder is below the divisor. The
product of the remainder before a shift and the weight of the bit before is at most the dividend, so twice the remainder
is below 2^128 and `Shl1` drops nothing.

*Intent check.* `Answered` says that the manifest is valid and that a build's answer is `AfterParse` of it.
What remains is about one manifest. After k lines the parser's table is that of the next line, its functions are those with
a header so far, and a function's attributes are those of its list, or none (`Right`); or a list was no list (`Wrong`).
That a line keeps this (`OneMoreParsed`) needs the meaning of TOML: a function has one list (`ListsDiffer`), and a
list stands below the header that declared the function (`ListsHeader`), so neither a second header nor a second list
can wipe attributes. On the other side, a function with a header has its attributes in that list and nowhere else
(`SaysIs`): a dotted key would make the table a second time (`PathSplit`), an inline table would be one. So the
attributes the parser has are the ones the manifest means (`AttributesFound`), and `Reconcile` is empty exactly when
every declaration agrees (`FitsIs`).

*Near misses.* The rows of `OsaDistance` follow the recurrence of the distance (`DistanceInTable`). An entry is zero
when the beginnings are the same, and at most one when an edit at most lies between them (`Near`): an
edit of two beginnings is at their last letters, and what is before them the same, or the last letters are
equal and it is an edit of what is before them (`NearNext`), which is what the recurrence says of entries up to one
(`TableCounts`). `Near` is `OneEdit` (`NearIsOneEdit`).

*Entries.* One field first. What a decoder accepts lies within the data (`PieceOfField`), and is what the encoder
writes for the value read, where the decoder takes nothing but 0 and 1 for a boolean and keeps a string's bytes
(`FieldExact`); the other way round the encoder's bytes of a value are accepted by each decoder and give the value back
(`FieldFound`). For numbers both rest on the digits: the low w bytes determine a number
whose rest is 0 or the sign (`ReadThenWritten`, `WrittenThenRead`). Then whole tuples: the
fold is the chain of its cursors (`CursorsIs`), each piece of an encoding lies where the pieces before it end
(`FlatPieces`), and the strict decoder's chain is a chain of the two others (`AllAgree`).
`IInv` carries this through the phases: a typed call's bytes encode its tuple by the
client's signature (`CallKept`), and the body's arguments are what the shim made of the bytes (`ArgsDecoded`).

*Events.* `IInv` says that the log is a function of what was said (`LogOf`: of the emissions the host owes the
subscriber, each by what the generated `emit` makes of it), and of each frame that it was entered when
what was said was as long as its `mark` and the log as long as its `undo`, inner frames no earlier than outer ones
(`FramesCut`). Neither is inductive without the other: a revert cuts both sequences back, and
the two cuts fit because what is heard of a beginning is the beginning of what is heard
(`HearsBegin`, `LogCut`); and an emission extends both (`LogMore`) because the host refuses exactly what
it does not owe (`OwedIs`), for which the size of the data must be the sum that the declaration gives
(`SizeIs`). `DeclarationsRight` ties the events to the declarations of the table. What Go's author builds is what the
generated code builds (`ByHandIs`): the generated path for a single field and the one for several
are both borsh (`BuiltIs`). Then the properties are about one record (`HeardAt`): topic-0 determines the
name (`TopicNames`), a topic its value (`TopicIs`, `TopicsDiffer`), and the data decode by the lemmas on borsh that `EntryProofs`
uses too (`WrittenIsRead`). A declaration that lowers has at most three indexed fields, so an emission at most four
topics (`TopicsFew`), which is `EmitGoesOn`.

*Induction.* The library's induction theorems take an operator as a parameter, which the provers cannot
instantiate. `DataProofs` does induction by the least counterexample instead: a set of naturals that is not
empty has a least element (`MinimalNat`), a finite set has a least subset among those of a kind (`MinimalSubset`).
So the sums of `FoldFunction`, the powers of two, the loop of the long division, and the folds and digits of
borsh (`UpTo`, `RecursionUpTo`) are within reach.

Every safety property and every refinement that a passing run checks is proved. *Only model-checked*, as out of the prover's reach: the
liveness properties `Terminates` and `RerunCompletes`, under fairness.


## 5. Not modelled

*Whole components.* The parity check compares four tables of signatures in one pass over text;
what could be wrong in it is in its regular expressions, which a model would leave out. The raw
imports, context accessors and the C header have no control of their own; of the ci matrix `Release` has
which steps there are and which fail, not what they run, and the vector generator formats.

*Of the components modelled.* Fallback and receive dispatch, access lists and sponsored
transactions of the host; the UTF-8 round trip of a forwarded revert message; a
delegate call into a contract of another storage layout (one slot per contract);
raw `sload` and `sstore` beside the typed slots; elements of type bool in a vec;
the decimal conversions of U128 (`math/big`, off-chain); AssemblyScript's
128-bit type, which comes from `as-bignum`; the scanner's characters in `reconcile.ts`
(comments, quotes, escapes, multi-line values) below the lines of `IntentCheck`, among them an escape the scanner does not decode
(`reconcile.ts:153`), which would leave an attribute unrecognised; the parsing of Rust
items by the macros; `--dry-run`; positions in calldata beyond 2^31 (above, `BorshCodec`); a stored value whose width is not the
reader's (`storage-macros/src/lib.rs:735`), which `SharedTypes` and the host's check exclude; an event the host refuses, of
which no SDK tells its author (`lib.rs:885`): `SubscriberSees` promises the events that the host took.

## 6. Plan

All components with state or an order of events are modelled, and every safety property of a passing run is proved. What
could follow are the parts of section 5 that lie below the models' lines: the scanner's characters in
`reconcile.ts`, and the parsing of Rust items by the macros.
