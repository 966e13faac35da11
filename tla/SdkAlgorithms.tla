--------------------------- MODULE SdkAlgorithms ---------------------------
(***************************************************************************)
(* Two pure parts of the SDKs against what they ought to compute: Go's     *)
(* 128-bit arithmetic against the integers, and the intent check of the    *)
(* AssemblyScript transform against what TOML says the manifest means.     *)
(* An operation is asked for, answered, and the next one follows; a        *)
(* manifest is written line by line before it is built.                    *)
(***************************************************************************)
EXTENDS U128Arith, IntentCheck

CONSTANTS Lines,      \* lines a manifest may have
          MaxLines,   \* at most so many
          Contracts,  \* sets of declarations
          Spellings,  \* names of decorators, tried before there are lines
          Versions    \* of asc

\* Tables and keys have names; [[functions.f]] is no table of a function, and
\* otigen has refused it.
ASSUME LinesAssumption ==
  \A line \in Lines :
    \/ /\ line \in [kind : {"header"}, path : Seq(STRING) \ {<<>>}, array : BOOLEAN]
       /\ line.array => ~ IsFunctionTable(line.path)
    \/ line \in [kind : {"assignment"}, key : Seq(STRING) \ {<<>>},
                 shape : {"strings", "inline", "other"}, attrs : SUBSET STRING]

ASSUME DecoratorsAssumption ==
  /\ Spellings \subseteq Seq(STRING)
  /\ \A decls \in Contracts : \A decl \in decls :
       decl.decorators \in Seq([name : Seq(STRING), args : BOOLEAN])

VARIABLES lines,      \* the manifest
          asked,      \* the operation and its operands
          answer      \* what it returned, or panicked

vars == <<lines, asked, answer>>

None     == [op |-> "none"]
Panicked == [panicked |-> TRUE]

Init == lines = <<>> /\ asked = None /\ answer = None

Ask(op, x, y, a) ==
  /\ asked' = [op |-> op, x |-> x, y |-> y]
  /\ answer' = a
  /\ UNCHANGED lines

Idle  == asked = None
Start == Idle /\ lines = <<>>

\* A wrapping operation returns the value of the checked one.
Adds ==
  Start /\ \E x, y \in Int128 : Ask("add", x, y, AddChecked(x, y))
Subtracts ==
  Start /\ \E x, y \in Int128 : Ask("sub", x, y, SubChecked(x, y))
Multiplies ==
  Start /\ \E x, y \in Int128 :
             Ask("mul", x, y, [wrapped |-> Mul(x, y), checked |-> MulChecked(x, y)])
Divides ==
  Start /\ \E x, y \in Int128 :
             Ask("div", x, y, IF DivModPanics(x, y) THEN Panicked ELSE DivMod(x, y))
Compares ==
  Start /\ \E x, y \in Int128 :
             Ask("cmp", x, y, [unsigned |-> Cmp(x, y), signed |-> CmpSigned(x, y)])

\* An int64 becomes a 128-bit one.
Extends ==
  Start /\ \E v \in -(Limb \div 2) .. (Limb \div 2) - 1 : Ask("extend", v, Zero, I128From(v))

-----------------------------------------------------------------------------
(* What a manifest means.  An assignment says something of the path of its *)
(* table and key.                                                          *)

Headers == {i \in DOMAIN lines : lines[i].kind = "header"}
Assignments == DOMAIN lines \ Headers

TableAt(i) ==
  LET above == {h \in Headers : h < i}
  IN  IF above = {} THEN <<>> ELSE lines[Max(above)].path

PathAt(i) == IF i \in Headers THEN lines[i].path ELSE TableAt(i) \o lines[i].key

\* Tables that come into being by a dotted key.
Dotted(i) == {TableAt(i) \o SubSeq(lines[i].key, 1, k) : k \in 1 .. Len(lines[i].key) - 1}

\* TOML accepts it, as otigen did before asc runs: nothing is defined twice.
ValidToml ==
  /\ \A i, j \in Headers : i # j => lines[i].path # lines[j].path
  /\ \A i, j \in Assignments : i # j => ~ IsPrefix(PathAt(i), PathAt(j))
  /\ \A i \in Assignments, h \in Headers :
        ~ IsPrefix(PathAt(i), PathAt(h)) /\ lines[h].path \notin Dotted(i)

IsDeclared(f) == \E i \in DOMAIN lines : IsPrefix(<<"functions", f>>, PathAt(i))

\* The assignment says the attributes of f.
SaysAttributes(i, f) ==
  \/ lines[i].shape = "strings" /\ PathAt(i) = <<"functions", f, "attributes">>
  \/ lines[i].shape = "inline" /\ PathAt(i) = <<"functions", f>>
AttributesOf(f) == UNION {lines[i].attrs : i \in {j \in Assignments : SaysAttributes(j, f)}}

\* The manifest keeps to headers for what it says of functions, gives each
\* function one, and every list of attributes is a list.
InHeaderForm ==
  \A i \in DOMAIN lines :
    LET path == PathAt(i)
    IN  Len(path) >= 2 /\ path[1] = "functions" =>
          /\ \E h \in Headers : lines[h].path = SubSeq(path, 1, 2)
          /\ i \in Assignments =>
               /\ Len(TableAt(i)) >= 2 /\ Len(lines[i].key) = 1
               /\ lines[i].key = <<"attributes">> => lines[i].shape = "strings"

-----------------------------------------------------------------------------

Writes ==
  /\ Idle
  /\ Len(lines) < MaxLines
  /\ \E line \in Lines : lines' = Append(lines, line)
  /\ ValidToml'
  /\ UNCHANGED <<asked, answer>>

\* asc runs the transform.
Builds(decls, version, noManifest) ==
  Ask("build", decls, version, AfterParse(version, decls, lines, noManifest))

\* Only where nothing is written may there be no manifest at all.
BuildsContract ==
  /\ Idle
  /\ \E decls \in Contracts, version \in Versions, noManifest \in BOOLEAN :
       /\ noManifest => lines = <<>>
       /\ Builds(decls, version, noManifest)

\* A declaration with one decorator, near a marker or not.
BuildsSpelling ==
  /\ Start
  /\ \E name \in Spellings, args \in BOOLEAN :
       Builds({[declaredAs |-> "get", decorators |-> <<[name |-> name, args |-> args]>>]},
              <<>>, FALSE)

\* The next question.
Again ==
  /\ asked # None
  /\ lines' = <<>> /\ asked' = None /\ answer' = None

Next ==
  \/ Adds \/ Subtracts \/ Multiplies \/ Divides \/ Compares \/ Extends
  \/ Writes \/ BuildsContract \/ BuildsSpelling
  \/ Again

Spec == Init /\ [][Next]_vars

-----------------------------------------------------------------------------

\* 128-bit arithmetic is the integers': the value modulo 2^128 with a flag that
\* is true exactly when nothing was lost, the quotient and the remainder, the
\* order read as unsigned and as two's complement, the sign of an int64; and a
\* division panics on zero and on nothing else.
U128Exact ==
  LET x  == Value(asked.x)
      y  == Value(asked.y)
      M  == Limb * Limb
      Is(u, n) == u \in Int128 /\ Value(u) = n
      Sign(n)  == IF n < 0 THEN -1 ELSE IF n = 0 THEN 0 ELSE 1
  IN  CASE asked.op = "add" -> /\ Is(answer.val, (x + y) % M)
                               /\ answer.ok <=> x + y < M
        [] asked.op = "sub" -> /\ Is(answer.val, (x - y) % M)
                               /\ answer.ok <=> x >= y
        [] asked.op = "mul" -> /\ Is(answer.wrapped, (x * y) % M)
                               /\ answer.checked.val = answer.wrapped
                               /\ answer.checked.ok <=> x * y < M
        [] asked.op = "div" -> IF y = 0 THEN answer = Panicked
                               ELSE /\ answer # Panicked
                                    /\ Is(answer.q, x \div y)
                                    /\ Is(answer.rem, x % y)
        [] asked.op = "cmp" -> /\ answer.unsigned = Sign(x - y)
                               /\ answer.signed =
                                    Sign(SignedValue(asked.x) - SignedValue(asked.y))
        [] asked.op = "extend" -> /\ answer \in Int128
                                  /\ SignedValue(answer) = asked.x
        [] OTHER            -> TRUE

Built(outcome) == asked.op = "build" /\ answer.outcome = outcome

MarkersOf(decl) == {x.name : x \in ToSet(decl.decorators)} \cap IntentMarkers

Agrees(decl) ==
  LET ms    == MarkersOf(decl)
      f     == FunctionNameFor(decl.declaredAs)
      attrs == AttributesOf(f)
  IN  /\ IsDeclared(f)
      /\ View \in ms => "view" \in attrs
      /\ Mutating \in ms => "view" \notin attrs
      /\ Payable \in ms <=> "payable" \in attrs
      /\ Entry \in ms => {"entry", "constructor"} \cap attrs # {}

\* A build that goes through, with a compiler the transform knows, has no
\* marker the manifest contradicts, however TOML lets the manifest be written:
\* by headers, dotted keys or inline tables, in any order, next to the tables
\* of other things.  And with the functions under headers and no marker
\* written with arguments, only such a marker fails a build.
IntentExact ==
  LET marked == {d \in asked.x : MarkersOf(d) # {}}
  IN  /\ Built("builds") => \A d \in marked : Agrees(d)
      /\ Built("fails") /\ InHeaderForm =>
           \E d \in marked : ~ Agrees(d) \/ \E x \in ToSet(d.decorators) : x.args

\* Name by name: one letter more, less or other, or two neighbours swapped.
OneEdit(a, b) ==
  \/ \E i \in DOMAIN a : RemoveAt(a, i) = b
  \/ \E i \in DOMAIN b : RemoveAt(b, i) = a
  \/ Len(a) = Len(b) /\ \E i \in DOMAIN a : \A j \in DOMAIN a \ {i} : a[j] = b[j]
  \/ Len(a) = Len(b) /\ \E i \in 1 .. Len(a) - 1 :
       b = [a EXCEPT ![i] = a[i + 1], ![i + 1] = a[i]]

\* No misspelt marker goes unnoticed: a build that goes through has warned of
\* exactly the decorators one edit away from a marker.
NearMissWarned ==
  Built("builds") =>
    LET names == UNION {{x.name : x \in ToSet(d.decorators)} : d \in asked.x}
    IN  answer.warnings =
          {n \in names \ IntentMarkers : \E m \in IntentMarkers : OneEdit(n, m)}
=============================================================================
