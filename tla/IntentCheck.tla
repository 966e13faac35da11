---------------------------- MODULE IntentCheck ----------------------------
(***************************************************************************)
(* The AssemblyScript transform: the intent markers on the declarations    *)
(* of a contract are compared with [functions.*] of otigen.toml, and the   *)
(* build fails when they disagree.                                         *)
(*                                                                         *)
(* A manifest is a sequence of lines, headers and assignments; the text of *)
(* a line is abstracted.  A decorator's name is the sequence of its        *)
(* letters, and a declaration is                                           *)
(*   [declaredAs |-> .., decorators |-> sequence of                        *)
(*    [name |-> .., args |-> whether it has parentheses]].                 *)
(***************************************************************************)
EXTENDS Integers, SequencesExt

CONSTANTS Entry, View, Mutating, Payable,   \* the letters of the four markers
          SeamOf   \* declarations named __<f>_impl to the f they implement

IntentMarkers == {Entry, View, Mutating, Payable}

ASSUME MarkersAssumption == IntentMarkers \subseteq Seq(STRING)

Header(path, array) == [kind |-> "header", path |-> path, array |-> array]
\* A value: an array of strings, an inline table whose attributes they are,
\* or another.
Assignment(key, shape, attrs) ==
  [kind |-> "assignment", key |-> key, shape |-> shape, attrs |-> attrs]

-----------------------------------------------------------------------------
(* parseManifest.  functions is what [functions.*] says: name to attributes *)

\* A table below a function's passes for the function's.
IsFunctionTableOrBelow(table) == Len(table) >= 2 /\ table[1] = "functions"

IsFunctionTable(table) == Len(table) = 2 /\ table[1] = "functions"

\* A header opens its table, and declares the function it names; an assignment
\* counts in a function's table, to attributes.
ParseLine(m, line) ==
  LET known(f) == f \in DOMAIN m.functions
      set(f, attrs) == [g \in DOMAIN m.functions \cup {f} |->
                         IF g = f THEN attrs ELSE m.functions[g]]
  IN  IF ~ m.ok THEN m
      ELSE IF line.kind = "header"
      THEN [m EXCEPT !.table = line.path,
                     !.functions = IF ~ line.array /\ IsFunctionTable(line.path) /\ ~ known(line.path[2])
                                   THEN set(line.path[2], {}) ELSE @]
      ELSE IF IsFunctionTable(m.table) /\ line.key = <<"attributes">>
      THEN IF line.shape = "strings" THEN [m EXCEPT !.functions = set(m.table[2], line.attrs)]
           ELSE [m EXCEPT !.ok = FALSE]
      ELSE m

ParseManifest(lines) ==
  FoldLeft(ParseLine, [ok |-> TRUE, table |-> <<>>, functions |-> <<>>], lines)

-----------------------------------------------------------------------------
(* Collecting the markers *)

\* The distance without it.
NoSwap(a, b, i, j, above2) == {}

\* Two neighbours in the other order count as one edit.
Swap(a, b, i, j, above2) ==
  IF i > 1 /\ j > 1 /\ a[i] = b[j - 1] /\ a[i - 1] = b[j] THEN {above2[j - 1] + 1} ELSE {}

\* The row of the i-th letter of a, from the rows above it.
NextRow(a, b, rows, i) ==
  LET row[j \in 0 .. Len(b)] ==
        IF j = 0 THEN <<i>>
        ELSE LET left == row[j - 1]
             IN  Append(left, Min({rows[i][j + 1] + 1, left[j] + 1,
                                   rows[i][j] + (IF a[i] = b[j] THEN 0 ELSE 1)}
                                  \cup Swap(a, b, i, j, rows[i - 1])))
  IN  row[Len(b)]

\* The edits that turn one name into the other: a letter more, less or other,
\* or a swap.  rows[i + 1][j + 1] is the distance of their beginnings.
OsaDistance(a, b) ==
  LET rows[i \in 0 .. Len(a)] ==
        IF i = 0 THEN << [j \in 1 .. Len(b) + 1 |-> j - 1] >>
        ELSE LET above == rows[i - 1] IN Append(above, NextRow(a, b, above, i))
  IN  rows[Len(a)][Len(a) + 1][Len(b) + 1]

\* A decorator that is no marker and next to one is warned about.
NearestMarker(name) == {m \in IntentMarkers : OsaDistance(name, m) <= 1}

\* partitionDecorators: a marker with arguments ends the build.
PartitionDecorators(decl) ==
  LET d == ToSet(decl.decorators)
  IN  [throws   |-> \E x \in d : x.name \in IntentMarkers /\ x.args,
       markers  |-> {x.name : x \in {y \in d : y.name \in IntentMarkers}},
       warnings |-> {x.name : x \in {y \in d : /\ y.name \notin IntentMarkers
                                               /\ NearestMarker(y.name) # {}}}]

\* The body behind the generated entry stands for the entry.
FunctionNameFor(declaredAs) ==
  IF declaredAs \in DOMAIN SeamOf THEN SeamOf[declaredAs] ELSE declaredAs

\* collectIntents, of the declarations with a marker.
CollectIntents(decls) ==
  {[fn |-> FunctionNameFor(x.declaredAs), markers |-> PartitionDecorators(x).markers] :
     x \in {y \in decls : PartitionDecorators(y).markers # {}}}

-----------------------------------------------------------------------------
(* reconcile *)

Problems(intent, functions) ==
  LET ms    == intent.markers
      attrs == functions[intent.fn]
  IN  IF {View, Mutating} \subseteq ms THEN {"both"}
      ELSE IF intent.fn \notin DOMAIN functions THEN {"no table"}
      ELSE {p \in {"view", "mutating", "payable", "entry"} :
              CASE p = "view"     -> View \in ms /\ "view" \notin attrs
                [] p = "mutating" -> Mutating \in ms /\ "view" \in attrs
                [] p = "payable"  -> (Payable \in ms) # ("payable" \in attrs)
                [] p = "entry"    -> Entry \in ms /\ {"entry", "constructor"} \cap attrs = {}}

Reconcile(intents, functions) == UNION {Problems(i, functions) : i \in intents}

-----------------------------------------------------------------------------
(* afterParse.  A version is <<major, minor, patch>>, or <<>> when no        *)
(* compiler is found, and noManifest that findManifest comes back empty.     *)

Below(v, w) == \E k \in 1 .. 3 : v[k] < w[k] /\ \A j \in 1 .. k - 1 : v[j] = w[j]
IsSupportedAscVersion(v) == ~ Below(v, <<0, 27, 30>>) /\ Below(v, <<0, 29, 0>>)

Result(outcome, warnings) == [outcome |-> outcome, warnings |-> warnings]

AfterParse(version, decls, lines, noManifest) ==
  LET warnings == UNION {PartitionDecorators(x).warnings : x \in decls}
      intents  == CollectIntents(decls)
      manifest == ParseManifest(lines)
  IN  IF version # <<>> /\ ~ IsSupportedAscVersion(version) THEN Result("stands down", {})
      ELSE IF \E x \in decls : PartitionDecorators(x).throws THEN Result("fails", {})
      ELSE IF intents = {} THEN Result("builds", warnings)
      ELSE IF noManifest \/ ~ manifest.ok \/ Reconcile(intents, manifest.functions) # {}
      THEN Result("fails", warnings)
      ELSE Result("builds", warnings)
=============================================================================
