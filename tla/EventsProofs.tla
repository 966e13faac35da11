---------------------------- MODULE EventsProofs ----------------------------
(***************************************************************************)
(* What a subscriber may rely on, for any events of otigen.toml, any       *)
(* values and any depth of calls: the log holds the emissions that the     *)
(* host had to take, in order, as their declarations encode them.          *)
(***************************************************************************)
EXTENDS Events, DataProofs

-----------------------------------------------------------------------------
(* What Where keeps *)

IsWhere(kept, s, keep, S) ==
  /\ kept \in [0 .. Len(s) -> Seq(S)] /\ kept[0] = <<>>
  /\ \A k \in 1 .. Len(s) :
       kept[k] = IF keep[k] THEN Append(kept[k - 1], s[k]) ELSE kept[k - 1]

LEMMA WhereIs ==
  ASSUME NEW S, NEW s \in Seq(S), NEW keep
  PROVE  \E kept : IsWhere(kept, s, keep, S) /\ Where(s, keep) = kept[Len(s)]
<1> DEFINE n == Len(s)  V == Seq(S)
           step == [p \in (1 .. n) \X V |-> IF keep[p[1]] THEN Append(p[2], s[p[1]]) ELSE p[2]]
<1>1. n \in Nat /\ \A k \in 1 .. n : s[k] \in S
  BY ElementOfSeq
<1>2. step \in [(1 .. n) \X V -> V]
  <2> SUFFICES ASSUME NEW p \in (1 .. n) \X V PROVE Append(p[2], s[p[1]]) \in V /\ p[2] \in V
    BY Zenon
  <2>1. p[1] \in 1 .. n /\ p[2] \in Seq(S)
    OBVIOUS
  <2> HIDE DEF n
  <2> QED
    BY <1>1, <2>1, AppendProperties
<1>3. <<>> \in V
  BY EmptySeq
<1>4. PICK f : IsRecursion(f, n, V, <<>>, step)
  <2> HIDE DEF step, n, V
  <2> QED
    BY <1>1, <1>2, <1>3, RecursionUpTo
<1>5. /\ f \in [0 .. n -> V] /\ f[0] = <<>>
      /\ \A k \in 1 .. n : f[k] = IF keep[k] THEN Append(f[k - 1], s[k]) ELSE f[k - 1]
  <2>1. f \in [0 .. n -> V] /\ f[0] = <<>> /\ \A k \in 1 .. n : f[k] = step[<<k, f[k - 1]>>]
    <3> HIDE DEF step, n, V
    <3> QED
      BY <1>4 DEF IsRecursion
  <2>2. \A k \in 1 .. n : f[k - 1] \in V
    <3> HIDE DEF step, V
    <3> QED
      BY <1>1, <2>1
  <2>3. \A k \in 1 .. n : step[<<k, f[k - 1]>>] = IF keep[k] THEN Append(f[k - 1], s[k]) ELSE f[k - 1]
    <3> HIDE DEF n, V
    <3> QED
      BY <2>2
  <2> HIDE DEF step
  <2> QED
    BY <2>1, <2>3
<1> HIDE DEF step
<1> DEFINE Rec(g) == [k \in 0 .. Len(s) |->
                        IF k = 0 THEN <<>> ELSE IF keep[k] THEN Append(g[k - 1], s[k]) ELSE g[k - 1]]
           it == CHOOSE g : g = Rec(g)
<1>6. f = Rec(f)
  <2>1. f = [k \in 0 .. n |-> f[k]]
    <3> HIDE DEF V, n
    <3> QED
      BY <1>5
  <2>2. \A k \in 0 .. n : k = 0 \/ k \in 1 .. n
    BY <1>1
  <2> HIDE DEF V
  <2> QED
    BY <1>5, <2>1, <2>2
<1>7. it = Rec(it)
  <2> HIDE DEF Rec
  <2> QED
    BY <1>6
<1>8. Where(s, keep) = it[Len(s)]
  BY DEF Where
<1> HIDE DEF it
<1>9. /\ it = [k \in 0 .. n |-> it[k]] /\ it[0] = <<>>
      /\ \A k \in 1 .. n : it[k] = IF keep[k] THEN Append(it[k - 1], s[k]) ELSE it[k - 1]
  <2>1. 0 \in 0 .. n /\ \A k \in 1 .. n : k \in 0 .. n /\ k # 0
    BY <1>1
  <2>2. it[0] = <<>>
    BY <1>7, <2>1
  <2>3. it = [k \in 0 .. n |-> it[k]]
    BY <1>7
  <2>4. \A k \in 1 .. n : it[k] = IF keep[k] THEN Append(it[k - 1], s[k]) ELSE it[k - 1]
    BY <1>7, <2>1
  <2> QED
    BY <2>2, <2>3, <2>4
<1> HIDE DEF Rec
<1> DEFINE T == {k \in 0 .. n : it[k] = f[k]}
<1>10. \A k \in 0 .. n : k \in T
  <2>1. 0 \in T
    BY <1>1, <1>5, <1>9
  <2>2. ASSUME NEW k \in 1 .. n, k - 1 \in T PROVE k \in T
    <3>1. k \in 0 .. n /\ it[k - 1] = f[k - 1]
      BY <1>1, <2>2
    <3>2. it[k] = f[k]
      <4> HIDE DEF V, T
      <4> QED
        BY <1>5, <1>9, <3>1
    <3> QED
      BY <3>1, <3>2
  <2> HIDE DEF T, n
  <2> QED
    BY <1>1, <2>1, <2>2, UpTo
<1>11. it = f
  <2>1. \A k \in 0 .. n : it[k] = f[k]
    BY <1>10
  <2>2. f = [k \in 0 .. n |-> f[k]]
    <3> HIDE DEF V, n
    <3> QED
      BY <1>5
  <2> HIDE DEF T, n, V
  <2> QED
    BY <1>9, <2>1, <2>2
<1> QED
  BY <1>5, <1>8, <1>11 DEF IsWhere

\* As far as two sequences and what is kept of them agree, so do the results.
LEMMA WheresAgree ==
  ASSUME NEW S, NEW s \in Seq(S), NEW t \in Seq(S), NEW a, NEW b, NEW f, NEW g,
         IsWhere(f, s, a, S), IsWhere(g, t, b, S),
         NEW n \in Nat, n <= Len(s), n <= Len(t), \A k \in 1 .. n : s[k] = t[k] /\ a[k] = b[k]
  PROVE  f[n] = g[n]
<1> DEFINE T == {k \in 0 .. n : f[k] = g[k]}
<1>1. 0 \in T
  BY DEF IsWhere
<1>2. ASSUME NEW k \in 1 .. n, k - 1 \in T PROVE k \in T
  <2>1. k \in 1 .. Len(s) /\ k \in 1 .. Len(t) /\ k \in 0 .. n
    OBVIOUS
  <2>2. f[k] = IF a[k] THEN Append(f[k - 1], s[k]) ELSE f[k - 1]
    BY <2>1 DEF IsWhere
  <2>3. g[k] = IF b[k] THEN Append(g[k - 1], t[k]) ELSE g[k - 1]
    BY <2>1 DEF IsWhere
  <2>4. f[k - 1] = g[k - 1]
    BY <1>2
  <2> QED
    BY <2>1, <2>2, <2>3, <2>4
<1>3. n \in 0 .. n
  OBVIOUS
<1> HIDE DEF T
<1>4. n \in T
  BY <1>1, <1>2, <1>3, UpTo
<1> QED
  BY <1>4 DEF T

\* What is kept of the first m elements is the beginning of what is kept.
LEMMA WhereGrows ==
  ASSUME NEW S, NEW s \in Seq(S), NEW keep, NEW f, IsWhere(f, s, keep, S), NEW m \in 0 .. Len(s)
  PROVE  f[m] = SubSeq(f[Len(s)], 1, Len(f[m])) /\ Len(f[m]) <= Len(f[Len(s)])
<1> DEFINE n == Len(s)
           Begins(x, y) == x = SubSeq(y, 1, Len(x)) /\ Len(x) <= Len(y)
           T == {k \in 0 .. n : m <= k => Begins(f[m], f[k])}
<1>0. n \in Nat /\ m \in Nat /\ m <= n /\ (\A k \in 1 .. n : s[k] \in S)
  BY ElementOfSeq
<1>00. \A k \in 0 .. n : f[k] \in Seq(S)
  BY DEF IsWhere
<1>01. ASSUME NEW x \in Seq(S) PROVE Begins(x, x)
  BY SubSeqFull
<1>02. ASSUME NEW x \in Seq(S), NEW y \in Seq(S), Begins(x, y), NEW e \in S
       PROVE  Begins(x, Append(y, e))
  <2>1. /\ Append(y, e) \in Seq(S) /\ Len(Append(y, e)) = Len(y) + 1
        /\ \A i \in 1 .. Len(y) : Append(y, e)[i] = y[i]
    BY AppendProperties
  <2> DEFINE z == Append(y, e)  l == Len(x)
  <2> HIDE DEF z, l
  <2>2. l \in Nat /\ l <= Len(y) /\ l <= Len(z) /\ x = SubSeq(y, 1, l)
    BY <1>02, <2>1 DEF z, l
  <2>3. \A i \in 1 .. l : z[i] = y[i]
    BY <2>1, <2>2 DEF z
  <2>4. SubSeq(z, 1, l) = SubSeq(y, 1, l)
    <3>1. SubSeq(z, 1, l) = [i \in 1 .. l |-> z[i]]
      BY <2>1, <2>2 DEF z
    <3>2. SubSeq(y, 1, l) = [i \in 1 .. l |-> y[i]]
      BY <2>2
    <3> QED
      BY <2>3, <3>1, <3>2
  <2> QED
    BY <2>2, <2>4 DEF z, l
<1> HIDE DEF Begins
<1>1. 0 \in T
  <2>1. m <= 0 => m = 0
    BY <1>0
  <2>2. 0 \in 0 .. n
    BY <1>0
  <2> QED
    BY <1>00, <1>01, <2>1, <2>2
<1>2. ASSUME NEW k \in 1 .. n, k - 1 \in T PROVE k \in T
  <2>0. k \in 0 .. n /\ k - 1 \in 0 .. n /\ m \in 0 .. n
    BY <1>0
  <2>1. CASE m <= k - 1
    <3>1. Begins(f[m], f[k - 1])
      BY <1>2, <2>1
    <3>2. f[k] = IF keep[k] THEN Append(f[k - 1], s[k]) ELSE f[k - 1]
      BY DEF IsWhere
    <3>3. f[m] \in Seq(S) /\ f[k - 1] \in Seq(S) /\ s[k] \in S
      BY <1>0, <1>00, <2>0
    <3>4. Begins(f[m], f[k])
      BY <1>02, <3>1, <3>2, <3>3
    <3> QED
      BY <2>0, <3>4
  <2>2. CASE ~ (m <= k - 1)
    <3>1. m <= k => m = k
      BY <1>0, <2>2
    <3> QED
      BY <1>00, <1>01, <2>0, <3>1
  <2> QED
    BY <2>1, <2>2
<1>3. n \in T
  <2>1. n \in 0 .. n
    BY <1>0
  <2> HIDE DEF T, n
  <2> QED
    BY <1>0, <1>1, <1>2, <2>1, UpTo
<1> QED
  BY <1>0, <1>3 DEF Begins

\* What is kept is among the elements that are to be kept.
LEMMA WhereFrom ==
  ASSUME NEW S, NEW s \in Seq(S), NEW keep, NEW R,
         \A k \in 1 .. Len(s) : keep[k] => s[k] \in R
  PROVE  Where(s, keep) \in Seq(R) /\ Len(Where(s, keep)) <= Len(s)
<1>1. PICK f : IsWhere(f, s, keep, S) /\ Where(s, keep) = f[Len(s)]
  BY WhereIs
<1> DEFINE n == Len(s)
           T == {k \in 0 .. n : f[k] \in Seq(R) /\ Len(f[k]) <= k}
<1>0. n \in Nat
  OBVIOUS
<1>2. 0 \in T
  <2>1. f[0] = <<>> /\ 0 \in 0 .. n
    BY <1>0, <1>1 DEF IsWhere
  <2>2. <<>> \in Seq(R) /\ Len(<<>>) = 0 /\ 0 <= 0
    BY EmptySeq
  <2> HIDE DEF n
  <2> QED
    BY <2>1, <2>2
<1>3. ASSUME NEW k \in 1 .. n, k - 1 \in T PROVE k \in T
  <2>1. f[k] = IF keep[k] THEN Append(f[k - 1], s[k]) ELSE f[k - 1]
    BY <1>1 DEF IsWhere
  <2>2. f[k - 1] \in Seq(R) /\ Len(f[k - 1]) <= k - 1
    BY <1>3
  <2>3. CASE keep[k]
    <3>1. s[k] \in R
      BY <2>3
    <3>2. f[k] \in Seq(R) /\ Len(f[k]) = Len(f[k - 1]) + 1
      BY <2>1, <2>2, <2>3, <3>1, AppendProperties
    <3> QED
      BY <2>2, <3>2
  <2>4. CASE ~ keep[k]
    <3>1. f[k] = f[k - 1]
      BY <2>1, <2>4
    <3> QED
      BY <2>2, <3>1
  <2> QED
    BY <2>3, <2>4
<1>4. n \in T
  <2>1. n \in 0 .. n
    BY <1>0
  <2> HIDE DEF T, n
  <2> QED
    BY <1>0, <1>2, <1>3, <2>1, UpTo
<1> QED
  BY <1>1, <1>4

\* How many are kept does not depend on what they are.
LEMMA WhereLength ==
  ASSUME NEW S, NEW s \in Seq(S), NEW R, NEW t \in Seq(R), Len(s) = Len(t),
         NEW a, NEW b, \A k \in 1 .. Len(s) : a[k] = b[k]
  PROVE  Len(Where(s, a)) = Len(Where(t, b))
<1>1. PICK f : IsWhere(f, s, a, S) /\ Where(s, a) = f[Len(s)]
  BY WhereIs
<1>2. PICK g : IsWhere(g, t, b, R) /\ Where(t, b) = g[Len(t)]
  BY WhereIs
<1> DEFINE n == Len(s)
           T == {k \in 0 .. n : Len(f[k]) = Len(g[k])}
<1>0. n \in Nat /\ (\A k \in 1 .. n : s[k] \in S /\ t[k] \in R)
  BY ElementOfSeq
<1>3. 0 \in T
  <2>1. f[0] = <<>> /\ g[0] = <<>> /\ 0 \in 0 .. n
    BY <1>0, <1>1, <1>2 DEF IsWhere
  <2> QED
    BY <2>1
<1>4. ASSUME NEW k \in 1 .. n, k - 1 \in T PROVE k \in T
  <2>1. f[k] = IF a[k] THEN Append(f[k - 1], s[k]) ELSE f[k - 1]
    BY <1>1 DEF IsWhere
  <2>2. g[k] = IF b[k] THEN Append(g[k - 1], t[k]) ELSE g[k - 1]
    BY <1>2 DEF IsWhere
  <2>3. k - 1 \in 0 .. n /\ k \in 0 .. n
    BY <1>0
  <2>4. f[k - 1] \in Seq(S) /\ g[k - 1] \in Seq(R) /\ Len(f[k - 1]) = Len(g[k - 1])
    BY <1>1, <1>2, <1>4, <2>3 DEF IsWhere
  <2>5. /\ Len(Append(f[k - 1], s[k])) = Len(f[k - 1]) + 1
        /\ Len(Append(g[k - 1], t[k])) = Len(g[k - 1]) + 1
    BY <1>0, <2>4, AppendProperties
  <2>6. a[k] = b[k]
    OBVIOUS
  <2>7. Len(f[k]) = Len(g[k])
    BY <2>1, <2>2, <2>4, <2>5, <2>6
  <2> QED
    BY <2>3, <2>7
<1>5. n \in T
  <2>1. n \in 0 .. n
    BY <1>0
  <2> HIDE DEF T, n
  <2> QED
    BY <1>0, <1>3, <1>4, <2>1, UpTo
<1> QED
  BY <1>1, <1>2, <1>5

-----------------------------------------------------------------------------
(* Fields of the types they have *)

AnyValue == UNION {Values(ty) : ty \in FieldTy}

Typed ==
  {f \in [ty : FieldTy, indexed : BOOLEAN, value : AnyValue] :
     HasType(f.ty, f.value) /\ (f.indexed => TopicAllowed(f.ty))}

Plains  == {f \in Typed : ~ f.indexed}
Indexes == {f \in Typed : f.indexed}

LEMMA FieldTyIs ==
  /\ FieldTy \subseteq Ty /\ FieldTy \subseteq DOMAIN Width \cup Variable
  /\ \A ty \in FieldTy : TopicAllowed(ty) => ty \in DOMAIN Width
  /\ \A ty \in DOMAIN Width : Width[ty] \in 1 .. 32 /\ ty \notin Variable
<1>1. FieldTy \subseteq DOMAIN Width \cup Variable
  BY DEF FieldTy, Canonical, Width, Variable
<1>2. \A ty \in DOMAIN Width : Width[ty] \in 1 .. 32
  BY DEF Width
<1> QED
  BY <1>1, <1>2, KindsDiffer DEF Ty, Prefixed, TopicAllowed

LEMMA ParseIs ==
  ASSUME NEW token, Parses(token) # {}
  PROVE  Parse(token) \in FieldTy
<1>1. \E ty \in FieldTy : token \in {ty, Canonical[ty]}
  BY DEF Parses
<1> QED
  BY <1>1 DEF Parse

\* One value for each field.
Given(raw, vals) ==
  /\ vals \in Seq(AnyValue) /\ Len(vals) = Len(raw.fields)
  /\ \A i \in 1 .. Len(raw.fields) : vals[i] \in Values(Parse(raw.fields[i].ty))

Tokens == [ty : STRING, indexed : BOOLEAN]

\* What is known of a declaration that lowers.
Lowered(raw) ==
  /\ raw.name \in STRING \ {"raw"} /\ raw.fields \in Seq(Tokens)
  /\ \A i \in 1 .. Len(raw.fields) :
       /\ Parse(raw.fields[i].ty) \in FieldTy
       /\ raw.fields[i].indexed => TopicAllowed(Parse(raw.fields[i].ty))
  /\ Len(IndexedOf(raw.fields)) <= 3

LEMMA LowersIs ==
  ASSUME NEW m \in Manifests, NEW raw \in m, Lowers(raw)
  PROVE  Lowered(raw)
<1>1. raw.name \in STRING \ {"raw"} /\ raw.fields \in Seq(Tokens)
  BY ManifestsAssumption DEF Tokens
<1>2. ASSUME NEW i \in 1 .. Len(raw.fields)
      PROVE  /\ Parse(raw.fields[i].ty) \in FieldTy
             /\ raw.fields[i].indexed => TopicAllowed(Parse(raw.fields[i].ty))
  <2>1. i \in DOMAIN raw.fields
    BY <1>1
  <2>2. FieldLowers(raw.fields[i])
    BY <2>1 DEF Lowers
  <2> QED
    BY <2>2, ParseIs DEF FieldLowers
<1> QED
  BY <1>1, <1>2 DEF Lowered, Lowers

\* The fields of an emission.
Fields(raw, vals) == Filling(LowerEvent(raw), vals)

LEMMA FieldsAre ==
  ASSUME NEW raw, Lowered(raw), NEW vals, Given(raw, vals)
  PROVE  /\ Fields(raw, vals) \in Seq(Typed) /\ Len(Fields(raw, vals)) = Len(raw.fields)
         /\ \A i \in 1 .. Len(raw.fields) : Fields(raw, vals)[i].indexed = raw.fields[i].indexed
         /\ \A s : s.values = vals => Abi(raw, s) = Fields(raw, vals)
<1> DEFINE n == Len(raw.fields)  fs == Fields(raw, vals)
           One(i) == [ty |-> Parse(raw.fields[i].ty), indexed |-> raw.fields[i].indexed,
                      value |-> vals[i]]
<1>1. n \in Nat /\ DOMAIN raw.fields = 1 .. n /\ \A i \in 1 .. n : raw.fields[i] \in Tokens
  BY ElementOfSeq DEF Lowered
<1>2. fs = [i \in 1 .. n |-> One(i)]
  <2>1. LowerEvent(raw).fields = [i \in DOMAIN raw.fields |->
          [ty |-> Parse(raw.fields[i].ty), indexed |-> raw.fields[i].indexed]]
    BY DEF LowerEvent
  <2> DEFINE lo == LowerEvent(raw).fields
  <2>2. DOMAIN lo = 1 .. n /\ \A i \in 1 .. n : /\ lo[i].ty = Parse(raw.fields[i].ty)
                                                /\ lo[i].indexed = raw.fields[i].indexed
    BY <1>1, <2>1
  <2>3. fs = [i \in DOMAIN lo |-> [ty |-> lo[i].ty, indexed |-> lo[i].indexed, value |-> vals[i]]]
    BY DEF Fields, Filling
  <2> HIDE DEF lo, fs, n
  <2> QED
    BY <2>2, <2>3
<1>3. ASSUME NEW i \in 1 .. n PROVE One(i) \in Typed
  <2> DEFINE ty == Parse(raw.fields[i].ty)  v == vals[i]  b == raw.fields[i].indexed
  <2>1. ty \in FieldTy /\ (b => TopicAllowed(ty)) /\ v \in Values(ty)
    BY DEF Lowered, Given
  <2>2. HasType(ty, v)
    <3> HIDE DEF ty, v
    <3> QED
      BY <2>1, ValuesAssumption
  <2>3. v \in AnyValue
    <3> HIDE DEF ty, v
    <3> QED
      BY <2>1 DEF AnyValue
  <2>4. b \in BOOLEAN
    BY <1>1 DEF Tokens
  <2> HIDE DEF ty, v, b
  <2>5. [ty |-> ty, indexed |-> b, value |-> v] \in Typed
    BY <2>1, <2>2, <2>3, <2>4 DEF Typed
  <2> QED
    BY <2>5 DEF ty, v, b
<1>4. fs \in Seq(Typed) /\ Len(fs) = n
  <2>1. fs \in [1 .. n -> Typed]
    <3> HIDE DEF One, n
    <3> QED
      BY <1>2, <1>3
  <2> HIDE DEF fs, n
  <2> QED
    BY <1>1, <2>1
<1>5. \A i \in 1 .. n : fs[i].indexed = raw.fields[i].indexed
  BY <1>2
<1>6. ASSUME NEW s, s.values = vals PROVE Abi(raw, s) = fs
  <2>1. Abi(raw, s) = [i \in 1 .. n |-> One(i)]
    BY <1>1, <1>6 DEF Abi
  <2> QED
    BY <1>2, <2>1
<1> QED
  BY <1>4, <1>5, <1>6

LEMMA SplitFields ==
  ASSUME NEW fields \in Seq(Typed)
  PROVE  /\ IndexedOf(fields) \in Seq(Indexes)
         /\ DataOf(fields) \in Seq(Plains)
<1>1. DOMAIN fields = 1 .. Len(fields) /\ \A k \in 1 .. Len(fields) : fields[k] \in Typed
  BY ElementOfSeq
<1>2. IndexedOf(fields) \in Seq(Indexes)
  <2> DEFINE keep == [i \in DOMAIN fields |-> fields[i].indexed]
  <2>1. \A k \in 1 .. Len(fields) : keep[k] => fields[k] \in Indexes
    BY <1>1 DEF Indexes
  <2>2. Where(fields, keep) \in Seq(Indexes)
    <3> HIDE DEF keep
    <3> QED
      BY <2>1, WhereFrom
  <2> QED
    BY <2>2 DEF IndexedOf
<1>3. DataOf(fields) \in Seq(Plains)
  <2> DEFINE keep == [i \in DOMAIN fields |-> ~ fields[i].indexed]
  <2>1. \A k \in 1 .. Len(fields) : keep[k] => fields[k] \in Plains
    BY <1>1 DEF Plains
  <2>2. Where(fields, keep) \in Seq(Plains)
    <3> HIDE DEF keep
    <3> QED
      BY <2>1, WhereFrom
  <2> QED
    BY <2>2 DEF DataOf
<1> QED
  BY <1>2, <1>3

\* A declaration that lowers has room for its topics.
LEMMA TopicsFew ==
  ASSUME NEW raw, Lowered(raw), NEW vals, Given(raw, vals)
  PROVE  Len(IndexedOf(Fields(raw, vals))) \in 0 .. 3
<1> DEFINE fs == Fields(raw, vals)
           a == [i \in DOMAIN fs |-> fs[i].indexed]
           b == [i \in DOMAIN raw.fields |-> raw.fields[i].indexed]
<1>1. /\ fs \in Seq(Typed) /\ raw.fields \in Seq(Tokens) /\ Len(fs) = Len(raw.fields)
      /\ \A i \in 1 .. Len(raw.fields) : fs[i].indexed = raw.fields[i].indexed
  BY FieldsAre DEF Lowered
<1> HIDE DEF fs
<1>2. DOMAIN fs = 1 .. Len(fs) /\ DOMAIN raw.fields = 1 .. Len(fs)
  BY <1>1
<1>3. \A i \in 1 .. Len(fs) : a[i] = b[i]
  BY <1>1, <1>2
<1>4. IndexedOf(fs) = Where(fs, a) /\ IndexedOf(raw.fields) = Where(raw.fields, b)
  BY DEF IndexedOf
<1> HIDE DEF a, b
<1>5. Len(Where(fs, a)) = Len(Where(raw.fields, b))
  BY <1>1, <1>3, WhereLength
<1>6. Len(IndexedOf(fs)) \in Nat
  BY <1>1, SplitFields
<1>7. Len(IndexedOf(raw.fields)) <= 3
  BY DEF Lowered
<1>8. Len(IndexedOf(fs)) = Len(IndexedOf(raw.fields))
  BY Zenon, <1>4, <1>5
<1> DEFINE l == Len(IndexedOf(fs))
<1>9. l \in Nat /\ l <= 3
  BY <1>6, <1>7, <1>8
<1> HIDE DEF l
<1>10. l \in 0 .. 3
  BY <1>9
<1> QED
  BY <1>10 DEF l, fs

-----------------------------------------------------------------------------
(* The data of an emission is borsh *)

Types(fields) == [k \in DOMAIN fields |-> fields[k].ty]
Vals(fields)  == [k \in DOMAIN fields |-> fields[k].value]
Borsh(fields) == [k \in DOMAIN fields |-> Encode(fields[k].ty, fields[k].value)]

LEMMA PlainIs ==
  ASSUME NEW plain \in Seq(Plains)
  PROVE  /\ Types(plain) \in Seq(Ty) /\ Len(Types(plain)) = Len(plain)
         /\ IsTuple(Types(plain), Vals(plain))
         /\ Borsh(plain) \in Seq(ByteStrings) /\ Len(Borsh(plain)) = Len(plain)
         /\ EncodeAll(Types(plain), Vals(plain)) = FlattenSeq(Borsh(plain))
<1> DEFINE n == Len(plain)  tys == Types(plain)  vals == Vals(plain)
<1>0. n \in Nat /\ DOMAIN plain = 1 .. n /\ \A k \in 1 .. n : plain[k] \in Plains
  BY ElementOfSeq
<1>1. \A k \in 1 .. n : plain[k].ty \in Ty /\ HasType(plain[k].ty, plain[k].value)
  BY <1>0, FieldTyIs DEF Plains, Typed
<1>2. /\ tys = [k \in 1 .. n |-> plain[k].ty] /\ vals = [k \in 1 .. n |-> plain[k].value]
      /\ Borsh(plain) = [k \in 1 .. n |-> Encode(plain[k].ty, plain[k].value)]
  BY <1>0 DEF Types, Vals, Borsh
<1> HIDE DEF tys, vals
<1>3. tys \in Seq(Ty) /\ Len(tys) = n
  <2>1. tys \in [1 .. n -> Ty]
    BY <1>1, <1>2
  <2> HIDE DEF n
  <2> QED
    BY <1>0, <2>1
<1>4. IsTuple(tys, vals)
  <2>1. vals = [k \in 1 .. n |-> vals[k]]
    BY <1>2
  <2>2. \A k \in 1 .. n : tys[k] = plain[k].ty /\ vals[k] = plain[k].value
    BY <1>2
  <2>3. \A k \in 1 .. n : HasType(tys[k], vals[k])
    BY <1>1, <2>2
  <2> QED
    BY <1>3, <2>1, <2>3 DEF IsTuple
<1>5. Borsh(plain) = [k \in DOMAIN tys |-> Encode(tys[k], vals[k])]
  <2>1. DOMAIN tys = 1 .. n /\ \A k \in 1 .. n : tys[k] = plain[k].ty /\ vals[k] = plain[k].value
    BY <1>2
  <2> QED
    BY <1>2, <2>1
<1>6. /\ Borsh(plain) \in Seq(ByteStrings) /\ Len(Borsh(plain)) = n
      /\ EncodeAll(tys, vals) = FlattenSeq(Borsh(plain))
  BY <1>3, <1>4, <1>5, EncodedTuple
<1> QED
  BY <1>3, <1>4, <1>6 DEF tys, vals

LEMMA FieldBytes ==
  ASSUME NEW f \in Plains
  PROVE  /\ Encode(f.ty, f.value) \in ByteStrings
         /\ SingleFieldAsBytes(f.ty, f.value) = Encode(f.ty, f.value)
         /\ \A data : AppendFieldBytes(data, f.ty, f.value) = data \o Encode(f.ty, f.value)
         /\ Len(Encode(f.ty, f.value)) = IF f.ty \in Variable THEN 4 + Len(f.value) ELSE Width[f.ty]
<1> DEFINE ty == f.ty  v == f.value
<1>1. ty \in FieldTy /\ HasType(ty, v)
  BY DEF Plains, Typed
<1> HIDE DEF ty, v
<1>2. ty \in Ty /\ (ty \in DOMAIN Width \/ ty \in Variable)
  BY <1>1, FieldTyIs
<1>3. Encode(ty, v) \in ByteStrings
  BY <1>1, <1>2, EncodeTyped
<1>4. CASE ty \in Variable
  <2>1. Encode(ty, v) = ToLeBytes(Len(v), 4) \o v
    BY <1>2, <1>4, EncodeIs
  <2>2. v \in Seq(0 .. 255)
    BY Zenon, <1>1, <1>4 DEF HasType
  <2>3. Len(v) \in Int /\ 4 \in Nat
    BY <2>2
  <2>4. ToLeBytes(Len(v), 4) \in ByteStrings /\ Len(ToLeBytes(Len(v), 4)) = 4
    BY <2>3, BytesOfNumber
  <2>5. Len(Encode(ty, v)) = 4 + Len(v)
    <3> DEFINE count == ToLeBytes(Len(v), 4)
    <3>1. v \in Seq(Byte) /\ count \in Seq(Byte) /\ Len(count) = 4
      BY <2>2, <2>4 DEF ByteStrings, Byte
    <3>2. Encode(ty, v) = count \o v
      BY <2>1
    <3> HIDE DEF count
    <3>3. Len(count \o v) = Len(count) + Len(v)
      BY <3>1, ConcatProperties
    <3> QED
      BY <3>1, <3>2, <3>3
  <2>6. SingleFieldAsBytes(ty, v) = Encode(ty, v)
    BY <1>4, <2>1 DEF SingleFieldAsBytes
  <2>7. \A data : AppendFieldBytes(data, ty, v) = data \o Encode(ty, v)
    BY <1>4, <2>1 DEF AppendFieldBytes
  <2> QED
    BY <1>3, <1>4, <2>5, <2>6, <2>7 DEF ty, v
<1>5. CASE ty \in DOMAIN Width
  <2>1. ty \notin Variable /\ Encode(ty, v) = FixedBytes(ty, v)
    BY <1>2, <1>5, FieldTyIs, EncodeIs
  <2>2. Len(FixedBytes(ty, v)) = Width[ty]
    BY <1>1, <1>5, FixedWritten
  <2>3. SingleFieldAsBytes(ty, v) = Encode(ty, v)
    BY <2>1 DEF SingleFieldAsBytes
  <2>4. \A data : AppendFieldBytes(data, ty, v) = data \o Encode(ty, v)
    BY <2>1 DEF AppendFieldBytes
  <2> QED
    BY <1>3, <2>1, <2>2, <2>3, <2>4 DEF ty, v
<1> QED
  BY <1>2, <1>4, <1>5

\* Both ways to build the data, the generated one and the Encoder's, write the
\* fields one after the other.
LEMMA BuiltIs ==
  ASSUME NEW plain \in Seq(Plains)
  PROVE  BuildDataEmit(plain) = FlattenSeq(Borsh(plain))
<1> DEFINE n == Len(plain)  seqs == Borsh(plain)
<1>0. n \in Nat /\ DOMAIN plain = 1 .. n /\ \A k \in 1 .. n : plain[k] \in Plains
  BY ElementOfSeq
<1>1. /\ seqs \in Seq(ByteStrings) /\ Len(seqs) = n
      /\ \A k \in 1 .. n : seqs[k] = Encode(plain[k].ty, plain[k].value)
  <2>1. \A k \in 1 .. n : seqs[k] = Encode(plain[k].ty, plain[k].value)
    BY <1>0 DEF Borsh
  <2> QED
    BY <2>1, PlainIs
<1> HIDE DEF seqs
<1>2. PICK f : IsFlat(f, seqs, Byte) /\ FlattenSeq(seqs) = f[Len(seqs)]
  BY <1>1, FlattenIs DEF ByteStrings
<1>3. /\ f \in [0 .. n -> ByteStrings] /\ f[0] = <<>>
      /\ \A k \in 1 .. n : f[k] = f[k - 1] \o seqs[k]
  BY <1>1, <1>2 DEF IsFlat, ByteStrings
<1>4. CASE n = 1
  <2>1. BuildDataEmit(plain) = SingleFieldAsBytes(plain[1].ty, plain[1].value)
    BY <1>4 DEF BuildDataEmit
  <2>2. PICK k \in 1 .. n : k = 1
    BY <1>4
  <2>3. plain[k] \in Plains /\ seqs[k] \in Seq(Byte) /\ seqs[k] = Encode(plain[k].ty, plain[k].value)
    BY <1>0, <1>1, ElementOfSeq DEF ByteStrings
  <2>4. BuildDataEmit(plain) = seqs[k]
    BY <2>1, <2>2, <2>3, FieldBytes
  <2>5. f[k] = <<>> \o seqs[k]
    <3>1. k - 1 = 0
      BY <2>2
    <3> QED
      BY <1>3, <3>1
  <2>6. <<>> \o seqs[k] = seqs[k]
    BY <2>3, ConcatEmptySeq
  <2> QED
    BY <1>1, <1>2, <1>4, <2>2, <2>4, <2>5, <2>6 DEF seqs
<1>5. CASE n # 1
  <2> DEFINE V == ByteStrings
             step == [p \in (1 .. n) \X V |->
                        AppendFieldBytes(p[2], plain[p[1]].ty, plain[p[1]].value)]
  <2>1. ASSUME NEW p \in (1 .. n) \X V
        PROVE  AppendFieldBytes(p[2], plain[p[1]].ty, plain[p[1]].value) \in V
    <3>1. p[1] \in 1 .. n /\ p[2] \in V /\ plain[p[1]] \in Plains
      BY <1>0
    <3> DEFINE x == plain[p[1]]  e == Encode(x.ty, x.value)
    <3>2. /\ AppendFieldBytes(p[2], x.ty, x.value) = p[2] \o e /\ e \in ByteStrings
      BY <3>1, FieldBytes
    <3> HIDE DEF x, e
    <3>3. p[2] \o e \in ByteStrings
      BY <3>1, <3>2, ConcatProperties DEF ByteStrings
    <3> QED
      BY <3>2, <3>3 DEF x
  <2>2. step \in [(1 .. n) \X V -> V]
    <3> HIDE DEF V
    <3> QED
      BY <2>1
  <2>3. <<>> \in V
    BY EmptySeq DEF ByteStrings
  <2>4. \E g : IsLeftFold(g, n, V, <<>>, step)
    <3> HIDE DEF step, n, V
    <3> QED
      BY <1>0, <2>2, <2>3, LeftFold
  <2>5. PICK g : IsLeftFold(g, n, V, <<>>, step)
    BY <2>4
  <2> DEFINE Rec(h) == [s \in SUBSET DOMAIN plain |->
                          IF s = {} THEN <<>>
                          ELSE AppendFieldBytes(h[s \ {Max(s)}], plain[Max(s)].ty, plain[Max(s)].value)]
             it == CHOOSE h : h = Rec(h)
  <2>6. ASSUME NEW s \in SUBSET (1 .. n), s # {}, NEW y \in V
        PROVE  /\ Max(s) \in 1 .. n
               /\ step[<<Max(s), y>>] = AppendFieldBytes(y, plain[Max(s)].ty, plain[Max(s)].value)
    <3>1. Max(s) \in 1 .. n
      BY <1>0, <2>6, MaxIs
    <3> QED
      BY <3>1
  <2> HIDE DEF step
  <2>7. g = Rec(g)
    <3>1. g = [s \in SUBSET (1 .. n) |-> g[s]] /\ \A s \in SUBSET (1 .. n) : g[s] \in V
      <4> HIDE DEF n, V
      <4> QED
        BY <2>5 DEF IsLeftFold
    <3>2. ASSUME NEW s \in SUBSET (1 .. n)
          PROVE  g[s] = IF s = {} THEN <<>>
                        ELSE AppendFieldBytes(g[s \ {Max(s)}], plain[Max(s)].ty, plain[Max(s)].value)
      <4>1. g[s] = IF s = {} THEN <<>> ELSE step[<<Max(s), g[s \ {Max(s)}]>>]
        <5> HIDE DEF n, V
        <5> QED
          BY <2>5 DEF IsLeftFold
      <4>2. g[s \ {Max(s)}] \in V
        BY <3>1
      <4> HIDE DEF V
      <4> QED
        BY <2>6, <4>1, <4>2
    <3> HIDE DEF n, V
    <3> QED
      BY <1>0, <3>1, <3>2
  <2>8. it = Rec(it)
    <3> HIDE DEF Rec
    <3> QED
      BY <2>7
  <2>9. BuildDataEmit(plain) = it[DOMAIN plain]
    BY <1>5 DEF BuildDataEmit, FoldLeft, MapThenFoldSet
  <2> HIDE DEF it
  <2>10. it[{}] = <<>> /\ \A s \in SUBSET (1 .. n) : s # {} =>
           it[s] = AppendFieldBytes(it[s \ {Max(s)}], plain[Max(s)].ty, plain[Max(s)].value)
    BY <1>0, <2>8
  <2> HIDE DEF Rec
  <2>11. \A s \in SUBSET (1 .. n) :
           s # {} /\ it[s \ {Max(s)}] \in V => it[s] = step[<<Max(s), it[s \ {Max(s)}]>>]
    <3> HIDE DEF V, n
    <3> QED
      BY <2>6, <2>10
  <2>12. \A k \in 1 .. n : f[k] = step[<<k, f[k - 1]>>]
    <3> TAKE k \in 1 .. n
    <3>1. k - 1 \in 0 .. n /\ f[k - 1] \in V
      BY <1>0, <1>3
    <3>2. step[<<k, f[k - 1]>>] = AppendFieldBytes(f[k - 1], plain[k].ty, plain[k].value)
      BY <3>1 DEF step
    <3>3. AppendFieldBytes(f[k - 1], plain[k].ty, plain[k].value) = f[k - 1] \o seqs[k]
      <4> DEFINE x == plain[k]  b == f[k - 1]
      <4>1. x \in Plains /\ seqs[k] = Encode(x.ty, x.value)
        BY <1>0, <1>1
      <4> HIDE DEF x, b
      <4>2. AppendFieldBytes(b, x.ty, x.value) = b \o seqs[k]
        BY <4>1, FieldBytes
      <4> QED
        BY <4>2 DEF x, b
    <3> QED
      BY <1>3, <3>2, <3>3
  <2>13. it[1 .. n] = f[n]
    <3>1. Steps(f, n, V, <<>>, step)
      BY <1>3, <2>12 DEF Steps
    <3>2. Unfolds(it, n, V, <<>>, step)
      BY <2>10, <2>11 DEF Unfolds
    <3> HIDE DEF V, n
    <3> QED
      BY <1>0, <3>1, <3>2, FoldSteps
  <2> QED
    BY <1>0, <1>1, <1>2, <2>9, <2>13 DEF seqs
<1> QED
  BY <1>1, <1>4, <1>5 DEF seqs

FieldSize(f) == IF f.ty \in Variable THEN 4 + Len(f.value) ELSE Width[f.ty]

\* The size that the host compares is that of what was written.
LEMMA SizeIs ==
  ASSUME NEW plain \in Seq(Plains)
  PROVE  BorshSize(plain) = Len(FlattenSeq(Borsh(plain)))
<1> DEFINE n == Len(plain)  seqs == Borsh(plain)
<1>0. n \in Nat /\ DOMAIN plain = 1 .. n /\ \A k \in 1 .. n : plain[k] \in Plains
  BY ElementOfSeq
<1>1. /\ seqs \in Seq(ByteStrings) /\ Len(seqs) = n
      /\ \A k \in 1 .. n : seqs[k] = Encode(plain[k].ty, plain[k].value)
  <2>1. \A k \in 1 .. n : seqs[k] = Encode(plain[k].ty, plain[k].value)
    BY <1>0 DEF Borsh
  <2> QED
    BY <2>1, PlainIs
<1> HIDE DEF seqs
<1>2. PICK f : IsFlat(f, seqs, Byte) /\ FlattenSeq(seqs) = f[Len(seqs)]
  BY <1>1, FlattenIs DEF ByteStrings
<1>3. /\ f \in [0 .. n -> ByteStrings] /\ f[0] = <<>>
      /\ \A k \in 1 .. n : f[k] = f[k - 1] \o seqs[k]
  BY <1>1, <1>2 DEF IsFlat, ByteStrings
<1>4. ASSUME NEW k \in 1 .. n PROVE FieldSize(plain[k]) = Len(seqs[k]) /\ seqs[k] \in Seq(Byte)
  <2> DEFINE x == plain[k]
  <2>1. x \in Plains /\ seqs[k] = Encode(x.ty, x.value)
    BY <1>0, <1>1
  <2> HIDE DEF x
  <2>2. Encode(x.ty, x.value) \in ByteStrings /\ Len(Encode(x.ty, x.value)) = FieldSize(x)
    BY <2>1, FieldBytes DEF FieldSize
  <2> QED
    BY <2>1, <2>2 DEF x, ByteStrings
<1>5. \A k \in 1 .. n : FieldSize(plain[k]) \in Nat
  <2> TAKE k \in 1 .. n
  <2> DEFINE l == Len(seqs[k])
  <2>1. l \in Nat /\ FieldSize(plain[k]) = l
    BY <1>4
  <2> HIDE DEF l
  <2> QED
    BY <2>1
<1> DEFINE V == Nat
           step == [p \in (1 .. n) \X V |-> p[2] + FieldSize(plain[p[1]])]
<1>6. step \in [(1 .. n) \X V -> V]
  BY <1>5
<1>7. \E g : IsLeftFold(g, n, V, 0, step)
  <2>1. 0 \in V
    OBVIOUS
  <2> HIDE DEF step, n, V
  <2> QED
    BY <1>0, <1>6, <2>1, LeftFold
<1>8. PICK g : IsLeftFold(g, n, V, 0, step)
  BY <1>7
<1> DEFINE Rec(h) == [s \in SUBSET DOMAIN plain |->
                        IF s = {} THEN 0 ELSE h[s \ {Max(s)}] + FieldSize(plain[Max(s)])]
           it == CHOOSE h : h = Rec(h)
<1>9. ASSUME NEW s \in SUBSET (1 .. n), s # {}, NEW y \in V
      PROVE  step[<<Max(s), y>>] = y + FieldSize(plain[Max(s)])
  <2>1. Max(s) \in 1 .. n
    BY <1>0, <1>9, MaxIs
  <2> HIDE DEF V
  <2> QED
    BY <2>1
<1> HIDE DEF step
<1>10. g = Rec(g)
  <2>1. g = [s \in SUBSET (1 .. n) |-> g[s]] /\ \A s \in SUBSET (1 .. n) : g[s] \in V
    <3> HIDE DEF n, V
    <3> QED
      BY <1>8 DEF IsLeftFold
  <2>2. ASSUME NEW s \in SUBSET (1 .. n)
        PROVE  g[s] = IF s = {} THEN 0 ELSE g[s \ {Max(s)}] + FieldSize(plain[Max(s)])
    <3>1. g[s] = IF s = {} THEN 0 ELSE step[<<Max(s), g[s \ {Max(s)}]>>]
      <4> HIDE DEF n, V
      <4> QED
        BY <1>8 DEF IsLeftFold
    <3>2. g[s \ {Max(s)}] \in V
      BY <2>1
    <3> HIDE DEF V
    <3> QED
      BY <1>9, <3>1, <3>2
  <2> HIDE DEF n, V
  <2> QED
    BY <1>0, <2>1, <2>2
<1>11. it = Rec(it)
  <2> HIDE DEF Rec
  <2> QED
    BY <1>10
<1>12. BorshSize(plain) = it[DOMAIN plain]
  BY DEF BorshSize, FoldLeft, MapThenFoldSet, FieldSize
<1> HIDE DEF it
<1>13. it[{}] = 0 /\ \A s \in SUBSET (1 .. n) : s # {} =>
         it[s] = it[s \ {Max(s)}] + FieldSize(plain[Max(s)])
  BY <1>0, <1>11
<1> HIDE DEF Rec
<1>14. \A s \in SUBSET (1 .. n) :
         s # {} /\ it[s \ {Max(s)}] \in V => it[s] = step[<<Max(s), it[s \ {Max(s)}]>>]
  <2> HIDE DEF V, n
  <2> QED
    BY <1>9, <1>13
<1> DEFINE h == [k \in 0 .. n |-> Len(f[k])]
<1>15. h \in [0 .. n -> V] /\ h[0] = 0 /\ h[n] = Len(f[n])
  <2>1. \A k \in 0 .. n : Len(f[k]) \in Nat
    <3> TAKE k \in 0 .. n
    <3> f[k] \in Seq(Byte)
      BY <1>3 DEF ByteStrings
    <3> QED
      OBVIOUS
  <2>2. 0 \in 0 .. n /\ n \in 0 .. n
    BY <1>0
  <2>3. Len(f[0]) = 0
    BY <1>3
  <2> HIDE DEF n
  <2> QED
    BY <2>1, <2>2, <2>3
<1>16. \A k \in 1 .. n : h[k] = step[<<k, h[k - 1]>>]
  <2> TAKE k \in 1 .. n
  <2>1. k - 1 \in 0 .. n /\ k \in 0 .. n
    BY <1>0
  <2>2. f[k - 1] \in Seq(Byte) /\ seqs[k] \in Seq(Byte) /\ f[k] = f[k - 1] \o seqs[k]
    BY <1>3, <1>4, <2>1 DEF ByteStrings
  <2>3. Len(f[k - 1] \o seqs[k]) = Len(f[k - 1]) + Len(seqs[k])
    BY <2>2, ConcatProperties
  <2>4. h[k] = Len(f[k]) /\ h[k - 1] = Len(f[k - 1]) /\ h[k - 1] \in Nat
    BY <1>15, <2>1
  <2> HIDE DEF h
  <2>5. step[<<k, h[k - 1]>>] = h[k - 1] + FieldSize(plain[k])
    BY <2>4 DEF step
  <2>6. FieldSize(plain[k]) = Len(seqs[k])
    BY <1>4
  <2> QED
    BY <2>2, <2>3, <2>4, <2>5, <2>6
<1> HIDE DEF h
<1>17. it[1 .. n] = h[n]
  <2>1. Steps(h, n, V, 0, step)
    BY <1>15, <1>16 DEF Steps
  <2>2. Unfolds(it, n, V, 0, step)
    BY <1>13, <1>14 DEF Unfolds
  <2> HIDE DEF V, n
  <2> QED
    BY <1>0, <2>1, <2>2, FoldSteps
<1> QED
  BY <1>0, <1>1, <1>2, <1>12, <1>15, <1>17 DEF seqs

-----------------------------------------------------------------------------
(* The topics of an emission *)

LEMMA TopicIs ==
  ASSUME NEW ty \in DOMAIN Width, NEW v, HasType(ty, v)
  PROVE  LET t == TopicFromField(ty, v)
         IN  /\ t \in Seq(Byte) /\ Len(t) = 32 /\ DOMAIN t = 1 .. 32
             /\ \A i \in 1 .. 32 : t[i] \in 0 .. 255
             /\ t = FilterTopic(ty, v)
             /\ ReadFixed(ty, SubSeq(t, 1, Width[ty])) = v
<1> DEFINE b == FixedBytes(ty, v)  w == Width[ty]  t == TopicFromField(ty, v)
           z == [i \in 1 .. 32 - w |-> 0]
<1>1. b \in Seq(Byte) /\ Len(b) = w /\ ReadFixed(ty, b) = v
  BY FixedWritten DEF ByteStrings
<1>2. w \in 1 .. 32
  BY FieldTyIs
<1>3. t = b \o z
  BY <1>1 DEF TopicFromField, Filled
<1> HIDE DEF b, w
<1>4. z \in Seq(Byte) /\ Len(z) = 32 - w /\ \A i \in 1 .. 32 - w : z[i] = 0
  <2>1. 32 - w \in Nat
    BY <1>2
  <2>2. z \in [1 .. 32 - w -> Byte]
    BY DEF Byte
  <2> QED
    BY <2>1, <2>2
<1> HIDE DEF z
<1>5. /\ b \o z \in Seq(Byte) /\ Len(b \o z) = Len(b) + Len(z)
      /\ \A i \in 1 .. Len(b) + Len(z) : (b \o z)[i] = IF i <= Len(b) THEN b[i] ELSE z[i - Len(b)]
  BY <1>1, <1>4, ConcatProperties
<1> HIDE DEF t
<1>6. /\ t \in Seq(Byte) /\ Len(t) = 32
      /\ \A i \in 1 .. 32 : t[i] = IF i <= w THEN b[i] ELSE z[i - w]
  <2>1. Len(b) + Len(z) = 32
    BY <1>1, <1>2, <1>4
  <2> QED
    BY <1>1, <1>3, <1>5, <2>1
<1>7. \A i \in 1 .. 32 : t[i] = IF i <= w THEN b[i] ELSE 0
  <2> TAKE i \in 1 .. 32
  <2>1. ~ (i <= w) => i - w \in 1 .. 32 - w
    BY <1>2
  <2> QED
    BY <1>4, <1>6, <2>1
<1>8. DOMAIN t = 1 .. 32 /\ \A i \in 1 .. 32 : t[i] \in 0 .. 255
  <2>1. \A i \in 1 .. Len(t) : t[i] \in Byte
    BY <1>6, ElementOfSeq
  <2>2. DOMAIN t = 1 .. 32
    BY <1>6
  <2> QED
    BY <1>6, <2>1, <2>2 DEF Byte
<1>9. t = FilterTopic(ty, v)
  <2>1. FilterTopic(ty, v) = [k \in 1 .. 32 |-> IF k <= w THEN b[k] ELSE 0]
    BY <1>1 DEF FilterTopic, b
  <2>2. t = [k \in 1 .. 32 |-> t[k]]
    BY <1>6
  <2> QED
    BY <1>7, <2>1, <2>2
<1>10. SubSeq(t, 1, w) = b
  <2>1. SubSeq(t, 1, w) = [i \in 1 .. w |-> t[i]]
    BY <1>2, <1>6
  <2>2. b = [i \in 1 .. w |-> b[i]]
    BY <1>1
  <2>3. \A i \in 1 .. w : t[i] = b[i]
    BY <1>2, <1>7
  <2> QED
    BY <2>1, <2>2, <2>3
<1> QED
  BY <1>1, <1>6, <1>8, <1>9, <1>10 DEF t, b, w

\* Two values never share a topic.
LEMMA TopicsDiffer ==
  ASSUME NEW ty \in DOMAIN Width, NEW v, HasType(ty, v), NEW u, HasType(ty, u)
  PROVE  TopicFromField(ty, v) = FilterTopic(ty, u) <=> v = u
<1>1. TopicFromField(ty, u) = FilterTopic(ty, u)
  BY TopicIs
<1>2. /\ ReadFixed(ty, SubSeq(TopicFromField(ty, v), 1, Width[ty])) = v
      /\ ReadFixed(ty, SubSeq(TopicFromField(ty, u), 1, Width[ty])) = u
  BY TopicIs
<1> QED
  BY <1>1, <1>2

-----------------------------------------------------------------------------
(* What is in the log for an emission, by either SDK *)

Emitted(raw, vals) == EmitStruct(LowerEvent(raw), vals)

\* The shape of a record of the log.
Logged(e) ==
  /\ Len(e.topics) \in 1 .. 4 /\ DOMAIN e.topics = 1 .. Len(e.topics)
  /\ \A k \in DOMAIN e.topics : IsTopic(e.topics[k], k)
  /\ \A j \in DOMAIN e.data : e.data[j] \in 0 .. 255

\* What the log says of the fields.
Says(e, raw, ix, plain) ==
  /\ e.topics[1] = Topic0FromAbi(raw)
  /\ Len(e.topics) = 1 + Len(ix)
  /\ \A k \in 1 .. Len(ix) : e.topics[k + 1] = TopicFromField(ix[k].ty, ix[k].value)
  /\ e.data = FlattenSeq(Borsh(plain)) /\ Len(e.data) = BorshSize(plain)

LEMMA Topic0Is ==
  ASSUME NEW raw, Lowered(raw)
  PROVE  LowerEvent(raw).topic0 = Topic0FromAbi(raw) /\ LowerEvent(raw).name = raw.name
<1> DEFINE lo == [i \in DOMAIN raw.fields |->
                    [ty |-> Parse(raw.fields[i].ty), indexed |-> raw.fields[i].indexed]]
<1>1. LowerEvent(raw) = [name |-> raw.name, fields |-> lo,
                         topic0 |-> Blake3(CanonicalSignature(raw.name, lo))]
  BY DEF LowerEvent
<1>2. DOMAIN lo = DOMAIN raw.fields /\ \A i \in DOMAIN raw.fields : lo[i].ty = Parse(raw.fields[i].ty)
  OBVIOUS
<1> HIDE DEF lo
<1>3. CanonicalSignature(raw.name, lo) = AbiSignature(raw)
  BY <1>2 DEF CanonicalSignature, AbiSignature
<1> QED
  BY <1>1, <1>3 DEF Topic0FromAbi

\* One topic in front of those of the fields.
LEMMA TopicsAre ==
  ASSUME NEW first, NEW fields \in Seq(Typed)
  PROVE  LET ix == IndexedOf(fields)  t == Topics(first, fields)
         IN  /\ Len(t) = 1 + Len(ix) /\ DOMAIN t = 1 .. Len(t) /\ t[1] = first
             /\ \A k \in 1 .. Len(ix) :
                  /\ t[k + 1] = TopicFromField(ix[k].ty, ix[k].value)
                  /\ ix[k].ty \in DOMAIN Width /\ HasType(ix[k].ty, ix[k].value)
<1> DEFINE ix == IndexedOf(fields)  t == Topics(first, fields)
           rest == [i \in DOMAIN ix |-> TopicFromField(ix[i].ty, ix[i].value)]
           S == {first} \cup Seq(Byte)
<1>1. ix \in Seq(Indexes)
  BY SplitFields
<1>2. t = <<first>> \o rest
  BY DEF Topics
<1> HIDE DEF ix, t
<1>3. /\ Len(ix) \in Nat /\ DOMAIN ix = 1 .. Len(ix)
      /\ \A k \in 1 .. Len(ix) : ix[k] \in Indexes
  BY <1>1, ElementOfSeq
<1>4. \A k \in 1 .. Len(ix) : ix[k].ty \in DOMAIN Width /\ HasType(ix[k].ty, ix[k].value)
  BY <1>3, FieldTyIs DEF Indexes, Typed
<1>5. \A k \in 1 .. Len(ix) : TopicFromField(ix[k].ty, ix[k].value) \in Seq(Byte)
  BY <1>4, TopicIs
<1>6. /\ rest \in Seq(S) /\ Len(rest) = Len(ix)
      /\ \A k \in 1 .. Len(ix) : rest[k] = TopicFromField(ix[k].ty, ix[k].value)
  <2>1. \A k \in 1 .. Len(ix) : rest[k] = TopicFromField(ix[k].ty, ix[k].value)
    BY <1>3
  <2>2. rest = [k \in 1 .. Len(ix) |-> rest[k]]
    BY <1>3
  <2> HIDE DEF rest
  <2>3. rest \in [1 .. Len(ix) -> S]
    BY <1>5, <2>1, <2>2
  <2> HIDE DEF S
  <2> QED
    BY <1>3, <2>1, <2>3
<1> HIDE DEF rest
<1>7. <<first>> \in Seq(S) /\ Len(<<first>>) = 1 /\ <<first>>[1] = first
  OBVIOUS
<1> HIDE DEF S
<1>8. /\ <<first>> \o rest \in Seq(S) /\ Len(<<first>> \o rest) = Len(<<first>>) + Len(rest)
      /\ \A i \in 1 .. Len(<<first>>) + Len(rest) :
           (<<first>> \o rest)[i] = IF i <= Len(<<first>>) THEN <<first>>[i]
                                    ELSE rest[i - Len(<<first>>)]
  BY <1>6, <1>7, ConcatProperties
<1> DEFINE l == Len(ix)
<1> HIDE DEF l
<1>9. /\ t \in Seq(S) /\ Len(t) = 1 + l
      /\ \A i \in 1 .. 1 + l : t[i] = IF i <= 1 THEN first ELSE rest[i - 1]
  <2>1. Len(<<first>>) + Len(rest) = 1 + l
    BY <1>6, <1>7 DEF l
  <2>2. \A i \in 1 .. 1 + l : i <= 1 => <<first>>[i] = first
    OBVIOUS
  <2> QED
    BY <1>2, <1>7, <1>8, <2>1, <2>2
<1>10. l \in Nat
  BY <1>3 DEF l
<1>11. t[1] = first
  <2>1. 1 \in 1 .. 1 + l /\ 1 <= 1
    BY <1>10
  <2> QED
    BY <1>9, <2>1
<1>12. \A k \in 1 .. l : t[k + 1] = rest[k]
  <2> TAKE k \in 1 .. l
  <2>1. k + 1 \in 1 .. 1 + l /\ ~ (k + 1 <= 1) /\ (k + 1) - 1 = k
    BY <1>10
  <2> QED
    BY <1>9, <2>1
<1>13. DOMAIN t = 1 .. Len(t)
  BY <1>9
<1> QED
  BY <1>4, <1>6, <1>9, <1>11, <1>12, <1>13 DEF l, ix, t

LEMMA EmittedIs ==
  ASSUME NEW raw, Lowered(raw), NEW vals, Given(raw, vals)
  PROVE  LET fs == Fields(raw, vals)
         IN  /\ Says(Emitted(raw, vals), raw, IndexedOf(fs), DataOf(fs))
             /\ Logged(Emitted(raw, vals))
<1> DEFINE fs == Fields(raw, vals)  ix == IndexedOf(fs)  plain == DataOf(fs)
           e == Emitted(raw, vals)  data == FlattenSeq(Borsh(plain))
           t == Topics(Topic0FromAbi(raw), fs)
<1>1. fs \in Seq(Typed) /\ Len(ix) \in 0 .. 3
  BY FieldsAre, TopicsFew
<1>2. e = [topics |-> t, data |-> BuildDataEmit(plain)]
  <2>1. LowerEvent(raw).topic0 = Topic0FromAbi(raw)
    BY Topic0Is
  <2> QED
    BY <2>1 DEF Emitted, EmitStruct, Fields
<1> HIDE DEF fs, e
<1>3. plain \in Seq(Plains)
  BY <1>1, SplitFields
<1> HIDE DEF plain
<1>4. BuildDataEmit(plain) = data /\ BorshSize(plain) = Len(data)
  BY <1>3, BuiltIs, SizeIs
<1>5. data \in Seq(Byte)
  <2>1. /\ Types(plain) \in Seq(Ty) /\ IsTuple(Types(plain), Vals(plain))
        /\ EncodeAll(Types(plain), Vals(plain)) = data
    BY <1>3, PlainIs
  <2> HIDE DEF data
  <2> QED
    BY <2>1, EncodedTuple DEF ByteStrings
<1> HIDE DEF data
<1>6. /\ Len(t) = 1 + Len(ix) /\ DOMAIN t = 1 .. Len(t) /\ t[1] = Topic0FromAbi(raw)
      /\ \A k \in 1 .. Len(ix) :
           /\ t[k + 1] = TopicFromField(ix[k].ty, ix[k].value)
           /\ ix[k].ty \in DOMAIN Width /\ HasType(ix[k].ty, ix[k].value)
  BY <1>1, TopicsAre
<1> HIDE DEF t, ix
<1>7. e.topics = t /\ e.data = data
  BY <1>2, <1>4
<1>8. Says(e, raw, ix, plain)
  BY <1>4, <1>6, <1>7 DEF Says, data
<1>9. \A k \in DOMAIN t : IsTopic(t[k], k)
  <2> DEFINE l == Len(ix)
  <2>1. l \in 0 .. 3 /\ DOMAIN t = 1 .. 1 + l
    BY <1>1, <1>6
  <2>2. \A k \in 1 .. l : IsTopic(t[k + 1], k + 1)
    <3> TAKE k \in 1 .. l
    <3>1. /\ t[k + 1] = TopicFromField(ix[k].ty, ix[k].value)
          /\ ix[k].ty \in DOMAIN Width /\ HasType(ix[k].ty, ix[k].value)
      BY <1>6
    <3>2. DOMAIN t[k + 1] = 1 .. 32 /\ \A i \in 1 .. 32 : t[k + 1][i] \in 0 .. 255
      <4> DEFINE ty == ix[k].ty  v == ix[k].value
      <4>1. t[k + 1] = TopicFromField(ty, v) /\ ty \in DOMAIN Width /\ HasType(ty, v)
        BY <3>1
      <4> HIDE DEF ty, v
      <4>2. /\ DOMAIN TopicFromField(ty, v) = 1 .. 32
            /\ \A i \in 1 .. 32 : TopicFromField(ty, v)[i] \in 0 .. 255
        BY <4>1, TopicIs
      <4> QED
        BY <4>1, <4>2
    <3>3. k + 1 > 1
      BY <2>1
    <3> QED
      BY <3>2, <3>3 DEF IsTopic
  <2>3. IsTopic(t[1], 1)
    <3>1. DOMAIN t[1] = {"blake3"}
      BY <1>6 DEF Topic0FromAbi, Blake3
    <3> QED
      BY <3>1 DEF IsTopic
  <2> HIDE DEF l
  <2> TAKE k \in DOMAIN t
  <2>4. CASE k = 1
    BY <2>3, <2>4
  <2>5. CASE k # 1
    <3>1. k - 1 \in 1 .. l /\ (k - 1) + 1 = k
      BY <2>1, <2>5
    <3> QED
      BY <2>2, <3>1
  <2> QED
    BY <2>4, <2>5
<1>10. Logged(e)
  <2>1. \A j \in DOMAIN data : data[j] \in 0 .. 255
    <3>1. DOMAIN data = 1 .. Len(data) /\ \A j \in 1 .. Len(data) : data[j] \in Byte
      BY <1>5, ElementOfSeq
    <3> QED
      BY <3>1 DEF Byte
  <2>2. Len(t) \in 1 .. 4
    <3> DEFINE l == Len(ix)  lt == Len(t)
    <3>1. l \in 0 .. 3 /\ lt = 1 + l
      BY <1>1, <1>6
    <3> HIDE DEF l, lt
    <3>2. lt \in 1 .. 4
      BY <3>1
    <3> QED
      BY <3>2 DEF lt
  <2> QED
    BY <1>6, <1>7, <1>9, <2>1, <2>2 DEF Logged
<1> QED
  BY <1>8, <1>10 DEF e, fs, ix, plain

-----------------------------------------------------------------------------
(* What the host owes the subscriber, by the manifest m and what was said x *)

Owed(m, s) ==
  /\ ~ s.view
  /\ IF s.name = "raw" THEN s.values[1] > 0
     ELSE \A raw \in m : raw.name = s.name =>
            BorshSize(DataOf(Abi(raw, s))) <= MaxEventData

Hears(m, x) == Where(x, [i \in DOMAIN x |-> Owed(m, x[i])])

LEMMA HeardIs == Heard = Hears(manifest, said)
BY DEF Heard, HeardOf, MustTake, Hears, Owed

RawEntry(n)     == [topics |-> [k \in 1 .. n |-> Blake3(<<"raw">>)], data |-> <<>>]
Declared(m, n)  == CHOOSE r \in m : r.name = n
EntryOf(m, s)   ==
  IF s.name = "raw" THEN RawEntry(s.values[1]) ELSE Emitted(Declared(m, s.name), s.values)

\* What a contract with these events can say.
Said == [name : {"raw"} \cup STRING, values : Seq(AnyValue \cup Nat), view : BOOLEAN]
Sayable(m) ==
  {s \in Said : IF s.name = "raw" THEN s.values[1] \in 0 .. 4
                ELSE \E raw \in m : raw.name = s.name /\ Given(raw, s.values)}

LogOf(m, x) == [i \in 1 .. Len(Hears(m, x)) |-> EntryOf(m, Hears(m, x)[i])]

LEMMA HearsNone ==
  ASSUME NEW m
  PROVE  Hears(m, <<>>) = <<>>
<1> DEFINE keep == [i \in DOMAIN <<>> |-> Owed(m, <<>>[i])]
<1>1. <<>> \in Seq({}) /\ Len(<<>>) = 0
  BY EmptySeq
<1>2. PICK f : IsWhere(f, <<>>, keep, {}) /\ Where(<<>>, keep) = f[Len(<<>>)]
  <2> HIDE DEF keep
  <2> QED
    BY <1>1, WhereIs
<1> QED
  BY <1>1, <1>2 DEF Hears, IsWhere

LEMMA HearsMore ==
  ASSUME NEW m, NEW S, NEW x \in Seq(S), NEW w \in S
  PROVE  Hears(m, Append(x, w)) = IF Owed(m, w) THEN Append(Hears(m, x), w) ELSE Hears(m, x)
<1> DEFINE y == Append(x, w)  n == Len(x)
           a == [i \in DOMAIN x |-> Owed(m, x[i])]
           b == [i \in DOMAIN y |-> Owed(m, y[i])]
<1>1. /\ y \in Seq(S) /\ Len(y) = n + 1 /\ y[n + 1] = w /\ n \in Nat
      /\ \A i \in 1 .. n : y[i] = x[i]
  BY AppendProperties
<1> HIDE DEF y
<1>2. DOMAIN x = 1 .. n /\ DOMAIN y = 1 .. n + 1
  BY <1>1
<1>3. (\A k \in 1 .. n : a[k] = b[k]) /\ b[n + 1] = Owed(m, w)
  <2>1. \A k \in 1 .. n : a[k] = Owed(m, x[k]) /\ b[k] = Owed(m, y[k])
    BY <1>1, <1>2
  <2>2. n + 1 \in 1 .. n + 1
    BY <1>1
  <2> QED
    BY <1>1, <1>2, <2>1, <2>2
<1>4. Hears(m, x) = Where(x, a) /\ Hears(m, y) = Where(y, b)
  BY DEF Hears
<1> HIDE DEF a, b
<1>5. PICK f : IsWhere(f, x, a, S) /\ Where(x, a) = f[Len(x)]
  BY WhereIs
<1>6. PICK g : IsWhere(g, y, b, S) /\ Where(y, b) = g[Len(y)]
  BY <1>1, WhereIs
<1>7. f[n] = g[n]
  <2>1. n <= Len(x) /\ n <= Len(y)
    BY <1>1
  <2>2. \A k \in 1 .. n : x[k] = y[k] /\ a[k] = b[k]
    BY <1>1, <1>3
  <2> HIDE DEF n
  <2> QED
    BY <1>1, <1>5, <1>6, <2>1, <2>2, WheresAgree
<1>8. g[n + 1] = IF b[n + 1] THEN Append(g[n], w) ELSE g[n]
  <2>1. n + 1 \in 1 .. Len(y) /\ (n + 1) - 1 = n
    BY <1>1
  <2> QED
    BY <1>1, <1>6, <2>1 DEF IsWhere
<1> QED
  BY <1>1, <1>3, <1>4, <1>5, <1>6, <1>7, <1>8 DEF y

\* What is heard of the beginning is the beginning of what is heard.
LEMMA HearsBegin ==
  ASSUME NEW m, NEW S, NEW x \in Seq(S), NEW k \in 0 .. Len(x)
  PROVE  LET u == Len(Hears(m, SubSeq(x, 1, k)))
         IN  /\ u \in 0 .. Len(Hears(m, x))
             /\ Hears(m, SubSeq(x, 1, k)) = SubSeq(Hears(m, x), 1, u)
<1> DEFINE y == SubSeq(x, 1, k)  n == Len(x)
           a == [i \in DOMAIN x |-> Owed(m, x[i])]
           b == [i \in DOMAIN y |-> Owed(m, y[i])]
<1>0. n \in Nat /\ k \in Nat /\ k <= n
  OBVIOUS
<1>1. y \in Seq(S) /\ Len(y) = k /\ \A i \in 1 .. k : y[i] = x[i]
  <2>1. 0 + 1 = 1 /\ k - 0 = k /\ 0 <= k /\ 0 \in Nat
    BY <1>0
  <2>2. /\ SubSeq(x, 0 + 1, k) \in Seq(S) /\ Len(SubSeq(x, 0 + 1, k)) = k - 0
        /\ \A i \in 1 .. k - 0 : SubSeq(x, 0 + 1, k)[i] = x[0 + i]
    BY <1>0, <2>1, PieceIs
  <2>3. \A i \in 1 .. k : 0 + i = i
    BY <1>0
  <2> QED
    BY <2>1, <2>2, <2>3
<1> HIDE DEF y
<1>2. DOMAIN x = 1 .. n /\ DOMAIN y = 1 .. k
  BY <1>1
<1>3. \A i \in 1 .. k : x[i] = y[i] /\ a[i] = b[i]
  <2> TAKE i \in 1 .. k
  <2>1. i \in 1 .. n
    BY <1>0
  <2> QED
    BY <1>1, <1>2, <2>1
<1>4. Hears(m, x) = Where(x, a) /\ Hears(m, y) = Where(y, b)
  BY DEF Hears
<1> HIDE DEF a, b
<1>5. PICK f : IsWhere(f, x, a, S) /\ Where(x, a) = f[n]
  BY WhereIs
<1>6. PICK g : IsWhere(g, y, b, S) /\ Where(y, b) = g[k]
  BY <1>1, WhereIs
<1>7. f[k] = g[k]
  <2>1. k <= Len(x) /\ k <= Len(y)
    BY <1>0, <1>1
  <2> QED
    BY <1>0, <1>1, <1>3, <1>5, <1>6, <2>1, WheresAgree
<1>8. f[k] = SubSeq(f[n], 1, Len(f[k])) /\ Len(f[k]) <= Len(f[n])
  BY <1>5, WhereGrows
<1>9. Len(f[k]) \in Nat
  <2>1. f[k] \in Seq(S)
    BY <1>5 DEF IsWhere
  <2> QED
    BY <2>1
<1>10. Len(f[n]) \in Nat
  <2>1. n \in 0 .. n
    BY <1>0
  <2>2. f[n] \in Seq(S)
    BY <1>5, <2>1 DEF IsWhere
  <2> QED
    BY <2>2
<1> DEFINE h == Len(f[n])  u == Len(f[k])
<1> HIDE DEF h, u
<1>11. u \in 0 .. h
  BY <1>8, <1>9, <1>10 DEF h, u
<1> QED
  BY <1>4, <1>5, <1>6, <1>7, <1>8, <1>11 DEF h, u, y

LEMMA HearsTyped ==
  ASSUME NEW m, NEW S, NEW x \in Seq(S)
  PROVE  Hears(m, x) \in Seq({s \in S : Owed(m, s)})
<1> DEFINE a == [i \in DOMAIN x |-> Owed(m, x[i])]  R == {s \in S : Owed(m, s)}
<1>1. DOMAIN x = 1 .. Len(x) /\ \A i \in 1 .. Len(x) : x[i] \in S
  BY ElementOfSeq
<1>2. \A i \in 1 .. Len(x) : a[i] => x[i] \in R
  BY <1>1
<1>3. Where(x, a) \in Seq(R)
  <2> HIDE DEF a, R
  <2> QED
    BY <1>2, WhereFrom
<1> QED
  BY <1>3 DEF Hears

Records(m, S) == {EntryOf(m, s) : s \in S}

LEMMA LogTyped ==
  ASSUME NEW m, NEW S, NEW x \in Seq(S)
  PROVE  /\ LogOf(m, x) \in Seq(Records(m, S)) /\ Len(LogOf(m, x)) = Len(Hears(m, x))
         /\ \A i \in 1 .. Len(Hears(m, x)) : LogOf(m, x)[i] = EntryOf(m, Hears(m, x)[i])
<1> DEFINE h == Hears(m, x)  R == {s \in S : Owed(m, s)}  l == LogOf(m, x)
<1>1. h \in Seq(R)
  BY HearsTyped
<1>2. l = [i \in 1 .. Len(h) |-> EntryOf(m, h[i])]
  BY DEF LogOf
<1> HIDE DEF h, l, R
<1>3. Len(h) \in Nat /\ \A i \in 1 .. Len(h) : h[i] \in R
  BY <1>1, ElementOfSeq
<1>4. \A i \in 1 .. Len(h) : EntryOf(m, h[i]) \in Records(m, S)
  BY <1>3 DEF R, Records
<1>5. l \in [1 .. Len(h) -> Records(m, S)]
  BY <1>2, <1>4
<1>6. l \in Seq(Records(m, S)) /\ Len(l) = Len(h)
  BY <1>3, <1>5
<1> QED
  BY <1>2, <1>6 DEF h, l

LEMMA LogMore ==
  ASSUME NEW m, NEW S, NEW x \in Seq(S), NEW w \in S
  PROVE  LogOf(m, Append(x, w)) = IF Owed(m, w) THEN Append(LogOf(m, x), EntryOf(m, w)) ELSE LogOf(m, x)
<1> DEFINE y == Append(x, w)  h == Hears(m, x)  g == Hears(m, y)
<1>1. g = IF Owed(m, w) THEN Append(h, w) ELSE h
  BY HearsMore
<1>2. y \in Seq(S)
  BY AppendProperties
<1>3. h \in Seq(S)
  <2>1. h \in Seq({s \in S : Owed(m, s)})
    BY HearsTyped
  <2> HIDE DEF h
  <2>2. h \in [1 .. Len(h) -> S] /\ Len(h) \in Nat
    BY <2>1, ElementOfSeq
  <2> QED
    BY <2>2
<1>4. LogOf(m, x) = [i \in 1 .. Len(h) |-> EntryOf(m, h[i])]
      /\ LogOf(m, y) = [i \in 1 .. Len(g) |-> EntryOf(m, g[i])]
  BY DEF LogOf
<1>5. LogOf(m, x) \in Seq(Records(m, S)) /\ Len(LogOf(m, x)) = Len(h)
  BY LogTyped
<1> DEFINE l == LogOf(m, x)  e == EntryOf(m, w)
<1> HIDE DEF y, h, g, l
<1>6. CASE ~ Owed(m, w)
  BY <1>1, <1>4, <1>6 DEF y, l
<1>7. CASE Owed(m, w)
  <2>1. /\ g \in Seq(S) /\ Len(g) = Len(h) + 1 /\ g[Len(h) + 1] = w
        /\ \A i \in 1 .. Len(h) : g[i] = h[i]
    BY <1>1, <1>3, <1>7, AppendProperties
  <2>2. l \in Seq(Records(m, S) \cup {e}) /\ e \in Records(m, S) \cup {e} /\ Len(l) = Len(h)
    <3>1. l \in [1 .. Len(l) -> Records(m, S) \cup {e}] /\ Len(l) \in Nat
      BY <1>5, ElementOfSeq DEF l
    <3> HIDE DEF e
    <3> QED
      BY <1>5, <3>1 DEF l
  <2> HIDE DEF e
  <2>3. /\ Append(l, e) \in Seq(Records(m, S) \cup {e}) /\ Len(Append(l, e)) = Len(l) + 1
        /\ Append(l, e)[Len(l) + 1] = e
        /\ \A i \in 1 .. Len(l) : Append(l, e)[i] = l[i]
    BY <2>2, AppendProperties
  <2> DEFINE n == Len(h)
  <2>4. n \in Nat
    BY <1>3
  <2>5. Append(l, e) = [i \in 1 .. n + 1 |-> Append(l, e)[i]]
    <3> DEFINE a == Append(l, e)
    <3>1. a \in Seq(Records(m, S) \cup {e}) /\ Len(a) = n + 1
      BY <2>2, <2>3
    <3> HIDE DEF a, n
    <3>2. a = [i \in 1 .. n + 1 |-> a[i]]
      BY <3>1
    <3> QED
      BY <3>2 DEF a
  <2>6. LogOf(m, y) = [i \in 1 .. n + 1 |-> EntryOf(m, g[i])]
    BY <1>4, <2>1
  <2>7. \A i \in 1 .. n + 1 : Append(l, e)[i] = EntryOf(m, g[i])
    <3> TAKE i \in 1 .. n + 1
    <3>1. CASE i = n + 1
      BY <2>1, <2>2, <2>3, <3>1 DEF e
    <3>2. CASE i # n + 1
      <4>1. i \in 1 .. n
        BY <2>4, <3>2
      <4>2. l[i] = EntryOf(m, h[i])
        BY <1>4, <4>1 DEF l
      <4> QED
        BY <2>1, <2>2, <2>3, <4>1, <4>2
    <3> QED
      BY <3>1, <3>2
  <2> HIDE DEF n
  <2>8. LogOf(m, y) = Append(l, e)
    BY <2>5, <2>6, <2>7
  <2> QED
    BY <1>7, <2>8 DEF l, e, y
<1> QED
  BY <1>6, <1>7

LEMMA LogCut ==
  ASSUME NEW m, NEW S, NEW x \in Seq(S), NEW k \in 0 .. Len(x)
  PROVE  LogOf(m, SubSeq(x, 1, k)) = SubSeq(LogOf(m, x), 1, Len(Hears(m, SubSeq(x, 1, k))))
<1> DEFINE y == SubSeq(x, 1, k)  h == Hears(m, x)  g == Hears(m, y)  u == Len(g)  l == LogOf(m, x)
<1>1. u \in 0 .. Len(h) /\ g = SubSeq(h, 1, u)
  BY HearsBegin
<1>2. /\ l \in Seq(Records(m, S)) /\ Len(l) = Len(h)
      /\ \A i \in 1 .. Len(h) : l[i] = EntryOf(m, h[i])
  BY LogTyped
<1>3. h \in Seq({s \in S : Owed(m, s)})
  BY HearsTyped
<1>4. LogOf(m, y) = [i \in 1 .. u |-> EntryOf(m, g[i])]
  BY DEF LogOf
<1> HIDE DEF u, l, h, g
<1>5. Len(h) \in Nat
  BY <1>3
<1>6. SubSeq(l, 1, u) = [i \in 1 .. u |-> l[i]]
  BY <1>1, <1>2, <1>5
<1>7. \A i \in 1 .. u : g[i] = h[i] /\ i \in 1 .. Len(h)
  <2>1. SubSeq(h, 1, u) = [i \in 1 .. u |-> h[i]]
    BY <1>1, <1>3, <1>5
  <2> QED
    BY <1>1, <1>5, <2>1
<1>8. \A i \in 1 .. u : l[i] = EntryOf(m, g[i])
  BY <1>2, <1>7
<1>9. LogOf(m, y) = SubSeq(l, 1, u)
  BY <1>4, <1>6, <1>8
<1> QED
  BY <1>9 DEF l, u, g, y

LEMMA RawEntryIs ==
  ASSUME NEW n \in 0 .. 4
  PROVE  /\ Len(RawEntry(n).topics) = n /\ RawEntry(n).data = <<>>
         /\ n > 0 => Logged(RawEntry(n)) /\ RawEntry(n).topics[1] = Blake3(<<"raw">>)
<1> DEFINE t == [k \in 1 .. n |-> Blake3(<<"raw">>)]
<1>1. RawEntry(n).topics = t /\ RawEntry(n).data = <<>>
  BY DEF RawEntry
<1>2. n \in Nat /\ t \in [1 .. n -> {Blake3(<<"raw">>)}]
  OBVIOUS
<1>3. Len(t) = n /\ DOMAIN t = 1 .. n /\ \A k \in 1 .. n : t[k] = Blake3(<<"raw">>)
  BY <1>2
<1> HIDE DEF t
<1>4. \A k \in 1 .. n : DOMAIN t[k] = {"blake3"}
  BY <1>3 DEF Blake3
<1>5. DOMAIN <<>> = {}
  OBVIOUS
<1>6. ASSUME n > 0 PROVE Logged(RawEntry(n)) /\ t[1] = Blake3(<<"raw">>)
  <2>1. n \in 1 .. 4 /\ 1 \in 1 .. n
    BY <1>6
  <2>2. \A k \in DOMAIN t : IsTopic(t[k], k)
    BY <1>3, <1>4 DEF IsTopic
  <2>3. Logged(RawEntry(n))
    BY <1>1, <1>3, <1>5, <2>1, <2>2 DEF Logged
  <2> QED
    BY <1>3, <2>1, <2>3
<1> QED
  BY <1>1, <1>3, <1>6

\* A deployed manifest: every declaration lowers, and its name finds it.
Deployable(m) == m \in Manifests /\ \A raw \in m : Lowers(raw)

LEMMA DeclaredIs ==
  ASSUME NEW m, Deployable(m), NEW raw \in m
  PROVE  /\ Lowered(raw) /\ raw.name # "raw" /\ Declared(m, raw.name) = raw
         /\ \A r \in m : r.name = raw.name => r = raw
<1>1. Lowered(raw) /\ \A r \in m : r.name = raw.name => r = raw
  BY LowersIs, ManifestsAssumption DEF Deployable
<1>2. Declared(m, raw.name) \in m /\ Declared(m, raw.name).name = raw.name
  BY DEF Declared
<1> QED
  BY <1>1, <1>2 DEF Lowered

\* What can be said is a topic count or has a declaration.
LEMMA SaidIs ==
  ASSUME NEW m, Deployable(m), NEW s \in Sayable(m)
  PROVE  /\ s.name = "raw" => s.values[1] \in 0 .. 4 /\ EntryOf(m, s) = RawEntry(s.values[1])
         /\ s.name # "raw" =>
              \E raw \in m : /\ raw.name = s.name /\ Lowered(raw) /\ Given(raw, s.values)
                             /\ Abi(raw, s) = Fields(raw, s.values)
                             /\ EntryOf(m, s) = Emitted(raw, s.values)
<1>1. CASE s.name = "raw"
  BY <1>1 DEF Sayable, EntryOf
<1>2. CASE s.name # "raw"
  <2>1. PICK raw \in m : raw.name = s.name /\ Given(raw, s.values)
    BY <1>2 DEF Sayable
  <2>2. Lowered(raw) /\ Declared(m, s.name) = raw
    BY <2>1, DeclaredIs
  <2>3. Abi(raw, s) = Fields(raw, s.values)
    BY <2>1, <2>2, FieldsAre
  <2>4. EntryOf(m, s) = Emitted(raw, s.values)
    BY <1>2, <2>2 DEF EntryOf
  <2> QED
    BY <1>2, <2>1, <2>2, <2>3, <2>4
<1> QED
  BY <1>1, <1>2

Fitting(e) == Len(e.topics) \in 1 .. 4 /\ ~ (Len(e.data) > MaxEventData)

\* The host takes what it owes, and nothing else.
LEMMA OwedIs ==
  ASSUME NEW m, Deployable(m), NEW s \in Sayable(m)
  PROVE  /\ Owed(m, s) <=> ~ s.view /\ Fitting(EntryOf(m, s))
         /\ Owed(m, s) => Logged(EntryOf(m, s))
<1>0. MaxEventData \in Nat
  BY EventsAssumption
<1>1. CASE s.name = "raw"
  <2> DEFINE n == s.values[1]
  <2>1. n \in 0 .. 4 /\ EntryOf(m, s) = RawEntry(n)
    BY <1>1, SaidIs
  <2>2. Owed(m, s) <=> ~ s.view /\ n > 0
    BY <1>1 DEF Owed
  <2> HIDE DEF n
  <2>3. Len(RawEntry(n).topics) = n /\ Len(RawEntry(n).data) = 0 /\ (n > 0 => Logged(RawEntry(n)))
    <3>1. Len(<<>>) = 0
      OBVIOUS
    <3>2. Len(RawEntry(n).topics) = n /\ RawEntry(n).data = <<>> /\ (n > 0 => Logged(RawEntry(n)))
      BY <2>1, RawEntryIs
    <3> QED
      BY <3>1, <3>2
  <2>4. Fitting(RawEntry(n)) <=> n > 0
    BY <1>0, <2>1, <2>3 DEF Fitting
  <2> QED
    BY <2>1, <2>2, <2>3, <2>4
<1>2. CASE s.name # "raw"
  <2>1. PICK raw \in m : /\ raw.name = s.name /\ Lowered(raw) /\ Given(raw, s.values)
                         /\ Abi(raw, s) = Fields(raw, s.values)
                         /\ EntryOf(m, s) = Emitted(raw, s.values)
    BY <1>2, SaidIs
  <2> DEFINE e == Emitted(raw, s.values)  plain == DataOf(Fields(raw, s.values))
             size == BorshSize(plain)
  <2>2. Says(e, raw, IndexedOf(Fields(raw, s.values)), plain) /\ Logged(e)
    BY <2>1, EmittedIs
  <2>3. \A r \in m : r.name = s.name => r = raw
    BY <2>1, DeclaredIs
  <2>4. Owed(m, s) <=> ~ s.view /\ size <= MaxEventData
    BY <1>2, <2>1, <2>3 DEF Owed
  <2>5. size = Len(e.data)
    BY <2>2 DEF Says
  <2>6. size \in Nat
    <3>1. plain \in Seq(Plains)
      BY <2>1, FieldsAre, SplitFields
    <3> HIDE DEF plain
    <3>2. /\ Types(plain) \in Seq(Ty) /\ IsTuple(Types(plain), Vals(plain))
          /\ EncodeAll(Types(plain), Vals(plain)) = FlattenSeq(Borsh(plain))
      BY <3>1, PlainIs
    <3>3. FlattenSeq(Borsh(plain)) \in Seq(Byte)
      BY <3>2, EncodedTuple DEF ByteStrings
    <3>4. size = Len(FlattenSeq(Borsh(plain)))
      BY <3>1, SizeIs
    <3> QED
      BY <3>3, <3>4
  <2> HIDE DEF size, e
  <2>7. Fitting(e) <=> size <= MaxEventData
    <3>1. Len(e.topics) \in 1 .. 4
      BY <2>2 DEF Logged
    <3>2. ~ (size > MaxEventData) <=> size <= MaxEventData
      BY <1>0, <2>6
    <3> QED
      BY <2>5, <3>1, <3>2 DEF Fitting
  <2> QED
    BY <2>1, <2>2, <2>4, <2>7 DEF e
<1> QED
  BY <1>1, <1>2

-----------------------------------------------------------------------------
(* Sequences cut and extended *)

LEMMA CutIs ==
  ASSUME NEW S, NEW x \in Seq(S), NEW k \in 0 .. Len(x)
  PROVE  /\ SubSeq(x, 1, k) \in Seq(S) /\ Len(SubSeq(x, 1, k)) = k
         /\ SubSeq(x, 1, k) = [i \in 1 .. k |-> x[i]]
<1> DEFINE n == Len(x)
<1>1. n \in Nat /\ k \in Nat /\ k <= n /\ \A i \in 1 .. n : x[i] \in S
  BY ElementOfSeq
<1>2. SubSeq(x, 1, k) = [i \in 1 .. k |-> x[i]]
  BY <1>1
<1>3. [i \in 1 .. k |-> x[i]] \in [1 .. k -> S]
  <2> HIDE DEF n
  <2> QED
    BY <1>1
<1> DEFINE y == [i \in 1 .. k |-> x[i]]
<1> HIDE DEF y
<1>4. y \in Seq(S) /\ Len(y) = k
  BY <1>1, <1>3 DEF y
<1> QED
  BY <1>2, <1>4 DEF y

LEMMA CutAgain ==
  ASSUME NEW S, NEW x \in Seq(S), NEW k \in 0 .. Len(x), NEW j \in 0 .. k
  PROVE  SubSeq(SubSeq(x, 1, k), 1, j) = SubSeq(x, 1, j)
<1> DEFINE y == SubSeq(x, 1, k)
<1>1. y \in Seq(S) /\ Len(y) = k /\ y = [i \in 1 .. k |-> x[i]]
  BY CutIs
<1>2. j \in 0 .. Len(x)
  OBVIOUS
<1> HIDE DEF y
<1>3. j \in 0 .. Len(y)
  BY <1>1
<1>4. SubSeq(y, 1, j) = [i \in 1 .. j |-> y[i]] /\ SubSeq(x, 1, j) = [i \in 1 .. j |-> x[i]]
  BY <1>1, <1>2, <1>3, CutIs
<1>5. \A i \in 1 .. j : y[i] = x[i]
  BY <1>1
<1> QED
  BY <1>4, <1>5 DEF y

LEMMA CutBefore ==
  ASSUME NEW S, NEW x \in Seq(S), NEW w \in S, NEW j \in 0 .. Len(x)
  PROVE  SubSeq(Append(x, w), 1, j) = SubSeq(x, 1, j) /\ j \in 0 .. Len(Append(x, w))
<1> DEFINE y == Append(x, w)  n == Len(x)
<1>1. y \in Seq(S) /\ Len(y) = n + 1 /\ n \in Nat /\ \A i \in 1 .. n : y[i] = x[i]
  BY AppendProperties
<1> HIDE DEF y
<1>2. j \in 0 .. Len(y) /\ \A i \in 1 .. j : y[i] = x[i]
  BY <1>1
<1> HIDE DEF n
<1>3. SubSeq(y, 1, j) = [i \in 1 .. j |-> y[i]] /\ SubSeq(x, 1, j) = [i \in 1 .. j |-> x[i]]
  BY <1>1, <1>2, CutIs
<1> QED
  BY <1>2, <1>3 DEF y

LEMMA FrontIs ==
  ASSUME NEW S, NEW x \in Seq(S), Len(x) > 0
  PROVE  /\ Front(x) \in Seq(S) /\ Len(Front(x)) = Len(x) - 1
         /\ \A i \in 1 .. Len(x) - 1 : Front(x)[i] = x[i]
<1> DEFINE k == Len(x) - 1
<1>1. k \in 0 .. Len(x)
  OBVIOUS
<1>2. Front(x) = SubSeq(x, 1, k)
  BY DEF Front
<1> HIDE DEF k
<1>3. /\ SubSeq(x, 1, k) \in Seq(S) /\ Len(SubSeq(x, 1, k)) = k
      /\ SubSeq(x, 1, k) = [i \in 1 .. k |-> x[i]]
  BY <1>1, CutIs
<1>4. Front(x) \in Seq(S) /\ Len(Front(x)) = k /\ \A i \in 1 .. k : Front(x)[i] = x[i]
  BY <1>2, <1>3
<1> QED
  BY <1>4 DEF k

-----------------------------------------------------------------------------
(* The inductive invariant *)

Frame == [sdk : Sdks, view : BOOLEAN, undo : Nat, mark : Nat]

\* Every frame was entered when x was as long as its mark, and the log then
\* was what was heard of it; inner frames were entered later.
FramesCut(m, x, st) ==
  /\ st \in Seq(Frame)
  /\ \A f \in 1 .. Len(st) :
       /\ st[f].mark \in 0 .. Len(x)
       /\ st[f].undo = Len(Hears(m, SubSeq(x, 1, st[f].mark)))
  /\ \A f, g \in 1 .. Len(st) : f <= g => st[f].mark <= st[g].mark

DeclarationsRight ==
  /\ manifest \in Manifests /\ stage \in {"source", "error", "deployed"}
  /\ events = IF stage = "deployed" THEN {LowerEvent(raw) : raw \in manifest} ELSE {}
  /\ stage = "deployed" => Deployable(manifest)
  /\ stage # "deployed" => stack = <<>> /\ said = <<>>

IInv ==
  /\ DeclarationsRight
  /\ FramesCut(manifest, said, stack) /\ Len(stack) <= MaxDepth
  /\ said \in Seq(Sayable(manifest)) /\ Len(said) <= MaxEmits
  /\ log = LogOf(manifest, said)

LEMMA NothingSaid ==
  ASSUME NEW m
  PROVE  /\ FramesCut(m, <<>>, <<>>) /\ Len(<<>>) <= MaxDepth
         /\ <<>> \in Seq(Sayable(m)) /\ Len(<<>>) <= MaxEmits
         /\ <<>> = LogOf(m, <<>>)
<1>1. MaxDepth \in Nat /\ MaxEmits \in Nat
  BY EventsAssumption
<1>2. <<>> \in Seq(Frame) /\ <<>> \in Seq(Sayable(m)) /\ Len(<<>>) = 0 /\ 1 .. 0 = {}
  BY EmptySeq
<1>3. FramesCut(m, <<>>, <<>>)
  BY <1>2 DEF FramesCut
<1>4. <<>> = LogOf(m, <<>>)
  <2>1. LogOf(m, <<>>) = [i \in 1 .. Len(Hears(m, <<>>)) |-> EntryOf(m, Hears(m, <<>>)[i])]
    BY DEF LogOf
  <2>2. Len(LogOf(m, <<>>)) = 0 /\ LogOf(m, <<>>) \in Seq(Records(m, {}))
    <3>1. <<>> \in Seq({})
      BY EmptySeq
    <3>2. LogOf(m, <<>>) \in Seq(Records(m, {})) /\ Len(LogOf(m, <<>>)) = Len(Hears(m, <<>>))
      BY <3>1, LogTyped
    <3> QED
      BY <1>2, <3>2, HearsNone
  <2> QED
    BY <2>2, EmptySeq
<1> QED
  BY <1>1, <1>2, <1>3, <1>4

LEMMA InitHolds == Init => IInv
<1> SUFFICES ASSUME Init PROVE IInv
  OBVIOUS
<1>1. DeclarationsRight
  BY DEF Init, DeclarationsRight
<1>2. stack = <<>> /\ said = <<>> /\ log = <<>>
  BY DEF Init
<1>3. /\ FramesCut(manifest, <<>>, <<>>) /\ Len(<<>>) <= MaxDepth
      /\ <<>> \in Seq(Sayable(manifest)) /\ Len(<<>>) <= MaxEmits
      /\ <<>> = LogOf(manifest, <<>>)
  BY NothingSaid
<1> QED
  BY <1>1, <1>2, <1>3 DEF IInv

LEMMA DeclareKeeps ==
  ASSUME IInv, DeclareEvents
  PROVE  IInv'
<1>1. manifest' = manifest /\ stack' = <<>> /\ said' = <<>> /\ log' = log /\ stack = <<>> /\ said = <<>>
  BY DEF DeclareEvents, IInv, DeclarationsRight
<1>2. DeclarationsRight'
  <2>1. manifest' \in Manifests /\ stage' \in {"source", "error", "deployed"}
    BY DEF DeclareEvents, IInv, DeclarationsRight
  <2>2. CASE \A raw \in manifest : Lowers(raw)
    <3>1. stage' = "deployed" /\ events' = {LowerEvent(raw) : raw \in manifest}
      BY <2>2 DEF DeclareEvents
    <3>2. Deployable(manifest')
      BY <1>1, <2>1, <2>2 DEF Deployable
    <3> QED
      BY <1>1, <2>1, <3>1, <3>2 DEF DeclarationsRight
  <2>3. CASE ~ \A raw \in manifest : Lowers(raw)
    <3>1. stage' = "error" /\ events' = {}
      BY <2>3 DEF DeclareEvents
    <3> QED
      BY <1>1, <2>1, <3>1 DEF DeclarationsRight
  <2> QED
    BY <2>2, <2>3
<1> QED
  BY <1>1, <1>2 DEF IInv

LEMMA EditKeeps ==
  ASSUME IInv, Edit
  PROVE  IInv'
<1>1. /\ stage = "error" /\ stage' = "source" /\ manifest' \in Manifests
      /\ events' = events /\ stack' = stack /\ said' = said /\ log' = log
  BY DEF Edit
<1>2. stack = <<>> /\ said = <<>> /\ events = {} /\ log = LogOf(manifest, said)
  BY <1>1 DEF IInv, DeclarationsRight
<1>3. log = <<>>
  BY <1>2, NothingSaid
<1>4. DeclarationsRight'
  BY <1>1, <1>2 DEF DeclarationsRight
<1>5. /\ FramesCut(manifest', <<>>, <<>>) /\ Len(<<>>) <= MaxDepth
      /\ <<>> \in Seq(Sayable(manifest')) /\ Len(<<>>) <= MaxEmits
      /\ <<>> = LogOf(manifest', <<>>)
  BY NothingSaid
<1> QED
  BY <1>1, <1>2, <1>3, <1>4, <1>5 DEF IInv

LEMMA BeginKeeps ==
  ASSUME IInv, NEW sdk \in Sdks, NEW view \in BOOLEAN, Begin(sdk, view)
  PROVE  IInv'
<1> DEFINE fr == [sdk |-> sdk, view |-> view, undo |-> 0, mark |-> 0]
<1>1. /\ stage = "deployed" /\ stack' = <<fr>> /\ log' = <<>> /\ said' = <<>>
      /\ manifest' = manifest /\ events' = events /\ stage' = stage
  BY DEF Begin
<1>2. DeclarationsRight'
  BY <1>1 DEF DeclarationsRight, IInv
<1>3. /\ <<>> \in Seq(Sayable(manifest)) /\ Len(<<>>) <= MaxEmits
      /\ <<>> = LogOf(manifest, <<>>)
  BY NothingSaid
<1>4. Len(<<fr>>) = 1 /\ 1 <= MaxDepth
  <2>1. MaxDepth \in Nat /\ MaxDepth # 0
    BY EventsAssumption
  <2> QED
    BY <2>1
<1>5. FramesCut(manifest, <<>>, <<fr>>)
  <2>1. fr \in Frame /\ fr.mark = 0 /\ fr.undo = 0
    BY DEF Frame
  <2> HIDE DEF fr
  <2>2. <<fr>> \in Seq(Frame) /\ Len(<<fr>>) = 1 /\ <<fr>>[1] = fr
    BY <2>1
  <2>3. Len(<<>>) = 0
    OBVIOUS
  <2>4. SubSeq(<<>>, 1, 0) = <<>>
    <3>1. <<>> \in Seq({}) /\ Len(<<>>) = 0
      BY EmptySeq
    <3>2. 0 \in 0 .. Len(<<>>)
      BY <3>1
    <3>3. SubSeq(<<>>, 1, 0) \in Seq({}) /\ Len(SubSeq(<<>>, 1, 0)) = 0
      BY <3>1, <3>2, CutIs
    <3> QED
      BY <3>3, EmptySeq
  <2>5. Len(Hears(manifest, SubSeq(<<>>, 1, 0))) = 0
    BY <2>3, <2>4, HearsNone
  <2>6. ASSUME NEW f \in 1 .. Len(<<fr>>)
        PROVE  <<fr>>[f].mark = 0 /\ <<fr>>[f].undo = 0
    <3>1. f = 1
      BY <2>2
    <3> QED
      BY <2>1, <2>2, <3>1
  <2> DEFINE st == <<fr>>
  <2> HIDE DEF st
  <2>7. /\ st \in Seq(Frame)
        /\ \A f \in 1 .. Len(st) : st[f].mark = 0 /\ st[f].undo = 0
    BY <2>2, <2>6 DEF st
  <2>8. FramesCut(manifest, <<>>, st)
    <3>1. 0 \in 0 .. Len(<<>>) /\ 0 <= 0
      BY <2>3
    <3> QED
      BY <2>5, <2>7, <3>1 DEF FramesCut
  <2> QED
    BY <2>8 DEF st
<1> HIDE DEF fr
<1>6. FramesCut(manifest, said, stack)' /\ Len(stack') <= MaxDepth
  BY <1>1, <1>4, <1>5
<1> QED
  BY <1>1, <1>2, <1>3, <1>6 DEF IInv

LEMMA CallKeeps ==
  ASSUME IInv, NEW sdk \in Sdks, NEW view \in BOOLEAN, Call(sdk, view)
  PROVE  IInv'
<1> DEFINE fr == [sdk |-> sdk, view |-> view, undo |-> Len(log), mark |-> Len(said)]
           n == Len(stack)
<1>1. /\ Len(stack) > 0 /\ Len(stack) < MaxDepth /\ stack' = Append(stack, fr)
      /\ manifest' = manifest /\ events' = events /\ stage' = stage
      /\ log' = log /\ said' = said
  BY DEF Call, Running
<1>2. /\ stack \in Seq(Frame) /\ said \in Seq(Sayable(manifest)) /\ n \in Nat
      /\ log = LogOf(manifest, said)
  BY DEF IInv, FramesCut
<1>3. DeclarationsRight'
  <2>1. stage = "deployed"
    <3>1. Len(<<>>) = 0
      OBVIOUS
    <3> QED
      BY <1>1, <3>1 DEF IInv, DeclarationsRight
  <2> QED
    BY <1>1, <2>1 DEF DeclarationsRight, IInv
<1>4. fr.mark = Len(said) /\ fr.undo = Len(Hears(manifest, said)) /\ fr \in Frame
  <2>1. Len(log) = Len(Hears(manifest, said)) /\ Len(log) \in Nat
    <3> DEFINE S == Sayable(manifest)  l == LogOf(manifest, said)  h == Hears(manifest, said)
    <3>1. said \in Seq(S) /\ log = l
      BY <1>2
    <3> HIDE DEF S, l
    <3>2. l \in Seq(Records(manifest, S)) /\ Len(l) = Len(h)
      BY <3>1, LogTyped DEF l
    <3> HIDE DEF h
    <3>3. Len(l) \in Nat
      BY <3>2
    <3> QED
      BY <3>1, <3>2, <3>3 DEF h
  <2>2. Len(said) \in Nat
    BY <1>2
  <2> QED
    BY <2>1, <2>2 DEF Frame
<1> HIDE DEF fr
<1>5. /\ stack' \in Seq(Frame) /\ Len(stack') = n + 1 /\ stack'[n + 1] = fr
      /\ \A f \in 1 .. n : stack'[f] = stack[f]
  BY <1>1, <1>2, <1>4, AppendProperties
<1>6. SubSeq(said, 1, Len(said)) = said /\ Len(said) \in 0 .. Len(said)
  <2>1. Len(said) \in Nat
    BY <1>2
  <2>2. SubSeq(said, 1, Len(said)) = said
    BY <1>2, SubSeqFull
  <2> QED
    BY <2>1, <2>2
<1>7. ASSUME NEW f \in 1 .. n
      PROVE  stack[f].mark \in 0 .. Len(said)
             /\ stack[f].undo = Len(Hears(manifest, SubSeq(said, 1, stack[f].mark)))
  BY DEF IInv, FramesCut
<1>8. ASSUME NEW f \in 1 .. n + 1
      PROVE  stack'[f].mark \in 0 .. Len(said)
             /\ stack'[f].undo = Len(Hears(manifest, SubSeq(said, 1, stack'[f].mark)))
  <2>1. CASE f = n + 1
    BY <1>4, <1>5, <1>6, <2>1
  <2>2. CASE f # n + 1
    <3>1. f \in 1 .. n
      BY <1>2, <2>2
    <3> QED
      BY <1>5, <1>7, <3>1
  <2> QED
    BY <2>1, <2>2
<1>9. ASSUME NEW f \in 1 .. n + 1, NEW g \in 1 .. n + 1, f <= g
      PROVE  stack'[f].mark <= stack'[g].mark
  <2>1. CASE g = n + 1
    <3>1. stack'[f].mark \in 0 .. Len(said) /\ stack'[g].mark = Len(said)
      BY <1>4, <1>5, <1>8, <2>1
    <3> DEFINE a == stack'[f].mark  b == stack'[g].mark  l == Len(said)
    <3> HIDE DEF a, b, l
    <3>2. a \in 0 .. l /\ b = l /\ l \in Nat
      BY <1>2, <3>1 DEF a, b, l
    <3>3. a <= b
      BY <3>2
    <3> QED
      BY <3>3 DEF a, b
  <2>2. CASE g # n + 1
    <3>1. f \in 1 .. n /\ g \in 1 .. n
      BY <1>2, <1>9, <2>2
    <3>2. stack[f].mark <= stack[g].mark
      BY <1>9, <3>1 DEF IInv, FramesCut
    <3> QED
      BY <1>5, <3>1, <3>2
  <2> QED
    BY <2>1, <2>2
<1>10. FramesCut(manifest, said, stack')
  BY <1>5, <1>8, <1>9 DEF FramesCut
<1>11. Len(stack') <= MaxDepth
  <2>1. MaxDepth \in Nat
    BY EventsAssumption
  <2> HIDE DEF n
  <2>2. n < MaxDepth /\ Len(stack') = n + 1
    BY <1>1, <1>5 DEF n
  <2> QED
    BY <1>2, <2>1, <2>2
<1> QED
  BY <1>1, <1>3, <1>10, <1>11 DEF IInv

\* Without the innermost frame, as long as what was said reaches its mark.
LEMMA FramesLeft ==
  ASSUME NEW m, NEW S, NEW x \in Seq(S), NEW st, FramesCut(m, x, st), Len(st) > 0,
         NEW k \in 0 .. Len(x), st[Len(st)].mark <= k
  PROVE  FramesCut(m, SubSeq(x, 1, k), Front(st)) /\ Len(Front(st)) = Len(st) - 1
<1> DEFINE n == Len(st)  y == SubSeq(x, 1, k)  fs == Front(st)
<1>1. st \in Seq(Frame) /\ n \in Nat /\ n > 0
  BY DEF FramesCut
<1>2. fs \in Seq(Frame) /\ Len(fs) = n - 1 /\ \A i \in 1 .. n - 1 : fs[i] = st[i]
  BY <1>1, FrontIs
<1>3. Len(y) = k
  BY CutIs
<1> HIDE DEF fs, y
<1>4. ASSUME NEW f \in 1 .. Len(fs)
      PROVE  fs[f].mark \in 0 .. Len(y) /\ fs[f].undo = Len(Hears(m, SubSeq(y, 1, fs[f].mark)))
  <2>1. f \in 1 .. n /\ n \in 1 .. n /\ f <= n /\ fs[f] = st[f]
    BY <1>1, <1>2
  <2> DEFINE j == st[f].mark
  <2>2. /\ j \in 0 .. Len(x) /\ j <= st[n].mark /\ st[n].mark \in 0 .. Len(x)
        /\ st[f].undo = Len(Hears(m, SubSeq(x, 1, j)))
    BY <2>1 DEF FramesCut
  <2> DEFINE top == st[n].mark
  <2> HIDE DEF j, top
  <2>3. j \in Nat /\ top \in Nat /\ k \in Nat /\ j <= top /\ top <= k
    BY <2>2 DEF top
  <2>4. j \in 0 .. k
    BY <2>3
  <2>5. SubSeq(y, 1, j) = SubSeq(x, 1, j)
    BY <2>4, CutAgain DEF y
  <2> QED
    BY <1>3, <2>1, <2>2, <2>4, <2>5 DEF j
<1>5. ASSUME NEW f \in 1 .. Len(fs), NEW g \in 1 .. Len(fs), f <= g
      PROVE  fs[f].mark <= fs[g].mark
  <2>1. f \in 1 .. n /\ g \in 1 .. n /\ fs[f] = st[f] /\ fs[g] = st[g]
    BY <1>1, <1>2
  <2> QED
    BY <1>5, <2>1 DEF FramesCut
<1>6. FramesCut(m, y, fs)
  BY <1>2, <1>4, <1>5 DEF FramesCut
<1> QED
  BY <1>2, <1>6 DEF fs, y

LEMMA StackIs ==
  ASSUME IInv, Running
  PROVE  /\ stage = "deployed" /\ Deployable(manifest) /\ stack \in Seq(Frame)
         /\ Len(stack) \in Nat \ {0} /\ Len(stack) \in 1 .. Len(stack) /\ Top \in Frame
         /\ Top.mark \in 0 .. Len(said)
         /\ Top.undo = Len(Hears(manifest, SubSeq(said, 1, Top.mark)))
<1>1. stack \in Seq(Frame) /\ Len(stack) > 0
  BY DEF IInv, FramesCut, Running
<1>2. Len(stack) \in Nat \ {0} /\ Len(stack) \in 1 .. Len(stack)
  BY <1>1
<1>3. Top \in Frame
  BY <1>1, <1>2, ElementOfSeq DEF Top
<1>4. stage = "deployed"
  <2>1. Len(<<>>) = 0
    OBVIOUS
  <2> QED
    BY <1>2, <2>1 DEF IInv, DeclarationsRight
<1>5. Deployable(manifest)
  BY <1>4 DEF IInv, DeclarationsRight
<1>6. /\ Top.mark \in 0 .. Len(said)
      /\ Top.undo = Len(Hears(manifest, SubSeq(said, 1, Top.mark)))
  BY <1>2 DEF IInv, FramesCut, Top
<1> QED
  BY <1>1, <1>2, <1>3, <1>4, <1>5, <1>6

LEMMA DeclarationsKept ==
  ASSUME IInv, stage = "deployed", manifest' = manifest, events' = events, stage' = stage
  PROVE  DeclarationsRight'
BY DEF IInv, DeclarationsRight

LEMMA ReturnKeeps ==
  ASSUME IInv, Return
  PROVE  IInv'
<1>1. /\ Running /\ stack' = Front(stack) /\ manifest' = manifest /\ events' = events
      /\ stage' = stage /\ log' = log /\ said' = said
  BY DEF Return
<1>2. DeclarationsRight'
  BY <1>1, StackIs, DeclarationsKept
<1>3. said \in Seq(Sayable(manifest)) /\ Len(said) \in Nat /\ SubSeq(said, 1, Len(said)) = said
  BY SubSeqFull DEF IInv
<1>4. Len(stack) > 0 /\ FramesCut(manifest, said, stack) /\ Len(stack) <= MaxDepth
  BY <1>1 DEF IInv, Running
<1>5. FramesCut(manifest, SubSeq(said, 1, Len(said)), Front(stack)) /\ Len(Front(stack)) = Len(stack) - 1
  <2> DEFINE k == Len(said)
  <2>1. k \in 0 .. Len(said)
    BY <1>3
  <2>2. stack[Len(stack)].mark <= k
    <3>1. Top.mark \in 0 .. k
      BY <1>1, StackIs
    <3> HIDE DEF k
    <3> QED
      BY <3>1 DEF Top
  <2> HIDE DEF k
  <2>3. FramesCut(manifest, SubSeq(said, 1, k), Front(stack)) /\ Len(Front(stack)) = Len(stack) - 1
    BY <1>3, <1>4, <2>1, <2>2, FramesLeft
  <2> QED
    BY <2>3 DEF k
<1>6. Len(Front(stack)) <= MaxDepth
  <2> DEFINE n == Len(stack)
  <2>1. n \in Nat /\ n <= MaxDepth /\ MaxDepth \in Nat /\ Len(Front(stack)) = n - 1
    BY <1>1, <1>4, <1>5, StackIs, EventsAssumption
  <2> HIDE DEF n
  <2> QED
    BY <2>1
<1> QED
  BY <1>1, <1>2, <1>3, <1>5, <1>6 DEF IInv

LEMMA DiesKeeps ==
  ASSUME IInv, Running, Dies, manifest' = manifest, events' = events, stage' = stage
  PROVE  IInv'
<1> DEFINE k == Top.mark
<1>1. /\ stack' = Front(stack) /\ log' = SubSeq(log, 1, Top.undo) /\ said' = SubSeq(said, 1, k)
  BY DEF Dies
<1>2. DeclarationsRight'
  BY StackIs, DeclarationsKept
<1>3. /\ said \in Seq(Sayable(manifest)) /\ k \in 0 .. Len(said) /\ Len(said) <= MaxEmits
      /\ Top.undo = Len(Hears(manifest, SubSeq(said, 1, k)))
      /\ log = LogOf(manifest, said) /\ MaxEmits \in Nat
  BY StackIs, EventsAssumption DEF IInv
<1> HIDE DEF k
<1>4. log' = LogOf(manifest, said')
  BY <1>1, <1>3, LogCut
<1>5. said' \in Seq(Sayable(manifest)) /\ Len(said') = k
  BY <1>1, <1>3, CutIs
<1>6. Len(said') <= MaxEmits
  <2> DEFINE l == Len(said)
  <2>1. l \in Nat /\ k \in 0 .. l /\ l <= MaxEmits
    BY <1>3
  <2> HIDE DEF l
  <2> QED
    BY <1>3, <1>5, <2>1
<1>7. FramesCut(manifest, SubSeq(said, 1, k), Front(stack)) /\ Len(Front(stack)) = Len(stack) - 1
  <2>1. Len(stack) > 0 /\ FramesCut(manifest, said, stack) /\ stack[Len(stack)].mark = k
    BY DEF IInv, Running, Top, k
  <2>2. k <= k
    BY <1>3
  <2> QED
    BY <1>3, <2>1, <2>2, FramesLeft
<1>8. Len(Front(stack)) <= MaxDepth
  <2> DEFINE n == Len(stack)
  <2>1. n \in Nat /\ n <= MaxDepth /\ MaxDepth \in Nat /\ Len(Front(stack)) = n - 1
    BY <1>7, StackIs, EventsAssumption DEF IInv
  <2> HIDE DEF n
  <2> QED
    BY <2>1
<1> QED
  BY <1>1, <1>2, <1>4, <1>5, <1>6, <1>7, <1>8 DEF IInv

-----------------------------------------------------------------------------
(* Emissions *)

\* Every choice of values there is gives the fields values of their types.
LEMMA ValuesGiven ==
  ASSUME NEW raw, Lowered(raw), NEW vals \in ValuesOf(LowerEvent(raw))
  PROVE  Given(raw, vals)
<1> DEFINE n == Len(raw.fields)
           sets == [i \in 1 .. n |-> Values(Parse(raw.fields[i].ty))]
<1>1. n \in Nat /\ DOMAIN raw.fields = 1 .. n
  BY DEF Lowered
<1>2. ASSUME NEW i \in 1 .. n PROVE Values(Parse(raw.fields[i].ty)) \in SUBSET AnyValue
  BY DEF Lowered, AnyValue
<1>3. sets \in Seq(SUBSET AnyValue) /\ Len(sets) = n
  <2>1. sets \in [1 .. n -> SUBSET AnyValue]
    BY <1>2
  <2> HIDE DEF sets, n
  <2> QED
    BY <1>1, <2>1
<1>4. ValuesOf(LowerEvent(raw)) = TuplesOf(sets)
  <2> DEFINE lo == [i \in DOMAIN raw.fields |->
                      [ty |-> Parse(raw.fields[i].ty), indexed |-> raw.fields[i].indexed]]
             had == [i \in DOMAIN lo |-> Values(lo[i].ty)]
  <2>1. LowerEvent(raw).fields = lo
    BY DEF LowerEvent
  <2>2. had = sets
    BY <1>1
  <2>3. ValuesOf(LowerEvent(raw)) = TuplesOf(had)
    <3> HIDE DEF lo
    <3> QED
      BY <2>1 DEF ValuesOf
  <2> HIDE DEF had, sets
  <2> QED
    BY <2>2, <2>3
<1>5. \A i \in 1 .. n : sets[i] = Values(Parse(raw.fields[i].ty))
  OBVIOUS
<1> HIDE DEF sets
<1>6. vals \in Seq(AnyValue) /\ Len(vals) = n /\ \A i \in 1 .. n : vals[i] \in sets[i]
  BY <1>3, <1>4, TuplesOfAre
<1> QED
  BY <1>5, <1>6 DEF Given

\* What Go's author builds is what the generated emit() builds.
LEMMA ByHandIs ==
  ASSUME Deployable(manifest), NEW raw \in manifest, NEW vals, Given(raw, vals)
  PROVE  ByHand(LowerEvent(raw), vals) = Emitted(raw, vals)
<1> DEFINE fs == Fields(raw, vals)  plain == DataOf(fs)
           t == Topics(Topic0FromAbi(raw), fs)
<1>1. Lowered(raw) /\ Declared(manifest, raw.name) = raw
  BY DeclaredIs
<1>2. LowerEvent(raw).topic0 = Topic0FromAbi(raw) /\ LowerEvent(raw).name = raw.name
  BY <1>1, Topic0Is
<1>3. (CHOOSE r \in manifest : r.name = LowerEvent(raw).name) = raw
  BY <1>1, <1>2 DEF Declared
<1>4. Emitted(raw, vals) = [topics |-> t, data |-> BuildDataEmit(plain)]
  BY <1>2 DEF Emitted, EmitStruct, Fields
<1>5. EventTopic0(AbiSignature(raw)) = Topic0FromAbi(raw)
  BY DEF EventTopic0, Topic0FromAbi
<1>6. ByHand(LowerEvent(raw), vals)
        = [topics |-> t, data |-> EncodeAll(Types(plain), Vals(plain))]
  BY <1>3, <1>5 DEF ByHand, Fields, Types, Vals
<1>7. plain \in Seq(Plains)
  BY <1>1, FieldsAre, SplitFields
<1> HIDE DEF plain, t
<1>8. BuildDataEmit(plain) = EncodeAll(Types(plain), Vals(plain))
  BY <1>7, PlainIs, BuiltIs
<1> QED
  BY <1>4, <1>6, <1>8

LEMMA EmissionIs ==
  ASSUME IInv, Running, NEW ev \in events, NEW vals \in ValuesOf(ev)
  PROVE  LET s == [name |-> ev.name, values |-> vals, view |-> Top.view]
         IN  /\ s \in Sayable(manifest) /\ Entry(ev, vals) = EntryOf(manifest, s)
             /\ \E raw \in manifest : raw.name = s.name
                                      /\ Lowered(raw) /\ Given(raw, vals)
                                      /\ EntryOf(manifest, s) = Emitted(raw, vals)
<1> DEFINE s == [name |-> ev.name, values |-> vals, view |-> Top.view]
<1>1. stage = "deployed" /\ Deployable(manifest) /\ Top \in Frame
  BY StackIs
<1>2. PICK raw \in manifest : ev = LowerEvent(raw)
  BY <1>1 DEF IInv, DeclarationsRight
<1>3. Lowered(raw) /\ raw.name # "raw"
  BY <1>1, DeclaredIs
<1>4. Given(raw, vals) /\ ev.name = raw.name
  BY <1>2, <1>3, ValuesGiven, Topic0Is
<1>5. s \in Said
  <2>1. vals \in Seq(AnyValue \cup Nat)
    <3>1. vals \in [1 .. Len(vals) -> AnyValue] /\ Len(vals) \in Nat
      BY <1>4, ElementOfSeq DEF Given
    <3> QED
      BY <3>1
  <2>2. raw.name \in STRING /\ Top.view \in BOOLEAN
    BY <1>1, <1>3 DEF Lowered, Frame
  <2> QED
    BY <1>4, <2>1, <2>2 DEF Said
<1>6. s.name = raw.name /\ s.values = vals
  BY <1>4
<1> HIDE DEF s
<1>7. s \in Sayable(manifest)
  BY <1>3, <1>4, <1>5, <1>6 DEF Sayable
<1>8. EntryOf(manifest, s) = Emitted(raw, vals)
  BY <1>1, <1>3, <1>6, DeclaredIs DEF EntryOf
<1>9. Entry(ev, vals) = Emitted(raw, vals)
  BY <1>1, <1>2, <1>4, ByHandIs DEF Entry, Emitted
<1> QED
  BY <1>3, <1>4, <1>6, <1>7, <1>8, <1>9 DEF s

LEMMA SaidMore ==
  ASSUME IInv, Running, Len(said) < MaxEmits, NEW s \in Sayable(manifest), s.view = Top.view,
         log' = Appended(EntryOf(manifest, s)), said' = Append(said, s),
         stack' = stack, manifest' = manifest, events' = events, stage' = stage
  PROVE  IInv'
<1> DEFINE S == Sayable(manifest)  n == Len(said)
<1>1. /\ Deployable(manifest) /\ DeclarationsRight' /\ said \in Seq(S)
      /\ log = LogOf(manifest, said) /\ Len(stack) <= MaxDepth
      /\ FramesCut(manifest, said, stack)
  BY StackIs, DeclarationsKept DEF IInv
<1>2. said' \in Seq(S) /\ Len(said') = n + 1 /\ n \in Nat
  <2> HIDE DEF S
  <2> QED
    BY <1>1, AppendProperties DEF S
<1>3. Len(said') <= MaxEmits
  <2>1. MaxEmits \in Nat /\ n < MaxEmits
    BY EventsAssumption
  <2> HIDE DEF n
  <2> QED
    BY <1>2, <2>1
<1>4. log' = LogOf(manifest, said')
  <2>1. Refused(EntryOf(manifest, s)) <=> ~ Owed(manifest, s)
    BY <1>1, OwedIs DEF Refused, Fitting
  <2>2. LogOf(manifest, Append(said, s))
          = IF Owed(manifest, s) THEN Append(log, EntryOf(manifest, s)) ELSE log
    <3> HIDE DEF S
    <3> QED
      BY <1>1, LogMore DEF S
  <2> QED
    BY <2>1, <2>2 DEF Appended
<1>5. FramesCut(manifest, said', stack)
  <2>1. ASSUME NEW f \in 1 .. Len(stack)
        PROVE  /\ stack[f].mark \in 0 .. Len(said')
               /\ stack[f].undo = Len(Hears(manifest, SubSeq(said', 1, stack[f].mark)))
    <3> DEFINE k == stack[f].mark
    <3>1. k \in 0 .. n /\ stack[f].undo = Len(Hears(manifest, SubSeq(said, 1, k)))
      BY <1>1 DEF FramesCut
    <3> HIDE DEF k, S
    <3>2. SubSeq(Append(said, s), 1, k) = SubSeq(said, 1, k) /\ k \in 0 .. Len(Append(said, s))
      BY <1>1, <3>1, CutBefore DEF S
    <3> QED
      BY <3>1, <3>2 DEF k
  <2> QED
    BY <1>1, <2>1 DEF FramesCut
<1> QED
  BY <1>1, <1>2, <1>3, <1>4, <1>5 DEF IInv

\* An emission that kills the frame unwinds it, and another is heard or not.
LEMMA WrapKeeps ==
  ASSUME IInv, NEW s, s.view = Top.view, WrapEmit(EntryOf(manifest, s), s),
         ~ Kills(Top.sdk, Len(EntryOf(manifest, s).topics)) => s \in Sayable(manifest)
  PROVE  IInv'
<1>1. /\ Running /\ Len(said) < MaxEmits
      /\ manifest' = manifest /\ events' = events /\ stage' = stage
  BY DEF WrapEmit
<1>2. CASE Kills(Top.sdk, Len(EntryOf(manifest, s).topics))
  BY <1>1, <1>2, DiesKeeps DEF WrapEmit
<1>3. CASE ~ Kills(Top.sdk, Len(EntryOf(manifest, s).topics))
  BY <1>1, <1>3, SaidMore DEF WrapEmit
<1> QED
  BY <1>2, <1>3

LEMMA EmitKeeps ==
  ASSUME IInv, Running, NEW ev \in events, NEW vals \in ValuesOf(ev), Emit(ev, vals)
  PROVE  IInv'
<1> DEFINE s == [name |-> ev.name, values |-> vals, view |-> Top.view]
<1>1. s \in Sayable(manifest) /\ Entry(ev, vals) = EntryOf(manifest, s)
  BY EmissionIs
<1>2. WrapEmit(Entry(ev, vals), s) /\ s.view = Top.view
  BY DEF Emit
<1> HIDE DEF s
<1> QED
  BY <1>1, <1>2, WrapKeeps

LEMMA EmitRawKeeps ==
  ASSUME IInv, Running, NEW n \in RawTopics, EmitRaw(n)
  PROVE  IInv'
<1> DEFINE s == [name |-> "raw", values |-> <<n>>, view |-> Top.view]
<1>1. n \in Nat /\ Top \in Frame
  BY EventsAssumption, StackIs
<1>2. s.name = "raw" /\ s.values[1] = n /\ s.view = Top.view
  OBVIOUS
<1>3. s \in Said
  <2>1. <<n>> \in Seq(AnyValue \cup Nat)
    BY <1>1
  <2>2. Top.view \in BOOLEAN
    BY <1>1 DEF Frame
  <2> DEFINE v == <<n>>  b == Top.view
  <2>3. s = [name |-> "raw", values |-> v, view |-> b]
    OBVIOUS
  <2> HIDE DEF v, b, s
  <2>4. v \in Seq(AnyValue \cup Nat) /\ b \in BOOLEAN
    BY <2>1, <2>2 DEF v, b
  <2> QED
    BY <2>2, <2>3, <2>4 DEF Said
<1>4. WrapEmit(RawEntry(n), s)
  BY DEF EmitRaw, RawEntry
<1> HIDE DEF s
<1>5. EntryOf(manifest, s) = RawEntry(n)
  BY <1>2 DEF EntryOf
<1>6. ASSUME ~ Kills(Top.sdk, Len(RawEntry(n).topics))
      PROVE  s \in Sayable(manifest)
  <2>1. Len(RawEntry(n).topics) = n
    <3> DEFINE t == [k \in 1 .. n |-> Blake3(<<"raw">>)]
    <3>1. RawEntry(n).topics = t /\ t \in [1 .. n -> {Blake3(<<"raw">>)}]
      BY DEF RawEntry
    <3> HIDE DEF t
    <3> QED
      BY <1>1, <3>1
  <2>2. n \in 0 .. 4
    BY <1>1, <1>6, <2>1 DEF Kills, RustPanics, GoReverts
  <2> QED
    BY <1>2, <1>3, <2>2 DEF Sayable
<1> QED
  BY <1>2, <1>4, <1>5, <1>6, WrapKeeps

-----------------------------------------------------------------------------
(* Every step keeps the invariant *)

LEMMA StutterKeeps ==
  ASSUME IInv, UNCHANGED vars
  PROVE  IInv'
BY DEF IInv, DeclarationsRight, vars

LEMMA StepKeeps == IInv /\ [Next]_vars => IInv'
<1> SUFFICES ASSUME IInv, [Next]_vars PROVE IInv'
  OBVIOUS
<1>1. CASE DeclareEvents
  BY <1>1, DeclareKeeps
<1>2. CASE Edit
  BY <1>2, EditKeeps
<1>3. CASE \E sdk \in Sdks, view \in BOOLEAN : Begin(sdk, view)
  BY <1>3, BeginKeeps
<1>4. CASE \E sdk \in Sdks, view \in BOOLEAN : Call(sdk, view)
  BY <1>4, CallKeeps
<1>5. CASE Running /\ \E ev \in events : \E values \in ValuesOf(ev) : Emit(ev, values)
  BY <1>5, EmitKeeps
<1>6. CASE Running /\ \E n \in RawTopics : EmitRaw(n)
  BY <1>6, EmitRawKeeps
<1>7. CASE Return
  BY <1>7, ReturnKeeps
<1>8. CASE Revert
  BY <1>8, DiesKeeps DEF Revert
<1>9. CASE UNCHANGED vars
  BY <1>9, StutterKeeps
<1> QED
  BY <1>1, <1>2, <1>3, <1>4, <1>5, <1>6, <1>7, <1>8, <1>9 DEF Next

LEMMA Invariance == Spec => []IInv
<1>1. Init => IInv
  BY InitHolds
<1>2. IInv /\ [Next]_vars => IInv'
  BY StepKeeps
<1> QED
  BY <1>1, <1>2, PTL DEF Spec

-----------------------------------------------------------------------------
(* What the invariant says of the log *)

\* Each record is the one of what the subscriber hears at its place.
LEMMA HeardAt ==
  ASSUME IInv
  PROVE  /\ Len(log) = Len(Heard) /\ DOMAIN log = 1 .. Len(log)
         /\ \A i \in 1 .. Len(log) :
              /\ Deployable(manifest) /\ Heard[i] \in Sayable(manifest)
              /\ Owed(manifest, Heard[i]) /\ log[i] = EntryOf(manifest, Heard[i])
<1> DEFINE S == Sayable(manifest)  R == {s \in S : Owed(manifest, s)}
           h == Hears(manifest, said)  l == LogOf(manifest, said)
<1>1. said \in Seq(S) /\ log = l /\ Heard = h
  BY HeardIs DEF IInv
<1> HIDE DEF S, l
<1>2. h \in Seq(R)
  BY <1>1, HearsTyped
<1>3. /\ l \in Seq(Records(manifest, S)) /\ Len(l) = Len(h)
      /\ \A i \in 1 .. Len(h) : l[i] = EntryOf(manifest, h[i])
  BY <1>1, LogTyped DEF l
<1>4. \A i \in 1 .. Len(h) : h[i] \in R
  <2> HIDE DEF h, R
  <2> QED
    BY <1>2, ElementOfSeq
<1>5. Len(h) > 0 => Deployable(manifest)
  <2>1. CASE stage = "deployed"
    BY <2>1 DEF IInv, DeclarationsRight
  <2>2. CASE stage # "deployed"
    <3>1. Len(h) = 0
      BY <2>2, HearsNone DEF IInv, DeclarationsRight
    <3> QED
      BY <3>1
  <2> QED
    BY <2>1, <2>2
<1>6. Len(h) \in Nat /\ DOMAIN l = 1 .. Len(l)
  <2> HIDE DEF h
  <2> QED
    BY <1>2, <1>3
<1> HIDE DEF h
<1>7. ASSUME NEW i \in 1 .. Len(h)
      PROVE  /\ Deployable(manifest) /\ h[i] \in S /\ Owed(manifest, h[i])
             /\ l[i] = EntryOf(manifest, h[i])
  BY <1>3, <1>4, <1>5, <1>6
<1> QED
  BY <1>1, <1>3, <1>6, <1>7 DEF S

LEMMA EventsCounted ==
  ASSUME IInv
  PROVE  Cardinality(events) = IF stage = "deployed" THEN Cardinality(manifest) ELSE 0
<1>1. CASE stage # "deployed"
  BY <1>1, FS_EmptySet DEF IInv, DeclarationsRight
<1>2. CASE stage = "deployed"
  <2> DEFINE f == [raw \in manifest |-> LowerEvent(raw)]
  <2>1. /\ events = {LowerEvent(raw) : raw \in manifest} /\ Deployable(manifest)
        /\ IsFiniteSet(manifest)
    BY <1>2, ManifestsAssumption DEF IInv, DeclarationsRight
  <2>2. ASSUME NEW r \in manifest, NEW s \in manifest, f[r] = f[s] PROVE r = s
    <3>1. LowerEvent(r).name = r.name /\ LowerEvent(s).name = s.name
      BY <2>1, DeclaredIs, Topic0Is
    <3>2. LowerEvent(r) = LowerEvent(s)
      BY <2>2
    <3>3. r.name = s.name
      BY <3>1, <3>2
    <3> QED
      BY <2>1, <3>3, DeclaredIs
  <2>3. f \in [manifest -> events]
    BY <2>1
  <2>4. \A e \in events : \E r \in manifest : f[r] = e
    BY <2>1
  <2> HIDE DEF f
  <2>5. f \in Bijection(manifest, events)
    BY <2>2, <2>3, <2>4 DEF Bijection, Injection, Surjection, IsInjective
  <2>6. ExistsBijection(manifest, events)
    BY <2>5 DEF ExistsBijection
  <2> QED
    BY <1>2, <2>1, <2>6, FS_Bijection
<1> QED
  BY <1>1, <1>2

LEMMA TypesHold == IInv => TypeOK
<1> SUFFICES ASSUME IInv PROVE TypeOK
  OBVIOUS
<1>1. ASSUME NEW i \in DOMAIN log
      PROVE  /\ Len(log[i].topics) \in 1 .. 4
             /\ \A k \in DOMAIN log[i].topics : IsTopic(log[i].topics[k], k)
             /\ \A j \in DOMAIN log[i].data : log[i].data[j] \in 0 .. 255
  <2>1. Logged(log[i])
    BY HeardAt, OwedIs
  <2> QED
    BY <2>1 DEF Logged
<1>2. Cardinality(events) = IF stage = "deployed" THEN Cardinality(manifest) ELSE 0
  BY EventsCounted
<1>3. stage \in {"source", "error", "deployed"} /\ Len(stack) <= MaxDepth /\ Len(said) <= MaxEmits
  BY DEF IInv, DeclarationsRight
<1> QED
  BY <1>1, <1>2, <1>3 DEF TypeOK

\* Topic-0 tells the events of a manifest from one another, and from what
\* the low-level call emits.
LEMMA TopicNames ==
  ASSUME NEW m, Deployable(m), NEW s \in Sayable(m), Owed(m, s), NEW raw \in m
  PROVE  EntryOf(m, s).topics[1] = Topic0FromAbi(raw) <=> s.name = raw.name
<1>1. \A a, b : Blake3(a) = Blake3(b) => a = b
  BY DEF Blake3
<1>2. raw.name # "raw"
  BY DeclaredIs
<1>3. CASE s.name = "raw"
  <2>1. s.values[1] \in 0 .. 4 /\ EntryOf(m, s) = RawEntry(s.values[1]) /\ s.values[1] > 0
    BY <1>3, SaidIs DEF Owed
  <2>2. EntryOf(m, s).topics[1] = Blake3(<<"raw">>)
    BY <2>1, RawEntryIs
  <2>3. AbiSignature(raw) # <<"raw">>
    BY <1>2 DEF AbiSignature
  <2> QED
    BY <1>1, <1>2, <1>3, <2>2, <2>3 DEF Topic0FromAbi
<1>4. CASE s.name # "raw"
  <2>1. PICK r \in m : /\ r.name = s.name /\ Lowered(r) /\ Given(r, s.values)
                       /\ EntryOf(m, s) = Emitted(r, s.values)
    BY <1>4, SaidIs
  <2>2. EntryOf(m, s).topics[1] = Topic0FromAbi(r)
    BY <2>1, EmittedIs DEF Says
  <2>3. ASSUME Topic0FromAbi(r) = Topic0FromAbi(raw) PROVE r.name = raw.name
    <3>1. AbiSignature(r) = AbiSignature(raw)
      BY <1>1, <2>3 DEF Topic0FromAbi
    <3> QED
      BY <3>1 DEF AbiSignature
  <2>4. r.name = raw.name => r = raw
    BY <2>1, DeclaredIs
  <2> QED
    BY <2>1, <2>2, <2>3, <2>4
<1> QED
  BY <1>3, <1>4

\* The records of an event are what was emitted of it.
LEMMA RecordIs ==
  ASSUME NEW m, Deployable(m), NEW s \in Sayable(m), NEW raw \in m, s.name = raw.name
  PROVE  LET fields == Abi(raw, s)
         IN  /\ fields \in Seq(Typed)
             /\ Says(EntryOf(m, s), raw, IndexedOf(fields), DataOf(fields))
<1>1. raw.name # "raw" /\ \A r \in m : r.name = raw.name => r = raw
  BY DeclaredIs
<1>2. /\ Lowered(raw) /\ Given(raw, s.values) /\ Abi(raw, s) = Fields(raw, s.values)
      /\ EntryOf(m, s) = Emitted(raw, s.values)
  BY <1>1, SaidIs
<1>3. Fields(raw, s.values) \in Seq(Typed)
  BY <1>2, FieldsAre
<1>4. LET fs == Fields(raw, s.values)
      IN  Says(Emitted(raw, s.values), raw, IndexedOf(fs), DataOf(fs))
  BY <1>2, EmittedIs
<1> QED
  BY <1>2, <1>3, <1>4

\* The data of a record decodes to the fields that are not indexed.
LEMMA DataIs ==
  ASSUME NEW e, NEW raw, NEW ix, NEW plain \in Seq(Plains), Says(e, raw, ix, plain)
  PROVE  LET data == TryFromSlice(Types(plain), e.data)
         IN  data.ok /\ data.values = Vals(plain)
<1> DEFINE tys == Types(plain)  vals == Vals(plain)
<1>1. tys \in Seq(Ty) /\ IsTuple(tys, vals) /\ e.data = EncodeAll(tys, vals)
  BY PlainIs DEF Says
<1> HIDE DEF tys, vals
<1>2. TryFromSlice(tys, e.data).ok /\ TryFromSlice(tys, e.data).values = vals
  BY <1>1, WrittenIsRead
<1> QED
  BY <1>2 DEF tys, vals

LEMMA IndexedIs ==
  ASSUME NEW fields \in Seq(Typed), NEW k \in DOMAIN IndexedOf(fields)
  PROVE  LET f == IndexedOf(fields)[k]
         IN  /\ f.ty \in FieldTy /\ f.ty \in DOMAIN Width /\ HasType(f.ty, f.value)
             /\ k \in 1 .. Len(IndexedOf(fields))
<1> DEFINE ix == IndexedOf(fields)
<1>1. ix \in Seq(Indexes)
  BY SplitFields
<1> HIDE DEF ix
<1>2. k \in 1 .. Len(ix) /\ ix[k] \in Indexes
  BY <1>1, ElementOfSeq DEF ix
<1>3. ix[k].ty \in FieldTy /\ ix[k].ty \in DOMAIN Width /\ HasType(ix[k].ty, ix[k].value)
  BY <1>2, FieldTyIs DEF Indexes, Typed
<1> QED
  BY <1>2, <1>3 DEF ix

LEMMA SeesHolds == IInv => SubscriberSees
<1> SUFFICES ASSUME IInv PROVE SubscriberSees
  OBVIOUS
<1>1. Len(log) = Len(Heard) /\ DOMAIN log = 1 .. Len(log)
  BY HeardAt
<1>2. ASSUME NEW i \in DOMAIN log, NEW raw \in manifest
      PROVE  log[i].topics[1] = Topic0FromAbi(raw) <=> Heard[i].name = raw.name
  BY HeardAt, TopicNames
<1>3. ASSUME NEW i \in DOMAIN log, NEW raw \in manifest, Heard[i].name = raw.name
      PROVE  LET fields  == Abi(raw, Heard[i])
                 indexed == IndexedOf(fields)
                 plain   == DataOf(fields)
                 data    == TryFromSlice([k \in DOMAIN plain |-> plain[k].ty], log[i].data)
             IN  /\ data.ok /\ data.values = [k \in DOMAIN plain |-> plain[k].value]
                 /\ Len(log[i].topics) = 1 + Len(indexed)
                 /\ \A k \in DOMAIN indexed :
                      ReadFixed(indexed[k].ty,
                                SubSeq(log[i].topics[k + 1], 1, Width[indexed[k].ty]))
                        = indexed[k].value
  <2> DEFINE fields == Abi(raw, Heard[i])  ix == IndexedOf(fields)  plain == DataOf(fields)
             e == log[i]
  <2>1. /\ Deployable(manifest) /\ Heard[i] \in Sayable(manifest)
        /\ e = EntryOf(manifest, Heard[i])
    BY <1>1, HeardAt
  <2>2. fields \in Seq(Typed) /\ Says(e, raw, ix, plain)
    BY <1>3, <2>1, RecordIs
  <2> HIDE DEF fields, e
  <2>3. plain \in Seq(Plains)
    BY <2>2, SplitFields
  <2> HIDE DEF plain
  <2>4. TryFromSlice(Types(plain), e.data).ok /\ TryFromSlice(Types(plain), e.data).values = Vals(plain)
    BY <2>2, <2>3, DataIs
  <2>5. ASSUME NEW k \in DOMAIN ix
        PROVE  ReadFixed(ix[k].ty, SubSeq(e.topics[k + 1], 1, Width[ix[k].ty])) = ix[k].value
    <3> DEFINE ty == ix[k].ty  v == ix[k].value
    <3>1. ty \in DOMAIN Width /\ HasType(ty, v) /\ k \in 1 .. Len(ix)
      BY <2>2, IndexedIs
    <3>2. e.topics[k + 1] = TopicFromField(ty, v)
      BY <2>2, <3>1 DEF Says
    <3> HIDE DEF ty, v
    <3>3. ReadFixed(ty, SubSeq(TopicFromField(ty, v), 1, Width[ty])) = v
      BY <3>1, TopicIs
    <3> QED
      BY <3>2, <3>3 DEF ty, v
  <2>6. Len(e.topics) = 1 + Len(ix)
    BY <2>2 DEF Says
  <2> HIDE DEF ix
  <2> QED
    BY <2>4, <2>5, <2>6 DEF Types, Vals, ix, plain, fields, e
<1> QED
  BY <1>1, <1>2, <1>3 DEF SubscriberSees

LEMMA FilterHolds == IInv => FilterExact
<1> SUFFICES ASSUME IInv, NEW i \in DOMAIN log, NEW raw \in manifest, Heard[i].name = raw.name,
                    NEW k \in DOMAIN IndexedOf(Abi(raw, Heard[i])),
                    NEW v \in Values(IndexedOf(Abi(raw, Heard[i]))[k].ty)
             PROVE  log[i].topics[k + 1] = FilterTopic(IndexedOf(Abi(raw, Heard[i]))[k].ty, v)
                      <=> IndexedOf(Abi(raw, Heard[i]))[k].value = v
  BY DEF FilterExact
<1> DEFINE fields == Abi(raw, Heard[i])  ix == IndexedOf(fields)
           ty == ix[k].ty  u == ix[k].value
<1>1. /\ Deployable(manifest) /\ Heard[i] \in Sayable(manifest)
      /\ log[i] = EntryOf(manifest, Heard[i])
  BY HeardAt
<1>2. fields \in Seq(Typed) /\ Says(log[i], raw, ix, DataOf(fields))
  BY <1>1, RecordIs
<1> HIDE DEF fields
<1>3. ty \in FieldTy /\ ty \in DOMAIN Width /\ HasType(ty, u) /\ k \in 1 .. Len(ix)
  BY <1>2, IndexedIs DEF fields
<1>4. log[i].topics[k + 1] = TopicFromField(ty, u)
  BY <1>2, <1>3 DEF Says
<1>5. v \in Values(ty)
  BY DEF fields
<1> HIDE DEF ty, u
<1>6. HasType(ty, v)
  BY <1>3, <1>5, ValuesAssumption
<1>7. TopicFromField(ty, u) = FilterTopic(ty, v) <=> u = v
  BY <1>3, <1>6, TopicsDiffer
<1> QED
  BY <1>4, <1>7 DEF ty, u, fields

LEMMA GoesOn ==
  ASSUME IInv, [Next]_vars, Len(stack') < Len(stack), NEW ev \in events, NEW vals \in ValuesOf(ev)
  PROVE  ~ Emit(ev, vals)
<1> SUFFICES ASSUME Emit(ev, vals) PROVE FALSE
  OBVIOUS
<1>1. Running
  BY DEF Emit, WrapEmit
<1> DEFINE e == Entry(ev, vals)
<1>2. PICK raw \in manifest : Lowered(raw) /\ Given(raw, vals) /\ e = Emitted(raw, vals)
  BY <1>1, EmissionIs
<1>3. Len(e.topics) \in 1 .. 4
  BY <1>2, EmittedIs DEF Logged
<1> HIDE DEF e
<1>4. ~ Kills(Top.sdk, Len(e.topics))
  <2> DEFINE n == Len(e.topics)
  <2> HIDE DEF n
  <2>1. n \in 1 .. 4
    BY <1>3 DEF n
  <2>2. ~ Kills(Top.sdk, n)
    BY <2>1 DEF Kills, RustPanics, GoReverts
  <2> QED
    BY <2>2 DEF n
<1>5. stack' = stack
  BY <1>4 DEF Emit, WrapEmit, e
<1>6. Len(stack) \in Nat
  BY <1>1, StackIs
<1> QED
  BY <1>5, <1>6

-----------------------------------------------------------------------------
(* The theorems *)

\* The log holds what the host takes: one to four topics, the first a digest
\* and the others of thirty-two bytes, data of bytes; a build that succeeds
\* has one event for each declaration, and one that fails has none.
THEOREM EventsTypeOK == Spec => []TypeOK
BY Invariance, TypesHold, PTL

\* Whatever the frames that call one another, return, revert and die, and
\* whichever SDK they use, a subscriber who filters on the topic-0 of the ABI
\* gets the emissions of that event and no other's, in order, and decodes
\* them to the values the contract gave.
THEOREM SubscriberAlwaysSees == Spec => []SubscriberSees
BY Invariance, SeesHolds, PTL

\* A filter on the value of an indexed field, padded as the documentation
\* says, finds the emissions with that value and no other: of every width, of
\* either sign, for raw bytes and for booleans.
THEOREM FilterAlwaysExact == Spec => []FilterExact
BY Invariance, FilterHolds, PTL

\* A declaration that lower_event lets through never has more topics than
\* emit_event of Rust and Emit of Go accept: no emission kills its frame.
THEOREM EmissionsGoOn == Spec => EmitGoesOn
<1>1. ASSUME IInv, [Next]_vars
      PROVE  [Len(stack') < Len(stack) =>
                \A ev \in events : \A values \in ValuesOf(ev) : ~ Emit(ev, values)]_vars
  BY <1>1, GoesOn
<1> QED
  BY <1>1, Invariance, PTL DEF Spec, EmitGoesOn
=============================================================================
