--------------------------- MODULE ReleaseProofs ---------------------------
(***************************************************************************)
(* What is true of a release at every moment, for any number of commits,   *)
(* versions, workflow runs and hiccups.                                    *)
(***************************************************************************)
EXTENDS Release, TLAPS

CratesOut(v) == \A p \in Pkg \ {"npm"} : reg[p][v] # None

\* What a run has done, it has done from its own commit; and before the check
\* it has done nothing.
Fresh(x) == x.crate = 1 /\ x.rust = "wait" /\ x.npm = "wait" /\ x.go = "wait"
RunInv(r) ==
  LET x == run[r]
  IN  /\ x.check # "ok" => Fresh(x)
      /\ x.check = "ok" => x.ref \in Good
      /\ x.rust = "ok" => x.crate = 5
      /\ \A k \in 1 .. 4 : k < x.crate => reg[Crates[k]][CrateVersion[x.ref]] = x.ref
      /\ x.npm = "ok" => reg["npm"][NpmVersion[x.ref]] = x.ref
      /\ x.go = "ok" => gotag[x.tag] = x.ref

\* The script works through the crates of a checked commit.
ScriptWorks == script.pc \in {"rust", "npm", "go", "push"}
ScriptInv ==
  /\ script.pc # "idle" => script.tree \in Commit
  /\ script.pc = "check" => script.crate = 1
  /\ ScriptWorks => script.tree \in Accepted
  /\ ScriptWorks =>
       \A k \in 1 .. 4 : k < script.crate => reg[Crates[k]][CrateVersion[script.tree]] = script.tree
  /\ script.pc \in {"npm", "go", "push"} => script.crate = 5

\* A tag that is only in the clone comes from a push that failed, after the
\* crates were out; a script that has published a crate meets none.
CloneInv ==
  /\ \A v \in Version : clonetag[v] # None => gotag[v] # None \/ CratesOut(v)
  /\ script.pc \in {"rust", "npm", "go"} /\ script.crate > 1 =>
       LET v == CrateVersion[script.tree] IN clonetag[v] # None => gotag[v] # None

\* What is out.
OutOk == HostNeedsMacros /\ OnlyChecked /\ CratesOfOneCommit

IInv ==
  /\ TypeOK /\ OutOk /\ SaidMeansPublished
  /\ \A r \in Run : RunInv(r)
  /\ ScriptInv /\ CloneInv

-----------------------------------------------------------------------------
(* The constants *)

LEMMA CommitFacts ==
  /\ None \notin Commit /\ Ref = Commit \cup {None}
  /\ Good \subseteq Commit /\ Accepted \subseteq Commit
  /\ \A c \in Commit : CrateVersion[c] \in Version /\ NpmVersion[c] \in Version
BY ReleaseAssumption DEF None, Commit, Ref, Good, Accepted

\* What the matrix passes, the script accepts: its steps are among the matrix's.
LEMMA CheckedFacts ==
  /\ Good \subseteq Checked
  /\ script.tree # None => Checked = Accepted
BY DEF Checked, Good, Accepted, Passes, ScriptSteps

\* The script, once used, has been used.
Used == script.tree # None => script'.tree # None

LEMMA CheckedGrows ==
  ASSUME Used
  PROVE  Checked \subseteq Checked'
BY DEF Used, Checked, Good, Accepted, Passes, ScriptSteps

LEMMA CrateFacts ==
  /\ Crates[1] = "entry-macros" /\ Crates[2] = "storage-macros"
  /\ Crates[3] = "events-macros" /\ Crates[4] = "host"
  /\ Len(Crates) = 4 /\ DOMAIN Crates = 1 .. 4
  /\ \A k \in 1 .. 4 : Crates[k] \in Pkg \ {"npm"}
  /\ \A p \in Pkg \ {"npm"} : \E k \in 1 .. 4 : Crates[k] = p
BY DEF Crates, Pkg

-----------------------------------------------------------------------------
(* The registries: what is there stays, what is new comes from the commit  *)

\* An upload changes one version of one package, which was not there.
LEMMA UploadEffect ==
  ASSUME TypeOK, NEW p \in Pkg, NEW c \in Commit, NEW ok \in BOOLEAN, Upload(p, c, ok)
  PROVE  /\ reg' \in [Pkg -> Tags] /\ hiccups' \in 0 .. MaxHiccup
         /\ \A q \in Pkg, w \in Version :
              reg'[q][w] # reg[q][w] =>
                /\ q = p /\ w = ManifestVersion(p, c)
                /\ reg[q][w] = None /\ reg'[q][w] = c
         /\ ok => reg[p][ManifestVersion(p, c)] = None
                  /\ reg'[p][ManifestVersion(p, c)] = c
<1> DEFINE v == ManifestVersion(p, c)  landed == [reg EXCEPT ![p][v] = c]
<1>1. v \in Version /\ c \in Ref
  BY CommitFacts DEF ManifestVersion
<1>2. reg \in [Pkg -> Tags] /\ hiccups \in 0 .. MaxHiccup /\ MaxHiccup \in Nat
  BY ReleaseAssumption DEF TypeOK
<1>3. \/ reg[p][v] = None /\ ok /\ reg' = landed /\ UNCHANGED hiccups
      \/ reg[p][v] # None /\ ~ ok /\ UNCHANGED <<reg, hiccups>>
      \/ /\ hiccups > 0 /\ ~ ok /\ hiccups' = hiccups - 1
         /\ reg' \in {reg, IF reg[p][v] = None THEN landed ELSE reg}
  BY DEF Upload
<1> HIDE DEF v
<1>4. landed \in [Pkg -> Tags] /\ landed[p][v] = c
      /\ \A q \in Pkg, w \in Version : q # p \/ w # v => landed[q][w] = reg[q][w]
  <2>1. reg[p] \in [Version -> Ref]
    BY <1>2 DEF Tags
  <2>2. [reg[p] EXCEPT ![v] = c] \in Tags
    BY <2>1, <1>1 DEF Tags
  <2>3. landed = [reg EXCEPT ![p] = [reg[p] EXCEPT ![v] = c]]
    OBVIOUS
  <2> QED BY <2>1, <2>2, <2>3, <1>1, <1>2
<1> HIDE DEF landed
<1>5. hiccups' \in 0 .. MaxHiccup
  BY <1>2, <1>3
<1>6. reg' = reg \/ (reg' = landed /\ reg[p][v] = None)
  BY <1>3
<1>7. \A q \in Pkg, w \in Version :
        reg'[q][w] # reg[q][w] => q = p /\ w = v /\ reg[q][w] = None /\ reg'[q][w] = c
  BY <1>4, <1>6
<1>8. ok => reg[p][v] = None /\ reg'[p][v] = c
  BY <1>3, <1>4
<1> QED BY <1>2, <1>4, <1>5, <1>6, <1>7, <1>8 DEF v

\* So does a push of a tag.
LEMMA PushEffect ==
  ASSUME TypeOK, NEW v \in Version, NEW c \in Commit, NEW ok \in BOOLEAN,
         PushGoTag(v, c, ok)
  PROVE  /\ gotag' \in Tags /\ hiccups' \in 0 .. MaxHiccup
         /\ \A w \in Version :
              gotag'[w] # gotag[w] => w = v /\ gotag[w] = None /\ gotag'[w] = c
         /\ ok => gotag'[v] = c
<1>1. gotag \in [Version -> Ref] /\ hiccups \in 0 .. MaxHiccup /\ MaxHiccup \in Nat /\ c \in Ref
  BY ReleaseAssumption, CommitFacts DEF TypeOK, Tags
<1> QED BY <1>1 DEF PushGoTag, Tags

\* Nothing that is out changes.
Grows ==
  /\ \A q \in Pkg, w \in Version : reg[q][w] # None => reg'[q][w] = reg[q][w]
  /\ \A w \in Version : gotag[w] # None => gotag'[w] = gotag[w]

LEMMA CratesKept ==
  ASSUME Grows, NEW v \in Version, CratesOut(v)
  PROVE  CratesOut(v)'
BY DEF Grows, CratesOut

LEMMA RunKept ==
  ASSUME Grows, NEW r \in Run, RunInv(r), run[r] \in RunType, run'[r] = run[r]
  PROVE  RunInv(r)'
<1> DEFINE x == run[r]
<1>1. CASE x.check # "ok"
  BY <1>1 DEF RunInv, Fresh
<1>2. CASE x.check = "ok"
  <2>1. x.ref \in Commit /\ x.ref # None /\ x.tag \in Version
        /\ CrateVersion[x.ref] \in Version /\ NpmVersion[x.ref] \in Version
    BY <1>2, CommitFacts DEF RunInv, RunType
  <2>2. \A k \in 1 .. 4 : k < x.crate => reg'[Crates[k]][CrateVersion[x.ref]] = x.ref
    BY <2>1, CrateFacts DEF RunInv, Grows
  <2>3. x.npm = "ok" => reg'["npm"][NpmVersion[x.ref]] = x.ref
    BY <2>1 DEF RunInv, Grows, Pkg
  <2>4. x.go = "ok" => gotag'[x.tag] = x.ref
    BY <2>1 DEF RunInv, Grows
  <2> QED BY <1>2, <2>2, <2>3, <2>4 DEF RunInv
<1> QED BY <1>1, <1>2

LEMMA ScriptKept ==
  ASSUME Grows, ScriptInv, UNCHANGED script
  PROVE  ScriptInv'
<1>1. CASE ScriptWorks
  <2>1. script.tree \in Commit /\ script.tree # None /\ CrateVersion[script.tree] \in Version
    BY <1>1, CommitFacts DEF ScriptInv
  <2>2. \A k \in 1 .. 4 : k < script.crate => reg'[Crates[k]][CrateVersion[script.tree]] = script.tree
    BY <1>1, <2>1, CrateFacts DEF ScriptInv, Grows
  <2> QED BY <2>2 DEF ScriptInv, ScriptWorks
<1>2. CASE ~ ScriptWorks
  BY <1>2 DEF ScriptInv, ScriptWorks
<1> QED BY <1>1, <1>2

LEMMA CloneKept ==
  ASSUME Grows, CloneInv, ScriptInv, UNCHANGED <<script, clonetag>>
  PROVE  CloneInv'
<1>1. \A v \in Version : clonetag'[v] # None => gotag'[v] # None \/ CratesOut(v)'
  BY CratesKept DEF CloneInv, Grows
<1>2. script.pc \in {"rust", "npm", "go"} => CrateVersion[script.tree] \in Version
  BY CommitFacts DEF ScriptInv, ScriptWorks
<1> QED BY <1>1, <1>2 DEF CloneInv, Grows

LEMMA SaidKept ==
  ASSUME Grows, SaidMeansPublished, said \subseteq Version, UNCHANGED said
  PROVE  SaidMeansPublished'
BY DEF Grows, SaidMeansPublished

LEMMA OrderKept ==
  ASSUME Grows, HostNeedsMacros,
         \A w \in Version : reg'["host"][w] # None => reg["host"][w] # None
  PROVE  HostNeedsMacros'
BY DEF Grows, HostNeedsMacros

-----------------------------------------------------------------------------
(* An upload, whoever makes it *)

\* From a checked commit, of a crate whose predecessors are out, or of the
\* AssemblyScript package.
LEMMA UploadKeeps ==
  ASSUME IInv, NEW p \in Pkg, NEW c \in Checked, NEW ok \in BOOLEAN, Upload(p, c, ok),
         UNCHANGED gotag, Used,
         p = "host" => \A q \in Pkg \ {"npm", "host"} : reg[q][CrateVersion[c]] # None,
         p \notin {"npm", Crates[1]} => reg[Crates[1]][CrateVersion[c]] = c
  PROVE  Grows /\ OutOk'
<1>1. c \in Commit /\ c # None
  BY CommitFacts DEF Checked
<1>2. TypeOK /\ HostNeedsMacros /\ OnlyChecked /\ CratesOfOneCommit
  BY DEF IInv, OutOk
<1>3. \A q \in Pkg, w \in Version :
        reg'[q][w] # reg[q][w] =>
          q = p /\ w = ManifestVersion(p, c) /\ reg[q][w] = None /\ reg'[q][w] = c
  BY <1>1, <1>2, UploadEffect
<1>4. Grows
  BY <1>3 DEF Grows
<1>5. OnlyChecked'
  BY <1>2, <1>3, CheckedGrows DEF OnlyChecked
<1>6. HostNeedsMacros'
  <2>1. CASE p # "host"
    <3>1. \A w \in Version : reg'["host"][w] # None => reg["host"][w] # None
      BY <2>1, <1>3 DEF Pkg
    <3> QED BY <3>1, <1>2, <1>4, OrderKept
  <2>2. CASE p = "host"
    <3> SUFFICES ASSUME NEW v \in Version, reg'["host"][v] # None,
                        NEW q \in Pkg \ {"npm"}
                 PROVE  reg'[q][v] # None
      BY DEF HostNeedsMacros
    <3>1. CASE reg["host"][v] # None
      BY <3>1, <1>2, <1>4 DEF HostNeedsMacros, Grows
    <3>2. CASE reg["host"][v] = None
      <4>1. v = CrateVersion[c]
        BY <3>2, <1>3, <2>2 DEF Pkg, ManifestVersion
      <4>2. CASE q = "host"
        BY <4>2
      <4>3. CASE q # "host"
        BY <4>1, <4>3, <2>2, <1>4 DEF Grows
      <4> QED BY <4>2, <4>3
    <3> QED BY <3>1, <3>2
  <2> QED BY <2>1, <2>2
<1>7. CratesOfOneCommit'
  <2> SUFFICES ASSUME NEW v \in Version, NEW q \in Pkg \ {"npm"}
               PROVE  reg'[q][v] \in {None, reg'[Crates[1]][v]}
    BY DEF CratesOfOneCommit
  <2>1. Crates[1] \in Pkg \ {"npm"} /\ reg[q][v] \in {None, reg[Crates[1]][v]}
    BY <1>2, CrateFacts DEF CratesOfOneCommit
  <2>2. CASE reg'[q][v] = reg[q][v]
    BY <2>1, <2>2, <1>4 DEF Grows
  <2>3. CASE reg'[q][v] # reg[q][v]
    <3>1. q = p /\ v = CrateVersion[c] /\ reg'[q][v] = c
      BY <2>3, <1>3 DEF ManifestVersion
    <3>2. CASE q = Crates[1]
      BY <3>2
    <3>3. CASE q # Crates[1]
      BY <3>1, <3>3, <2>1, <1>1, <1>4 DEF Grows
    <3> QED BY <3>2, <3>3
  <2> QED BY <2>2, <2>3
<1> QED BY <1>4, <1>5, <1>6, <1>7 DEF OutOk

\* A push of a tag of a checked commit.
LEMMA PushKeeps ==
  ASSUME IInv, NEW v \in Version, NEW c \in Checked, NEW ok \in BOOLEAN,
         PushGoTag(v, c, ok), UNCHANGED reg, Used
  PROVE  Grows /\ OutOk'
<1>1. c \in Commit /\ c # None
  BY CommitFacts DEF Checked
<1>2. TypeOK /\ HostNeedsMacros /\ OnlyChecked /\ CratesOfOneCommit
  BY DEF IInv, OutOk
<1>3. \A w \in Version : gotag'[w] # gotag[w] => w = v /\ gotag[w] = None /\ gotag'[w] = c
  BY <1>1, <1>2, PushEffect
<1>4. Grows
  BY <1>3 DEF Grows
<1>5. OnlyChecked'
  BY <1>2, <1>3, CheckedGrows DEF OnlyChecked
<1>6. HostNeedsMacros' /\ CratesOfOneCommit'
  BY <1>2 DEF HostNeedsMacros, CratesOfOneCommit
<1> QED BY <1>4, <1>5, <1>6 DEF OutOk

\* Neither.
LEMMA NothingOut ==
  ASSUME IInv, UNCHANGED <<reg, gotag>>, Used
  PROVE  Grows /\ OutOk'
<1>1. OnlyChecked'
  BY CheckedGrows DEF IInv, OutOk, OnlyChecked
<1> QED BY <1>1 DEF IInv, OutOk, Grows, HostNeedsMacros, CratesOfOneCommit

-----------------------------------------------------------------------------
(* A step of one run leaves the others and the script as they are, and the *)
(* other way round.                                                        *)

LEMMA RunStep ==
  ASSUME IInv, NEW r \in Run, NEW x \in RunType, run' = [run EXCEPT ![r] = x],
         UNCHANGED <<script, clonetag, said>>,
         Grows, OutOk', TypeOK', RunInv(r)'
  PROVE  IInv'
<1>1. run \in [Run -> RunType] /\ said \subseteq Version
  BY DEF IInv, TypeOK
<1>2. \A s \in Run : RunInv(s)'
  <2> TAKE s \in Run
  <2>1. CASE s = r
    BY <2>1
  <2>2. CASE s # r
    BY <2>2, <1>1, RunKept DEF IInv
  <2> QED BY <2>1, <2>2
<1>3. ScriptInv' /\ CloneInv' /\ SaidMeansPublished'
  BY <1>1, ScriptKept, CloneKept, SaidKept DEF IInv
<1> QED BY <1>2, <1>3 DEF IInv

LEMMA ScriptStep ==
  ASSUME IInv, UNCHANGED run,
         Grows, OutOk', TypeOK',
         ScriptInv', CloneInv', SaidMeansPublished'
  PROVE  IInv'
<1>1. \A s \in Run : RunInv(s)'
  BY RunKept DEF IInv, TypeOK
<1> QED BY <1>1 DEF IInv

\* A run at work is on a checked commit.
LEMMA AtWork ==
  ASSUME IInv, NEW r \in Run, run[r].check = "ok"
  PROVE  /\ run[r] \in RunType /\ run[r].ref \in Good /\ run[r].ref \in Commit
         /\ run[r].tag \in Version
         /\ CrateVersion[run[r].ref] \in Version /\ NpmVersion[run[r].ref] \in Version
<1>1. run[r] \in RunType /\ RunInv(r)
  BY DEF IInv, TypeOK
<1> QED BY <1>1, CommitFacts DEF RunInv, RunType

-----------------------------------------------------------------------------
(* The actions *)

\* The first state, before any run.
LEMMA Initially == Init => IInv
<1> SUFFICES ASSUME Init PROVE IInv
  OBVIOUS
<1>1. PICK v \in Version : run = [r \in Run |-> [NewRun(None, v) EXCEPT !.check = "none"]]
  BY DEF Init
<1>2. [NewRun(None, v) EXCEPT !.check = "none"] =
        [ref |-> None, tag |-> v, check |-> "none", crate |-> 1,
         rust |-> "wait", npm |-> "wait", go |-> "wait"]
  BY DEF NewRun
<1>3. run \in [Run -> RunType] /\ \A r \in Run : Fresh(run[r]) /\ run[r].check = "none"
  BY <1>1, <1>2, CommitFacts DEF RunType, JobEnd, Fresh
<1>4. \A q \in Pkg, w \in Version : reg[q][w] = None
  BY DEF Init, NoTags
<1>5. \A w \in Version : gotag[w] = None /\ clonetag[w] = None
  BY DEF Init, NoTags
<1>6. TypeOK
  <2>1. NoTags \in Tags
    BY CommitFacts DEF NoTags, Tags
  <2>2. head \in Commit
    BY ReleaseAssumption DEF Init, Commit
  <2>3. script \in ScriptType
    BY CommitFacts DEF Init, AtRest, ScriptType
  <2>4. hiccups \in 0 .. MaxHiccup
    BY ReleaseAssumption DEF Init
  <2>5. \A r \in Run : run[r].crate \in DOMAIN Crates
    BY <1>3, CrateFacts DEF Fresh
  <2> QED BY <1>3, <2>1, <2>2, <2>3, <2>4, <2>5 DEF Init, TypeOK, AtRest
<1>7. OutOk /\ SaidMeansPublished
  BY <1>4, <1>5 DEF Init, OutOk, HostNeedsMacros, OnlyChecked, CratesOfOneCommit,
     SaidMeansPublished, Pkg
<1>8. \A r \in Run : RunInv(r)
  BY <1>3 DEF RunInv, Fresh
<1>9. ScriptInv /\ CloneInv
  BY <1>5 DEF Init, AtRest, ScriptInv, ScriptWorks, CloneInv
<1> QED BY <1>6, <1>7, <1>8, <1>9 DEF IInv

\* main moves on.
LEMMA MergeStep == IInv /\ Merge => IInv'
<1> SUFFICES ASSUME IInv, Merge PROVE IInv'
  OBVIOUS
<1>1. UNCHANGED <<vtag, gotag, reg, run, script, clonetag, said, hiccups>>
  BY DEF Merge
<1>2. head' \in Commit
  BY ReleaseAssumption DEF IInv, TypeOK, Merge, Commit
<1>3. TypeOK'
  BY <1>1, <1>2 DEF IInv, TypeOK
<1>4. Grows /\ OutOk'
  BY <1>1, NothingOut DEF Used
<1>5. ScriptInv' /\ CloneInv' /\ SaidMeansPublished'
  BY <1>1, <1>4, ScriptKept, CloneKept, SaidKept DEF IInv, TypeOK
<1> QED BY <1>1, <1>3, <1>4, <1>5, ScriptStep

\* A run that starts has done nothing.
LEMMA StartStep ==
  ASSUME IInv, NEW r \in Run, NEW v \in Version, run' = [run EXCEPT ![r] = NewRun(head, v)],
         vtag' \in Tags,
         UNCHANGED <<head, gotag, reg, script, clonetag, said, hiccups>>
  PROVE  IInv'
<1> DEFINE x == NewRun(head, v)
<1>1. run \in [Run -> RunType] /\ head \in Ref
  BY CommitFacts DEF IInv, TypeOK
<1>2. x \in RunType /\ Fresh(x) /\ x.check = "wait"
  BY <1>1 DEF NewRun, RunType, JobEnd, Fresh
<1> HIDE DEF x
<1>3. run' \in [Run -> RunType] /\ run'[r] = x /\ \A s \in Run \ {r} : run'[s] = run[s]
  BY <1>1, <1>2 DEF x
<1>4. TypeOK'
  <2>1. \A s \in Run : run'[s].rust = "wait" => run'[s].crate \in DOMAIN Crates
    BY <1>2, <1>3, CrateFacts DEF IInv, TypeOK, Fresh
  <2> QED BY <1>3, <2>1 DEF IInv, TypeOK
<1>5. RunInv(r)'
  BY <1>2, <1>3 DEF RunInv, Fresh
<1>6. Grows /\ OutOk'
  BY NothingOut DEF Used
<1> QED BY <1>2, <1>4, <1>5, <1>6, RunStep DEF x

LEMMA PushTagStep ==
  ASSUME NEW r \in Run, NEW v \in Version PROVE IInv /\ PushTag(r, v) => IInv'
<1> SUFFICES ASSUME IInv, PushTag(r, v) PROVE IInv'
  OBVIOUS
<1>1. vtag' \in Tags
  BY CommitFacts DEF PushTag, IInv, TypeOK, Tags
<1> QED BY <1>1, StartStep DEF PushTag

LEMMA DispatchStep ==
  ASSUME NEW r \in Run, NEW v \in Version PROVE IInv /\ Dispatch(r, v) => IInv'
<1> SUFFICES ASSUME IInv, Dispatch(r, v) PROVE IInv'
  OBVIOUS
<1>1. vtag' \in Tags
  BY DEF Dispatch, IInv, TypeOK
<1> QED BY <1>1, StartStep DEF Dispatch

\* The check lets a run work only on a commit the matrix passes.
LEMMA CheckStep ==
  ASSUME NEW r \in Run PROVE IInv /\ Check(r) => IInv'
<1> SUFFICES ASSUME IInv, Check(r) PROVE IInv'
  OBVIOUS
<1>1. PICK c \in {"ok", "fail"} :
        /\ run' = [run EXCEPT ![r].check = c]
        /\ c = "ok" => run[r].ref \in Good
        /\ hiccups' = hiccups \/ (hiccups > 0 /\ hiccups' = hiccups - 1)
  BY DEF Check
<1> DEFINE x == [run[r] EXCEPT !.check = c]
<1>2. run \in [Run -> RunType] /\ run[r] \in RunType /\ RunInv(r) /\ run[r].check = "wait"
  BY DEF IInv, TypeOK, Check
<1>3. x \in RunType /\ Fresh(x) /\ x.check = c /\ x.ref = run[r].ref
  BY <1>2 DEF RunType, JobEnd, Fresh, RunInv
<1>4. run' = [run EXCEPT ![r] = x]
  BY <1>1
<1> HIDE DEF x
<1>5. run' \in [Run -> RunType] /\ run'[r] = x /\ \A s \in Run \ {r} : run'[s] = run[s]
  BY <1>2, <1>3, <1>4
<1>6. UNCHANGED <<head, vtag, gotag, reg, script, clonetag, said>>
  BY DEF Check
<1>7. TypeOK'
  <2>1. \A s \in Run : run'[s].rust = "wait" => run'[s].crate \in DOMAIN Crates
    BY <1>3, <1>5, CrateFacts DEF IInv, TypeOK, Fresh
  <2>2. hiccups' \in 0 .. MaxHiccup
    BY <1>1, ReleaseAssumption DEF IInv, TypeOK
  <2> QED BY <1>5, <1>6, <2>1, <2>2 DEF IInv, TypeOK
<1>8. RunInv(r)'
  <2>1. x.check = "ok" => x.ref \in Good
    BY <1>1, <1>3
  <2>2. \A k \in 1 .. 4 : ~ (k < x.crate)
    BY <1>3 DEF Fresh
  <2> QED BY <1>3, <1>5, <2>1, <2>2 DEF RunInv, Fresh
<1>9. Grows /\ OutOk'
  BY <1>6, NothingOut DEF Used
<1> QED BY <1>3, <1>4, <1>6, <1>7, <1>8, <1>9, RunStep

\* The crates in order: the host's turn comes when the others are out.
LEMMA PublishCrateStep ==
  ASSUME NEW r \in Run PROVE IInv /\ PublishCrate(r) => IInv'
<1> SUFFICES ASSUME IInv, PublishCrate(r) PROVE IInv'
  OBVIOUS
<1> DEFINE k == run[r].crate  c == run[r].ref
<1>1. PICK ok \in BOOLEAN :
        /\ Upload(Crates[k], c, ok)
        /\ run' = [run EXCEPT
             ![r].crate = IF ok THEN k + 1 ELSE k,
             ![r].rust = IF ~ ok THEN "fail" ELSE IF k = Len(Crates) THEN "ok" ELSE "wait"]
  BY DEF PublishCrate
<1>2. run[r].check = "ok" /\ run[r].rust = "wait"
      /\ UNCHANGED <<head, vtag, gotag, script, clonetag, said>>
  BY DEF PublishCrate, Gated
<1>3. run \in [Run -> RunType] /\ run[r] \in RunType /\ RunInv(r) /\ k \in 1 .. 4
  BY <1>2, CrateFacts DEF IInv, TypeOK
<1>4. c \in Good /\ c \in Commit /\ c # None /\ CrateVersion[c] \in Version
      /\ NpmVersion[c] \in Version /\ run[r].tag \in Version
  BY <1>2, AtWork, CommitFacts
<1> DEFINE m == IF ok THEN k + 1 ELSE k
           e == IF ~ ok THEN "fail" ELSE IF k = 4 THEN "ok" ELSE "wait"
           x == [run[r] EXCEPT !.crate = m, !.rust = e]
<1>5. run' = [run EXCEPT ![r] = x]
  BY <1>1, CrateFacts
<1>14. m \in 1 .. 5 /\ e \in JobEnd
  BY <1>3 DEF JobEnd
<1>6. /\ x \in RunType /\ x.ref = c /\ x.tag = run[r].tag /\ x.check = "ok"
      /\ x.npm = run[r].npm /\ x.go = run[r].go /\ x.crate = m /\ x.rust = e
  <2> HIDE DEF m, e
  <2> QED BY <1>2, <1>3, <1>14 DEF RunType
<1> HIDE DEF x, k, c
<1>7. run' \in [Run -> RunType] /\ run'[r] = x /\ \A s \in Run \ {r} : run'[s] = run[s]
  BY <1>3, <1>5, <1>6
<1>8. Crates[k] \in Pkg /\ Crates[k] # "npm"
  BY <1>3, CrateFacts
<1>9. /\ reg' \in [Pkg -> Tags] /\ hiccups' \in 0 .. MaxHiccup
      /\ ok => reg'[Crates[k]][CrateVersion[c]] = c
  BY <1>1, <1>4, <1>8, UploadEffect DEF IInv, ManifestVersion
<1>10. \A j \in 1 .. 4 : j < k => reg[Crates[j]][CrateVersion[c]] = c
  BY <1>2, <1>3 DEF RunInv, k, c
<1>11. Grows /\ OutOk'
  <2>1. ASSUME Crates[k] = "host" PROVE \A q \in Pkg \ {"npm", "host"} : reg[q][CrateVersion[c]] # None
    <3>1. k = 4
      BY <2>1, <1>3, CrateFacts
    <3> TAKE q \in Pkg \ {"npm", "host"}
    <3>2. PICK j \in 1 .. 4 : Crates[j] = q
      BY CrateFacts
    <3>3. j # 4
      BY <3>2, CrateFacts
    <3> QED BY <3>1, <3>2, <3>3, <1>4, <1>10
  <2>2. Crates[k] # Crates[1] => reg[Crates[1]][CrateVersion[c]] = c
    BY <1>3, <1>10 DEF k
  <2>3. c \in Checked /\ Used
    BY <1>2, <1>4, CheckedFacts DEF Used
  <2> QED BY <1>1, <1>2, <1>8, <2>1, <2>2, <2>3, UploadKeeps
<1>12. TypeOK'
  <2>1. \A s \in Run : run'[s].rust = "wait" => run'[s].crate \in DOMAIN Crates
    BY <1>3, <1>6, <1>7, CrateFacts DEF IInv, TypeOK
  <2> QED BY <1>2, <1>7, <1>9, <2>1 DEF IInv, TypeOK
<1>13. RunInv(r)'
  <2>1. \A j \in 1 .. 4 : j < x.crate => reg'[Crates[j]][CrateVersion[c]] = c
    BY <1>3, <1>4, <1>6, <1>9, <1>10, <1>11, CrateFacts DEF Grows
  <2>2. x.npm = "ok" => reg'["npm"][NpmVersion[c]] = c
    BY <1>2, <1>3, <1>4, <1>6, <1>11 DEF RunInv, Grows, Pkg, c
  <2>3. x.go = "ok" => gotag'[x.tag] = c
    BY <1>2, <1>3, <1>6 DEF RunInv, c
  <2>4. x.rust = "ok" => x.crate = 5
    BY <1>6
  <2> QED BY <1>4, <1>6, <1>7, <2>1, <2>2, <2>3, <2>4 DEF RunInv
<1> QED BY <1>2, <1>5, <1>6, <1>11, <1>12, <1>13, RunStep

\* The AssemblyScript package.
LEMMA PublishNpmStep ==
  ASSUME NEW r \in Run PROVE IInv /\ PublishNpm(r) => IInv'
<1> SUFFICES ASSUME IInv, PublishNpm(r) PROVE IInv'
  OBVIOUS
<1> DEFINE c == run[r].ref
<1>1. PICK ok \in BOOLEAN :
        /\ Upload("npm", c, ok)
        /\ run' = [run EXCEPT ![r].npm = IF ok THEN "ok" ELSE "fail"]
  BY DEF PublishNpm
<1>2. run[r].check = "ok"
      /\ UNCHANGED <<head, vtag, gotag, script, clonetag, said>>
  BY DEF PublishNpm, Gated
<1>3. run \in [Run -> RunType] /\ run[r] \in RunType /\ RunInv(r) /\ "npm" \in Pkg
  BY DEF IInv, TypeOK, Pkg
<1>4. c \in Good /\ c \in Commit /\ c # None /\ CrateVersion[c] \in Version
      /\ NpmVersion[c] \in Version
  BY <1>2, AtWork, CommitFacts
<1> DEFINE x == [run[r] EXCEPT !.npm = IF ok THEN "ok" ELSE "fail"]
<1>5. run' = [run EXCEPT ![r] = x]
  BY <1>1
<1>6. /\ x \in RunType /\ x.ref = c /\ x.tag = run[r].tag /\ x.check = "ok"
      /\ x.crate = run[r].crate /\ x.rust = run[r].rust /\ x.go = run[r].go
      /\ x.npm = IF ok THEN "ok" ELSE "fail"
  BY <1>2, <1>3 DEF RunType, JobEnd
<1> HIDE DEF x, c
<1>7. run' \in [Run -> RunType] /\ run'[r] = x /\ \A s \in Run \ {r} : run'[s] = run[s]
  BY <1>3, <1>5, <1>6
<1>8. /\ reg' \in [Pkg -> Tags] /\ hiccups' \in 0 .. MaxHiccup
      /\ ok => reg'["npm"][NpmVersion[c]] = c
  BY <1>1, <1>3, <1>4, UploadEffect DEF IInv, ManifestVersion
<1>9. Grows /\ OutOk'
  <2>1. c \in Checked /\ Used
    BY <1>2, <1>4, CheckedFacts DEF Used
  <2> QED BY <1>1, <1>2, <1>3, <2>1, UploadKeeps
<1>10. TypeOK'
  <2>1. \A s \in Run : run'[s].rust = "wait" => run'[s].crate \in DOMAIN Crates
    BY <1>6, <1>7 DEF IInv, TypeOK
  <2> QED BY <1>2, <1>7, <1>8, <2>1 DEF IInv, TypeOK
<1>11. RunInv(r)'
  <2>1. \A j \in 1 .. 4 : j < x.crate => reg'[Crates[j]][CrateVersion[c]] = c
    BY <1>2, <1>3, <1>4, <1>6, <1>9, CrateFacts DEF RunInv, Grows, c
  <2>2. x.go = "ok" => gotag'[x.tag] = c
    BY <1>2, <1>3, <1>6 DEF RunInv, c
  <2>3. x.npm = "ok" => reg'["npm"][NpmVersion[c]] = c
    BY <1>6, <1>8
  <2>4. x.rust = "ok" => x.crate = 5
    BY <1>3, <1>6 DEF RunInv
  <2> QED BY <1>4, <1>6, <1>7, <2>1, <2>2, <2>3, <2>4 DEF RunInv
<1> QED BY <1>2, <1>5, <1>6, <1>9, <1>10, <1>11, RunStep

\* The Go tag, made in the run's clone and pushed.
LEMMA TagGoStep ==
  ASSUME NEW r \in Run PROVE IInv /\ TagGo(r) => IInv'
<1> SUFFICES ASSUME IInv, TagGo(r) PROVE IInv'
  OBVIOUS
<1>1. PICK g \in {"tagged", "fail"} : run' = [run EXCEPT ![r].go = g]
  BY DEF TagGo
<1>2. run[r].check = "ok"
      /\ UNCHANGED <<head, vtag, gotag, reg, script, clonetag, said, hiccups>>
  BY DEF TagGo, Gated
<1>3. run \in [Run -> RunType] /\ run[r] \in RunType /\ RunInv(r)
  BY DEF IInv, TypeOK
<1> DEFINE x == [run[r] EXCEPT !.go = g]
<1>4. run' = [run EXCEPT ![r] = x]
  BY <1>1
<1>5. /\ x \in RunType /\ x.ref = run[r].ref /\ x.tag = run[r].tag /\ x.check = "ok"
      /\ x.crate = run[r].crate /\ x.rust = run[r].rust /\ x.npm = run[r].npm
      /\ x.go = g
  BY <1>2, <1>3 DEF RunType, JobEnd
<1> HIDE DEF x
<1>6. run' \in [Run -> RunType] /\ run'[r] = x /\ \A s \in Run \ {r} : run'[s] = run[s]
  BY <1>3, <1>4, <1>5
<1>7. TypeOK'
  <2>1. \A s \in Run : run'[s].rust = "wait" => run'[s].crate \in DOMAIN Crates
    BY <1>5, <1>6 DEF IInv, TypeOK
  <2> QED BY <1>2, <1>6, <2>1 DEF IInv, TypeOK
<1>8. RunInv(r)'
  BY <1>2, <1>3, <1>5, <1>6 DEF RunInv
<1>9. Grows /\ OutOk'
  BY <1>2, NothingOut DEF Used
<1> QED BY <1>2, <1>4, <1>5, <1>7, <1>8, <1>9, RunStep

LEMMA PushGoStep ==
  ASSUME NEW r \in Run PROVE IInv /\ PushGo(r) => IInv'
<1> SUFFICES ASSUME IInv, PushGo(r) PROVE IInv'
  OBVIOUS
<1> DEFINE c == run[r].ref  v == run[r].tag
<1>1. PICK ok \in BOOLEAN :
        /\ PushGoTag(v, c, ok)
        /\ run' = [run EXCEPT ![r].go = IF ok THEN "ok" ELSE "fail"]
  BY DEF PushGo
<1>2. run[r].go = "tagged" /\ UNCHANGED <<head, vtag, reg, script, clonetag, said>>
  BY DEF PushGo
<1>3. run \in [Run -> RunType] /\ run[r] \in RunType /\ RunInv(r)
  BY DEF IInv, TypeOK
<1>4. run[r].check = "ok"
  BY <1>2, <1>3 DEF RunInv, Fresh
<1>5. c \in Good /\ c \in Commit /\ v \in Version
  BY <1>4, AtWork
<1> DEFINE x == [run[r] EXCEPT !.go = IF ok THEN "ok" ELSE "fail"]
<1>6. run' = [run EXCEPT ![r] = x]
  BY <1>1
<1>7. /\ x \in RunType /\ x.ref = c /\ x.tag = v /\ x.check = "ok"
      /\ x.crate = run[r].crate /\ x.rust = run[r].rust /\ x.npm = run[r].npm
      /\ x.go = IF ok THEN "ok" ELSE "fail"
  BY <1>3, <1>4 DEF RunType, JobEnd
<1> HIDE DEF x
<1>8. run' \in [Run -> RunType] /\ run'[r] = x /\ \A s \in Run \ {r} : run'[s] = run[s]
  BY <1>3, <1>6, <1>7
<1>9. gotag' \in Tags /\ hiccups' \in 0 .. MaxHiccup /\ (ok => gotag'[v] = c)
  BY <1>1, <1>5, PushEffect DEF IInv
<1>10. TypeOK'
  <2>1. \A s \in Run : run'[s].rust = "wait" => run'[s].crate \in DOMAIN Crates
    BY <1>7, <1>8 DEF IInv, TypeOK
  <2> QED BY <1>2, <1>8, <1>9, <2>1 DEF IInv, TypeOK
<1>11. RunInv(r)'
  BY <1>2, <1>3, <1>4, <1>7, <1>8, <1>9 DEF RunInv
<1>12. Grows /\ OutOk'
  BY <1>1, <1>2, <1>5, PushKeeps, CheckedFacts DEF Used
<1> QED BY <1>2, <1>6, <1>7, <1>10, <1>11, <1>12, RunStep

\* release.sh starts in a clone that has the remote's tags.
LEMMA ScriptStartStep == IInv /\ ScriptStart => IInv'
<1> SUFFICES ASSUME IInv, ScriptStart PROVE IInv'
  OBVIOUS
<1>1. /\ script' = [tree |-> head, pc |-> "check", crate |-> 1]
      /\ clonetag' = [v \in Version |-> Fetched(v)]
      /\ UNCHANGED <<head, vtag, gotag, reg, run, said, hiccups>>
  BY DEF ScriptStart
<1>2. TypeOK /\ CloneInv /\ SaidMeansPublished
  BY DEF IInv
<1>3. script' \in ScriptType /\ clonetag' \in Tags
  <2>1. head \in Ref
    BY <1>2, CommitFacts DEF TypeOK
  <2>2. script' \in ScriptType
    BY <1>1, <2>1 DEF ScriptType
  <2>3. clonetag' \in Tags
    BY <1>1, <1>2 DEF TypeOK, Tags, Fetched
  <2> QED BY <2>2, <2>3
<1>4. TypeOK'
  BY <1>1, <1>2, <1>3 DEF TypeOK
<1>5. Grows /\ OutOk'
  <2>1. Used
    BY <1>1, <1>2, CommitFacts DEF Used, TypeOK
  <2> QED BY <1>1, <2>1, NothingOut
<1>6. ScriptInv'
  BY <1>1, <1>2 DEF ScriptInv, ScriptWorks, TypeOK
<1>7. CloneInv'
  BY <1>1, <1>2 DEF CloneInv, Fetched, CratesOut
<1>8. SaidMeansPublished'
  BY <1>1, <1>2, <1>5, SaidKept DEF TypeOK
<1> QED BY <1>1, <1>4, <1>5, <1>6, <1>7, <1>8, ScriptStep

LEMMA ScriptCheckStep == IInv /\ ScriptCheck => IInv'
<1> SUFFICES ASSUME IInv, ScriptCheck PROVE IInv'
  OBVIOUS
<1> DEFINE s == [script EXCEPT !.pc = IF script.tree \in Accepted THEN "rust" ELSE "done"]
<1>1. /\ script.pc = "check" /\ script' = s
      /\ UNCHANGED <<head, vtag, gotag, reg, run, clonetag, said, hiccups>>
  BY DEF ScriptCheck
<1>2. TypeOK /\ ScriptInv /\ CloneInv /\ SaidMeansPublished
  BY DEF IInv
<1>3. /\ script.tree \in Commit /\ script.crate = 1 /\ script \in ScriptType
  BY <1>1, <1>2 DEF ScriptInv, TypeOK
<1>4. /\ s \in ScriptType /\ s.tree = script.tree /\ s.crate = 1
      /\ s.pc = IF script.tree \in Accepted THEN "rust" ELSE "done"
  BY <1>3 DEF ScriptType
<1> HIDE DEF s
<1>5. TypeOK'
  BY <1>1, <1>2, <1>4, CrateFacts DEF TypeOK
<1>6. Grows /\ OutOk'
  <2>1. Used
    BY <1>1, <1>4 DEF Used
  <2> QED BY <1>1, <2>1, NothingOut
<1>7. ScriptInv'
  <2>1. \A k \in 1 .. 4 : ~ (k < s.crate)
    BY <1>4
  <2> QED BY <1>1, <1>3, <1>4, <2>1 DEF ScriptInv, ScriptWorks
<1>8. CloneInv'
  <2>1. ~ (s.crate > 1)
    BY <1>4
  <2> QED BY <1>1, <1>2, <2>1 DEF CloneInv, CratesOut
<1>9. SaidMeansPublished'
  BY <1>1, <1>2, <1>6, SaidKept DEF TypeOK
<1> QED BY <1>1, <1>5, <1>6, <1>7, <1>8, <1>9, ScriptStep

\* The first crate goes through only where no failed push has left a tag.
LEMMA ScriptCrateStep == IInv /\ ScriptCrate => IInv'
<1> SUFFICES ASSUME IInv, ScriptCrate PROVE IInv'
  OBVIOUS
<1> DEFINE k == script.crate  c == script.tree
<1>1. PICK ok \in BOOLEAN :
        /\ Upload(Crates[k], c, ok)
        /\ script' = [script EXCEPT
             !.crate = IF ok THEN k + 1 ELSE k,
             !.pc = IF ~ ok THEN "done" ELSE IF k = Len(Crates) THEN "npm" ELSE "rust"]
  BY DEF ScriptCrate
<1>2. script.pc = "rust"
      /\ UNCHANGED <<head, vtag, gotag, run, clonetag, said>>
  BY DEF ScriptCrate
<1>3. TypeOK /\ ScriptInv /\ CloneInv /\ SaidMeansPublished
  BY DEF IInv
<1>4. script \in ScriptType /\ k \in 1 .. 4 /\ c \in Accepted /\ c \in Commit /\ c # None
      /\ CrateVersion[c] \in Version
  BY <1>2, <1>3, CrateFacts, CommitFacts DEF TypeOK, ScriptInv, ScriptWorks
<1> DEFINE m == IF ok THEN k + 1 ELSE k
           e == IF ~ ok THEN "done" ELSE IF k = 4 THEN "npm" ELSE "rust"
           s == [script EXCEPT !.crate = m, !.pc = e]
<1>5. script' = s
  BY <1>1, CrateFacts
<1>6. m \in 1 .. 5 /\ e \in {"done", "npm", "rust"}
  BY <1>4
<1>7. s \in ScriptType /\ s.tree = c /\ s.crate = m /\ s.pc = e
  <2> HIDE DEF m, e
  <2> QED BY <1>4, <1>6 DEF ScriptType
<1>8. \A j \in 1 .. 4 : j < k => reg[Crates[j]][CrateVersion[c]] = c
  BY <1>2, <1>3 DEF ScriptInv, ScriptWorks
<1>9. k > 1 => (clonetag[CrateVersion[c]] # None => gotag[CrateVersion[c]] # None)
  BY <1>2, <1>3 DEF CloneInv
<1> HIDE DEF s, k, c
<1>10. Crates[k] \in Pkg /\ Crates[k] # "npm"
  BY <1>4, CrateFacts
<1>11. /\ reg' \in [Pkg -> Tags] /\ hiccups' \in 0 .. MaxHiccup
       /\ ok => reg[Crates[k]][CrateVersion[c]] = None /\ reg'[Crates[k]][CrateVersion[c]] = c
  BY <1>1, <1>3, <1>4, <1>10, UploadEffect DEF ManifestVersion
<1>12. Grows /\ OutOk'
  <2>1. ASSUME Crates[k] = "host" PROVE \A q \in Pkg \ {"npm", "host"} : reg[q][CrateVersion[c]] # None
    <3>1. k = 4
      BY <2>1, <1>4, CrateFacts
    <3> TAKE q \in Pkg \ {"npm", "host"}
    <3>2. PICK j \in 1 .. 4 : Crates[j] = q
      BY CrateFacts
    <3>3. j # 4
      BY <3>2, CrateFacts
    <3> QED BY <3>1, <3>2, <3>3, <1>4, <1>8
  <2>2. Crates[k] # Crates[1] => reg[Crates[1]][CrateVersion[c]] = c
    BY <1>4, <1>8
  <2>3. c \in Checked
    BY <1>4, CheckedFacts DEF c
  <2>4. Used
    BY <1>4, <1>5, <1>7 DEF Used
  <2> QED BY <1>1, <1>2, <1>10, <2>1, <2>2, <2>3, <2>4, UploadKeeps
<1>13. TypeOK'
  <2>1. e = "rust" => m \in DOMAIN Crates
    BY <1>4, CrateFacts
  <2> HIDE DEF m, e
  <2> QED BY <1>2, <1>3, <1>5, <1>7, <1>11, <2>1 DEF TypeOK
<1>14. ScriptInv'
  <2>1. \A j \in 1 .. 4 : ok /\ j < m => reg'[Crates[j]][CrateVersion[c]] = c
    BY <1>4, <1>8, <1>11, <1>12, CrateFacts DEF Grows
  <2>2. e # "done" <=> ok
    OBVIOUS
  <2>3. e \in {"npm", "go", "push"} => m = 5
    OBVIOUS
  <2> HIDE DEF m, e
  <2> QED BY <1>4, <1>5, <1>6, <1>7, <2>1, <2>2, <2>3 DEF ScriptInv, ScriptWorks
<1>15. CloneInv'
  <2>1. \A v \in Version : clonetag'[v] # None => gotag'[v] # None \/ CratesOut(v)'
    BY <1>2, <1>3, <1>12, CratesKept DEF CloneInv
  <2>2. ok => (clonetag[CrateVersion[c]] # None => gotag[CrateVersion[c]] # None)
    <3>1. CASE k = 1
      BY <3>1, <1>3, <1>4, <1>10, <1>11 DEF CloneInv, CratesOut
    <3>2. CASE k # 1
      BY <3>2, <1>4, <1>9
    <3> QED BY <3>1, <3>2
  <2>3. e # "done" <=> ok
    OBVIOUS
  <2> HIDE DEF m, e
  <2> QED BY <1>2, <1>5, <1>7, <2>1, <2>2, <2>3 DEF CloneInv
<1>16. SaidMeansPublished'
  BY <1>2, <1>3, <1>12, SaidKept DEF TypeOK
<1> QED BY <1>2, <1>12, <1>13, <1>14, <1>15, <1>16, ScriptStep

LEMMA ScriptNpmStep == IInv /\ ScriptNpm => IInv'
<1> SUFFICES ASSUME IInv, ScriptNpm PROVE IInv'
  OBVIOUS
<1>1. PICK ok \in BOOLEAN :
        /\ Upload("npm", script.tree, ok)
        /\ script' = [script EXCEPT !.pc = IF ok THEN "go" ELSE "done"]
  BY DEF ScriptNpm
<1>2. script.pc = "npm" /\ UNCHANGED <<head, vtag, gotag, run, clonetag, said>>
  BY DEF ScriptNpm
<1>3. TypeOK /\ ScriptInv /\ CloneInv /\ SaidMeansPublished
  BY DEF IInv
<1>4. script \in ScriptType /\ script.crate = 5 /\ script.tree \in Accepted /\ script.tree \in Commit
      /\ script.tree # None /\ CrateVersion[script.tree] \in Version /\ "npm" \in Pkg
  BY <1>2, <1>3, CommitFacts DEF TypeOK, ScriptInv, ScriptWorks, Pkg
<1> DEFINE s == [script EXCEPT !.pc = IF ok THEN "go" ELSE "done"]
<1>5. /\ s \in ScriptType /\ s.tree = script.tree /\ s.crate = 5
      /\ s.pc = IF ok THEN "go" ELSE "done"
  BY <1>4 DEF ScriptType
<1>6. script' = s
  BY <1>1
<1> HIDE DEF s
<1>7. reg' \in [Pkg -> Tags] /\ hiccups' \in 0 .. MaxHiccup
  BY <1>1, <1>3, <1>4, UploadEffect
<1>8. Grows /\ OutOk'
  <2>1. script.tree \in Checked /\ Used
    BY <1>4, <1>5, <1>6, CheckedFacts DEF Used
  <2> QED BY <1>1, <1>2, <1>4, <2>1, UploadKeeps
<1>9. TypeOK'
  BY <1>2, <1>3, <1>5, <1>6, <1>7 DEF TypeOK
<1>10. ScriptInv'
  <2>1. \A j \in 1 .. 4 : reg'[Crates[j]][CrateVersion[script.tree]] = script.tree
    BY <1>2, <1>3, <1>4, <1>8, CrateFacts DEF ScriptInv, ScriptWorks, Grows
  <2> QED BY <1>4, <1>5, <1>6, <2>1 DEF ScriptInv, ScriptWorks
<1>11. CloneInv'
  <2>1. \A v \in Version : clonetag'[v] # None => gotag'[v] # None \/ CratesOut(v)'
    BY <1>2, <1>3, <1>8, CratesKept DEF CloneInv
  <2>2. clonetag[CrateVersion[script.tree]] # None => gotag[CrateVersion[script.tree]] # None
    BY <1>2, <1>3, <1>4 DEF CloneInv
  <2> QED BY <1>2, <1>5, <1>6, <2>1, <2>2 DEF CloneInv
<1>12. SaidMeansPublished'
  BY <1>2, <1>3, <1>8, SaidKept DEF TypeOK
<1> QED BY <1>2, <1>8, <1>9, <1>10, <1>11, <1>12, ScriptStep

\* A script that has come this far has published every crate of its version.
LEMMA CratesDone ==
  ASSUME IInv, script.pc \in {"go", "push"}
  PROVE  /\ script \in ScriptType /\ script.tree \in Accepted /\ script.tree \in Commit
         /\ script.tree # None /\ script.crate = 5
         /\ CrateVersion[script.tree] \in Version
         /\ \A k \in 1 .. 4 : reg[Crates[k]][CrateVersion[script.tree]] = script.tree
         /\ CratesOut(CrateVersion[script.tree])
<1>1. /\ script \in ScriptType /\ script.tree \in Accepted /\ script.crate = 5
      /\ \A k \in 1 .. 4 : reg[Crates[k]][CrateVersion[script.tree]] = script.tree
  BY DEF IInv, TypeOK, ScriptInv, ScriptWorks
<1>2. CratesOut(CrateVersion[script.tree])
  BY <1>1, CrateFacts, CommitFacts DEF CratesOut
<1> QED BY <1>1, <1>2, CommitFacts

\* A tag that the clone has counts as pushed, and is.
LEMMA ScriptTagStep == IInv /\ ScriptTag => IInv'
<1> SUFFICES ASSUME IInv, ScriptTag PROVE IInv'
  OBVIOUS
<1> DEFINE c == script.tree  v == CrateVersion[c]
<1>1. /\ script.pc = "go" /\ UNCHANGED <<head, vtag, gotag, reg, run, hiccups>>
      /\ \/ /\ clonetag[v] # None /\ UNCHANGED clonetag
            /\ script' = [script EXCEPT !.pc = "done"] /\ said' = said \cup {v}
         \/ /\ clonetag[v] = None /\ clonetag' = [clonetag EXCEPT ![v] = c]
            /\ script' = [script EXCEPT !.pc = "push"] /\ UNCHANGED said
  BY DEF ScriptTag, Announce
<1>2. TypeOK /\ ScriptInv /\ CloneInv /\ SaidMeansPublished
  BY DEF IInv
<1>3. /\ script \in ScriptType /\ c \in Accepted /\ c \in Commit /\ c # None /\ script.crate = 5
      /\ v \in Version /\ CratesOut(v)
      /\ \A k \in 1 .. 4 : reg[Crates[k]][v] = c
  BY <1>1, CratesDone
<1>4. clonetag[v] # None => gotag[v] # None
  BY <1>1, <1>2, <1>3 DEF CloneInv
<1>5. PICK e \in {"done", "push"} : script' = [script EXCEPT !.pc = e]
  BY <1>1
<1> DEFINE s == [script EXCEPT !.pc = e]
<1>6. s \in ScriptType /\ s.tree = c /\ s.crate = 5 /\ s.pc = e /\ script' = s
  BY <1>3, <1>5 DEF ScriptType
<1> HIDE DEF s
<1>7. clonetag' \in Tags /\ said' \subseteq Version
  <2>1. clonetag \in [Version -> Ref] /\ said \subseteq Version /\ c \in Ref
    BY <1>2, <1>3, CommitFacts DEF TypeOK, Tags
  <2> HIDE DEF c, v
  <2> QED BY <2>1, <1>1, <1>3 DEF Tags
<1>8. TypeOK'
  BY <1>1, <1>2, <1>6, <1>7 DEF TypeOK
<1>9. Grows /\ OutOk'
  <2>1. Used
    BY <1>3, <1>6 DEF Used
  <2> QED BY <1>1, <2>1, NothingOut
<1>10. ScriptInv'
  <2>1. \A k \in 1 .. 4 : reg'[Crates[k]][v] = c
    BY <1>1, <1>3
  <2> QED BY <1>3, <1>6, <2>1 DEF ScriptInv, ScriptWorks
<1>11. CloneInv'
  <2>1. \A w \in Version : clonetag'[w] # None => w = v \/ clonetag[w] # None
    <3>1. clonetag \in [Version -> Ref]
      BY <1>2 DEF TypeOK, Tags
    <3> HIDE DEF c, v
    <3> QED BY <3>1, <1>1
  <2>2. \A w \in Version : clonetag'[w] # None => gotag'[w] # None \/ CratesOut(w)'
    BY <2>1, <1>1, <1>2, <1>3 DEF CloneInv, CratesOut
  <2> QED BY <2>2, <1>6 DEF CloneInv
<1>12. SaidMeansPublished'
  <2>1. said' = said \/ (said' = said \cup {v} /\ gotag[v] # None)
    BY <1>1, <1>4
  <2> QED BY <2>1, <1>1, <1>2, <1>3 DEF SaidMeansPublished, CratesOut
<1> QED BY <1>1, <1>8, <1>9, <1>10, <1>11, <1>12, ScriptStep

LEMMA ScriptPushStep == IInv /\ ScriptPush => IInv'
<1> SUFFICES ASSUME IInv, ScriptPush PROVE IInv'
  OBVIOUS
<1> DEFINE c == script.tree  v == CrateVersion[c]
<1>1. script.pc = "push" /\ UNCHANGED <<head, vtag, reg, run, clonetag>>
  BY DEF ScriptPush
<1>2. PICK ok \in BOOLEAN :
        /\ PushGoTag(v, c, ok)
        /\ script' = [script EXCEPT !.pc = "done"]
        /\ said' = IF ok THEN said \cup {v} ELSE said
  BY DEF ScriptPush, Announce
<1>3. TypeOK /\ ScriptInv /\ CloneInv /\ SaidMeansPublished
  BY DEF IInv
<1>4. /\ script \in ScriptType /\ c \in Accepted /\ c \in Commit /\ c # None
      /\ v \in Version /\ CratesOut(v)
  BY <1>1, CratesDone
<1> DEFINE s == [script EXCEPT !.pc = "done"]
<1>5. s \in ScriptType /\ s.tree = c /\ s.pc = "done" /\ script' = s
  BY <1>2, <1>4 DEF ScriptType
<1> HIDE DEF s, c, v
<1>6. gotag' \in Tags /\ hiccups' \in 0 .. MaxHiccup /\ (ok => gotag'[v] = c)
  BY <1>2, <1>3, <1>4, PushEffect
<1>7. Grows /\ OutOk'
  <2>1. c \in Checked
    BY <1>4, CheckedFacts DEF c
  <2>2. Used
    BY <1>4, <1>5 DEF Used, c
  <2> QED BY <1>1, <1>2, <1>4, <2>1, <2>2, PushKeeps
<1>8. TypeOK'
  BY <1>1, <1>2, <1>3, <1>4, <1>5, <1>6 DEF TypeOK
<1>9. ScriptInv'
  BY <1>4, <1>5 DEF ScriptInv, ScriptWorks
<1>10. CloneInv'
  <2>1. \A w \in Version : clonetag'[w] # None => gotag'[w] # None \/ CratesOut(w)'
    BY <1>1, <1>3, <1>7, CratesKept DEF CloneInv, Grows
  <2> QED BY <2>1, <1>5 DEF CloneInv
<1>11. SaidMeansPublished'
  <2>1. \A p \in Pkg \ {"npm"} : reg'[p][v] # None
    BY <1>4, <1>7 DEF CratesOut, Grows
  <2>2. \A w \in said : gotag'[w] # None /\ \A p \in Pkg \ {"npm"} : reg'[p][w] # None
    BY <1>3, <1>7 DEF SaidMeansPublished, Grows, TypeOK
  <2> QED BY <2>1, <2>2, <1>2, <1>4, <1>6 DEF SaidMeansPublished
<1> QED BY <1>1, <1>5, <1>7, <1>8, <1>9, <1>10, <1>11, ScriptStep

LEMMA Stuttering == IInv /\ UNCHANGED vars => IInv'
<1> SUFFICES ASSUME IInv, UNCHANGED vars PROVE IInv'
  OBVIOUS
<1>1. UNCHANGED <<head, vtag, gotag, reg, run, script, clonetag, said, hiccups>>
  BY DEF vars
<1>2. Grows /\ OutOk'
  BY <1>1, NothingOut DEF Used
<1>3. TypeOK'
  BY <1>1 DEF IInv, TypeOK
<1>4. ScriptInv' /\ CloneInv' /\ SaidMeansPublished'
  BY <1>1, <1>2, ScriptKept, CloneKept, SaidKept DEF IInv, TypeOK
<1> QED BY <1>1, <1>2, <1>3, <1>4, ScriptStep

LEMMA Inductive == Spec => []IInv
<1>1. IInv /\ [Next]_vars => IInv'
  <2> SUFFICES ASSUME IInv, [Next]_vars PROVE IInv'
    OBVIOUS
  <2>1. CASE Merge
    BY <2>1, MergeStep
  <2>2. CASE \E r \in Run, v \in Version : PushTag(r, v) \/ Dispatch(r, v)
    BY <2>2, PushTagStep, DispatchStep
  <2>3. CASE \E r \in Run :
               Check(r) \/ PublishCrate(r) \/ PublishNpm(r) \/ TagGo(r) \/ PushGo(r)
    BY <2>3, CheckStep, PublishCrateStep, PublishNpmStep, TagGoStep, PushGoStep
  <2>4. CASE ScriptStart \/ ScriptCheck \/ ScriptCrate \/ ScriptNpm \/ ScriptTag \/ ScriptPush
    BY <2>4, ScriptStartStep, ScriptCheckStep, ScriptCrateStep, ScriptNpmStep,
       ScriptTagStep, ScriptPushStep
  <2>5. CASE UNCHANGED vars
    BY <2>5, Stuttering
  <2> QED BY <2>1, <2>2, <2>3, <2>4, <2>5 DEF Next, Jobs
<1> QED BY <1>1, Initially, PTL DEF Spec

-----------------------------------------------------------------------------

\* Every variable keeps its type: no job and no script runs past the last crate.
THEOREM ReleaseTypeCorrect == Spec => []TypeOK
<1>1. IInv => TypeOK
  BY DEF IInv
<1> QED BY <1>1, Inductive, PTL

\* Whoever publishes, at once and wherever they stop, crates.io never has a
\* host crate without the macro crates it depends on.
THEOREM MacrosFirst == Spec => []HostNeedsMacros
<1>1. IInv => HostNeedsMacros
  BY DEF IInv, OutOk
<1> QED BY <1>1, Inductive, PTL

\* Neither the workflow nor the script puts anything out that its own check does
\* not pass: the whole ci matrix the workflow, until the script is used; from
\* then on the steps that the script shares with it, which are not all.
THEOREM CheckedOnly == Spec => []OnlyChecked
<1>1. IInv => OnlyChecked
  BY DEF IInv, OutOk
<1> QED BY <1>1, Inductive, PTL

\* The crates of a version are of one commit, although re-runs, manual runs and
\* the script build the same version from different ones.
THEOREM CratesAreOfOneCommit == Spec => []CratesOfOneCommit
<1>1. IInv => CratesOfOneCommit
  BY DEF IInv, OutOk
<1> QED BY <1>1, Inductive, PTL

\* release.sh reports a version only when its crates and its Go tag are out,
\* although it takes a tag of its clone for one of the remote.
THEOREM SaidIsTrue == Spec => []SaidMeansPublished
<1>1. IInv => SaidMeansPublished
  BY DEF IInv
<1> QED BY <1>1, Inductive, PTL

\* A green run of the workflow has put everything out, from its own commit.
THEOREM GreenIsTrue == Spec => []GreenMeansPublished
<1>1. IInv => GreenMeansPublished
  <2> SUFFICES ASSUME IInv, NEW r \in Run, Green(r)
               PROVE  /\ gotag[run[r].tag] = run[r].ref
                      /\ \A p \in Pkg : reg[p][ManifestVersion(p, run[r].ref)] = run[r].ref
    BY DEF GreenMeansPublished
  <2>1. RunInv(r) /\ run[r].check = "ok" /\ run[r].rust = "ok" /\ run[r].npm = "ok"
        /\ run[r].go = "ok"
    BY DEF IInv, Green, Gated
  <2>2. gotag[run[r].tag] = run[r].ref /\ reg["npm"][NpmVersion[run[r].ref]] = run[r].ref
    BY <2>1 DEF RunInv
  <2>3. \A p \in Pkg \ {"npm"} : reg[p][CrateVersion[run[r].ref]] = run[r].ref
    BY <2>1, CrateFacts DEF RunInv
  <2> QED BY <2>2, <2>3 DEF ManifestVersion
<1> QED BY <1>1, Inductive, PTL
=============================================================================
