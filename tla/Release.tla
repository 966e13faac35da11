------------------------------- MODULE Release -------------------------------
(***************************************************************************)
(* Publishing the bindings: the workflow runs of publish.yml, whose jobs   *)
(* run side by side, and the local script release.sh, against registries   *)
(* that accept a version once and lose some replies.                       *)
(***************************************************************************)
EXTENDS Integers, Sequences, FiniteSets

CONSTANTS
  LastCommit,           \* commits of main are 1 .. LastCommit
  Version,              \* of a release
  CrateVersion,         \* the version in rust/Cargo.toml at each commit
  NpmVersion,           \* the version in package.json at each commit
  Fails,                \* the steps of the ci matrix that fail on each commit
  Revision,             \* the host ABI revision the sources are of at each commit
  Run,                  \* workflow runs
  AllowScript,          \* release.sh is also used
  MaxHiccup             \* bound on failures that are nobody's fault

None   == 0
Commit == 1 .. LastCommit
Ref    == Commit \cup {None}

\* The steps of the matrix, those of the rust job in one.
CiSteps ==
  {"rust", "asc", "npm test", "asc range", "go test", "tinygo",
   "c", "c++", "c vectors", "parity"}

\* release.sh check compiles in every language, and tests in Rust.
ScriptSteps == CiSteps \ {"npm test", "asc range", "go test", "c vectors"}

Passes(c, steps) == Fails[c] \cap steps = {}

Good     == {c \in Commit : Passes(c, CiSteps)}
Accepted == {c \in Commit : Passes(c, ScriptSteps)}

ASSUME ReleaseAssumption ==
  /\ LastCommit \in Nat \ {0} /\ MaxHiccup \in Nat
  /\ CrateVersion \in [Commit -> Version]
  /\ NpmVersion \in [Commit -> Version]
  /\ Fails \in [Commit -> SUBSET CiSteps]
  /\ AllowScript \in BOOLEAN

HostFirst == <<"host", "entry-macros", "storage-macros", "events-macros">>
Crates == <<"entry-macros", "storage-macros", "events-macros", "host">>
Pkg    == {"entry-macros", "storage-macros", "events-macros", "host", "npm"}

VARIABLES
  head,         \* main
  vtag,         \* the release tags on the remote
  gotag,        \* the go/ tags on the remote
  reg,          \* what each registry has of each version
  run,          \* the workflow runs
  script,       \* release.sh
  clonetag,     \* the go/ tags in the maintainer's clone
  said,         \* the versions release.sh has reported as published
  hiccups

vars == <<head, vtag, gotag, reg, run, script, clonetag, said, hiccups>>

Tags    == [Version -> Ref]
JobEnd  == {"wait", "ok", "fail"}
RunType ==
  [ref : Ref, tag : Version, check : {"none"} \cup JobEnd,
   crate : 1 .. 5, rust : JobEnd, npm : JobEnd, go : JobEnd \cup {"tagged"}]
ScriptType ==
  [tree : Ref, pc : {"idle", "check", "rust", "npm", "go", "push", "done"},
   crate : 1 .. 5]

NoTags  == [v \in Version |-> None]
NewRun(ref, tag) ==
  [ref |-> ref, tag |-> tag, check |-> "wait", crate |-> 1,
   rust |-> "wait", npm |-> "wait", go |-> "wait"]
AtRest  == [tree |-> None, pc |-> "idle", crate |-> 1]

Init ==
  /\ head = 1
  /\ vtag = NoTags /\ gotag = NoTags /\ clonetag = NoTags
  /\ reg = [p \in Pkg |-> NoTags]
  /\ \E v \in Version :
       run = [r \in Run |-> [NewRun(None, v) EXCEPT !.check = "none"]]
  /\ script = AtRest
  /\ said = {}
  /\ hiccups = MaxHiccup

-----------------------------------------------------------------------------
(* The registries *)

ManifestVersion(p, c) == IF p = "npm" THEN NpmVersion[c] ELSE CrateVersion[c]

\* cargo publish or npm publish of p from commit c: accepted once per version.
Upload(p, c, ok) ==
  LET v == ManifestVersion(p, c)
      landed == [reg EXCEPT ![p][v] = c]
  IN  \/ reg[p][v] = None /\ ok /\ reg' = landed /\ UNCHANGED hiccups
      \/ reg[p][v] # None /\ ~ ok /\ UNCHANGED <<reg, hiccups>>
      \/ /\ hiccups > 0 /\ ~ ok
         /\ hiccups' = hiccups - 1
         /\ reg' \in {reg, IF reg[p][v] = None THEN landed ELSE reg}

\* git push of a tag: refused when the remote has it at another commit.
PushGoTag(v, c, ok) ==
  \/ gotag[v] \in {None, c} /\ ok
     /\ gotag' = [gotag EXCEPT ![v] = c] /\ UNCHANGED hiccups
  \/ gotag[v] \notin {None, c} /\ ~ ok /\ UNCHANGED <<gotag, hiccups>>
  \/ hiccups > 0 /\ ~ ok /\ hiccups' = hiccups - 1 /\ UNCHANGED gotag

-----------------------------------------------------------------------------
(* Maintainers *)

Merge ==
  /\ head < LastCommit
  /\ head' = head + 1
  /\ UNCHANGED <<vtag, gotag, reg, run, script, clonetag, said, hiccups>>

\* A slot for a new run: never used, or its run is over.
Idle(r) ==
  \/ run[r].check \in {"none", "fail"}
  \/ {run[r].rust, run[r].npm, run[r].go} \cap {"wait", "tagged"} = {}

\* git tag v.. && git push: the tag starts a run on the commit it names.
PushTag(r, v) ==
  /\ Idle(r)
  /\ vtag[v] = None
  /\ v \in {CrateVersion[head], NpmVersion[head]}
  /\ vtag' = [vtag EXCEPT ![v] = head]
  /\ run' = [run EXCEPT ![r] = NewRun(head, v)]
  /\ UNCHANGED <<head, gotag, reg, script, clonetag, said, hiccups>>

\* gh workflow run publish.yml -f version=v: checkout has no ref, so the
\* jobs run on the head of main whatever the version names.
Dispatch(r, v) ==
  /\ Idle(r)
  /\ vtag[v] # None
  /\ run' = [run EXCEPT ![r] = NewRun(head, v)]
  /\ UNCHANGED <<head, vtag, gotag, reg, script, clonetag, said, hiccups>>

-----------------------------------------------------------------------------
(* The jobs of a workflow run *)

Check(r) ==
  /\ run[r].check = "wait"
  /\ \/ run[r].ref \in Good /\ run' = [run EXCEPT ![r].check = "ok"]
        /\ UNCHANGED hiccups
     \/ run[r].ref \notin Good /\ run' = [run EXCEPT ![r].check = "fail"]
        /\ UNCHANGED hiccups
     \/ hiccups > 0 /\ run' = [run EXCEPT ![r].check = "fail"]
        /\ hiccups' = hiccups - 1
  /\ UNCHANGED <<head, vtag, gotag, reg, script, clonetag, said>>

Ungated(r) == run[r].check # "none"

\* needs: check
Gated(r) == run[r].check = "ok"

\* One cargo publish step; a failed step ends the job.
PublishCrate(r) ==
  /\ Gated(r) /\ run[r].rust = "wait"
  /\ \E ok \in BOOLEAN :
       /\ Upload(Crates[run[r].crate], run[r].ref, ok)
       /\ run' = [run EXCEPT
            ![r].crate = IF ok THEN run[r].crate + 1 ELSE run[r].crate,
            ![r].rust = IF ~ ok THEN "fail"
                        ELSE IF run[r].crate = Len(Crates) THEN "ok" ELSE "wait"]
  /\ UNCHANGED <<head, vtag, gotag, script, clonetag, said>>

\* continue-on-error
PublishNpmTolerant(r) ==
  /\ Gated(r) /\ run[r].npm = "wait"
  /\ \E ok \in BOOLEAN : Upload("npm", run[r].ref, ok)
  /\ run' = [run EXCEPT ![r].npm = "ok"]
  /\ UNCHANGED <<head, vtag, gotag, script, clonetag, said>>

PublishNpm(r) ==
  /\ Gated(r) /\ run[r].npm = "wait"
  /\ \E ok \in BOOLEAN :
       /\ Upload("npm", run[r].ref, ok)
       /\ run' = [run EXCEPT ![r].npm = IF ok THEN "ok" ELSE "fail"]
  /\ UNCHANGED <<head, vtag, gotag, script, clonetag, said>>

\* Checkout fetches every tag; git tag fails on one that is there.
TagGo(r) ==
  /\ Gated(r) /\ run[r].go = "wait"
  /\ run' = [run EXCEPT ![r].go =
                IF gotag[run[r].tag] = None THEN "tagged" ELSE "fail"]
  /\ UNCHANGED <<head, vtag, gotag, reg, script, clonetag, said, hiccups>>

PushGo(r) ==
  /\ run[r].go = "tagged"
  /\ \E ok \in BOOLEAN :
       /\ PushGoTag(run[r].tag, run[r].ref, ok)
       /\ run' = [run EXCEPT ![r].go = IF ok THEN "ok" ELSE "fail"]
  /\ UNCHANGED <<head, vtag, reg, script, clonetag, said>>

-----------------------------------------------------------------------------
(* release.sh publish *)

Fetched(v) == IF clonetag[v] = None THEN gotag[v] ELSE clonetag[v]

\* The maintainer's clone is brought up to main, tags included.
ScriptStart ==
  /\ AllowScript
  /\ script.pc \in {"idle", "done"}
  /\ script' = [tree |-> head, pc |-> "check", crate |-> 1]
  /\ clonetag' = [v \in Version |-> Fetched(v)]
  /\ UNCHANGED <<head, vtag, gotag, reg, run, said, hiccups>>

\* cmd_check || return 1
ScriptCheck ==
  /\ script.pc = "check"
  /\ script' = [script EXCEPT !.pc =
                  IF script.tree \in Accepted THEN "rust" ELSE "done"]
  /\ UNCHANGED <<head, vtag, gotag, reg, run, clonetag, said, hiccups>>

\* cargo publish || true
ScriptCrateTolerant ==
  /\ script.pc = "rust"
  /\ \E ok \in BOOLEAN : Upload(Crates[script.crate], script.tree, ok)
  /\ script' = [script EXCEPT
       !.crate = script.crate + 1,
       !.pc = IF script.crate = Len(Crates) THEN "npm" ELSE "rust"]
  /\ UNCHANGED <<head, vtag, gotag, run, clonetag, said>>

\* The loop over the crates runs once more than there are crates.
ScriptCratePastEnd ==
  /\ script.pc = "rust"
  /\ \E ok \in BOOLEAN :
       /\ Upload(Crates[script.crate], script.tree, ok)
       /\ script' = [script EXCEPT
            !.crate = IF ok THEN script.crate + 1 ELSE script.crate,
            !.pc = IF ~ ok THEN "done"
                   ELSE IF script.crate > Len(Crates) THEN "npm" ELSE "rust"]
  /\ UNCHANGED <<head, vtag, gotag, run, clonetag, said>>

\* publish_rust: one crate at a time; the first failure ends the script.
ScriptCrate ==
  /\ script.pc = "rust"
  /\ \E ok \in BOOLEAN :
       /\ Upload(Crates[script.crate], script.tree, ok)
       /\ script' = [script EXCEPT
            !.crate = IF ok THEN script.crate + 1 ELSE script.crate,
            !.pc = IF ~ ok THEN "done"
                   ELSE IF script.crate = Len(Crates) THEN "npm" ELSE "rust"]
  /\ UNCHANGED <<head, vtag, gotag, run, clonetag, said>>

ScriptNpm ==
  /\ script.pc = "npm"
  /\ \E ok \in BOOLEAN :
       /\ Upload("npm", script.tree, ok)
       /\ script' = [script EXCEPT !.pc = IF ok THEN "go" ELSE "done"]
  /\ UNCHANGED <<head, vtag, gotag, run, clonetag, said>>

Announce(v) ==
  /\ script' = [script EXCEPT !.pc = "done"]
  /\ said' = said \cup {v}

\* publish_go: a tag the clone knows counts as done.
ScriptTag ==
  LET v == CrateVersion[script.tree]
  IN  /\ script.pc = "go"
      /\ IF clonetag[v] # None
         THEN Announce(v) /\ UNCHANGED clonetag
         ELSE /\ clonetag' = [clonetag EXCEPT ![v] = script.tree]
              /\ script' = [script EXCEPT !.pc = "push"]
              /\ UNCHANGED said
      /\ UNCHANGED <<head, vtag, gotag, reg, run, hiccups>>

ScriptPush ==
  LET v == CrateVersion[script.tree]
  IN  /\ script.pc = "push"
      /\ \E ok \in BOOLEAN :
           /\ PushGoTag(v, script.tree, ok)
           /\ IF ok THEN Announce(v)
              ELSE script' = [script EXCEPT !.pc = "done"] /\ UNCHANGED said
      /\ UNCHANGED <<head, vtag, reg, run, clonetag>>

-----------------------------------------------------------------------------

Jobs ==
  \/ \E r \in Run :
       Check(r) \/ PublishCrate(r) \/ PublishNpm(r) \/ TagGo(r) \/ PushGo(r)
  \/ ScriptCheck \/ ScriptCrate \/ ScriptNpm \/ ScriptTag \/ ScriptPush

Next ==
  \/ Merge
  \/ \E r \in Run, v \in Version : PushTag(r, v) \/ Dispatch(r, v)
  \/ ScriptStart
  \/ Jobs

Spec == Init /\ [][Next]_vars

\* Jobs run to their end, and maintainers re-run a release by hand as long
\* as some part of it is missing.
Released(v) ==
  /\ gotag[v] # None
  /\ \A p \in Pkg :
       reg[p][ManifestVersion(p, IF vtag[v] = None THEN head ELSE vtag[v])] # None
Rerun(r, v) == ~ Released(v) /\ Dispatch(r, v)
FairSpec ==
  /\ Spec
  /\ WF_vars(Jobs)
  /\ \A v \in Version : WF_vars(\E r \in Run : Rerun(r, v))

-----------------------------------------------------------------------------
TypeOK ==
  /\ head \in Commit
  /\ vtag \in Tags /\ gotag \in Tags /\ clonetag \in Tags
  /\ reg \in [Pkg -> Tags]
  /\ run \in [Run -> RunType]
  /\ script \in ScriptType
  /\ script.pc = "rust" => script.crate \in DOMAIN Crates
  /\ \A r \in Run : run[r].rust = "wait" => run[r].crate \in DOMAIN Crates
  /\ said \subseteq Version
  /\ hiccups \in 0 .. MaxHiccup

(* crates.io never offers a pyde-host whose macro crates it lacks, however *)
(* many runs and scripts publish at once and wherever they stop.           *)
HostNeedsMacros ==
  \A v \in Version : reg["host"][v] # None =>
    \A p \in Pkg \ {"npm"} : reg[p][v] # None

(* Nothing reaches a registry, and no Go tag exists, from a commit the ci  *)
(* matrix does not pass on ("any red job blocks the release entirely"),    *)
(* until release.sh is used; from then on, nothing from a commit on which  *)
(* a step of the script's own, shorter, check fails.                       *)
Checked == IF script.tree = None THEN Good ELSE Accepted
OnlyChecked ==
  \A v \in Version :
    /\ gotag[v] \in Checked \cup {None}
    /\ \A p \in Pkg : reg[p][v] \in Checked \cup {None}

(* The crates of a version are built from one commit, whatever the         *)
(* manifests say, whichever runs and scripts publish at once and wherever  *)
(* they stop: each begins with the crate that the others wait for, and     *)
(* ends at the first upload that the registry refuses.                     *)
CratesOfOneCommit ==
  \A v \in Version, p \in Pkg \ {"npm"} : reg[p][v] \in {None, reg[Crates[1]][v]}

(* A workflow run whose every job is green has put everything out, built   *)
(* from its own commit.                                                    *)
Green(r) ==
  Gated(r) /\ run[r].rust = "ok" /\ run[r].npm = "ok" /\ run[r].go = "ok"
GreenMeansPublished ==
  \A r \in Run : Green(r) =>
    /\ gotag[run[r].tag] = run[r].ref
    /\ \A p \in Pkg : reg[p][ManifestVersion(p, run[r].ref)] = run[r].ref

(* release.sh prints "published v" only when crates.io has v and the remote*)
(* has its Go tag, although publish_go takes a tag that is only in the     *)
(* clone for done: a push that failed before cannot be followed by a second*)
(* successful publish_rust of that version.                                *)
SaidMeansPublished ==
  \A v \in said :
    gotag[v] # None /\ \A p \in Pkg \ {"npm"} : reg[p][v] # None

(* README: "Every published Rust, AssemblyScript, Go, and C release under  *)
(* the same tag corresponds to the same frozen spec revision".  The C      *)
(* header is taken from the tag itself.                                    *)
SourcesOf(v) ==
  ({reg[p][v] : p \in Pkg} \cup {gotag[v], vtag[v]}) \ {None}
OneRevision ==
  \A v \in Version : Cardinality({Revision[c] : c \in SourcesOf(v)}) <= 1

(* publish.yml: running it by hand is for re-runs after a transient        *)
(* registry hiccup, without re-tagging: the release gets finished.         *)
RerunCompletes ==
  \A v \in Version : vtag[v] # None ~> Released(v)
=============================================================================
