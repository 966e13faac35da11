------------------------------ MODULE MCRelease ------------------------------
(***************************************************************************)
(* Instances of Release for TLC.                                           *)
(***************************************************************************)
EXTENDS Release, TLC

CONSTANTS r1, r2

\* Manifests that are not bumped together: at the second commit the
\* AssemblyScript package is a version ahead of the crates.
CratesLate == <<1, 1, 2>>
NpmAhead   == <<1, 2, 2>>

\* The first commit is clean, the second fails only where release.sh does not
\* look, the third where both checks look.
MixedFails == <<{}, {"npm test"}, {"parity"}>>
AllClean   == [c \in Commit |-> {}]

\* Every commit is a version, and a revision of the host ABI, of its own.
Bumped == [c \in Commit |-> c]

Slots == Permutations(Run)
=============================================================================
