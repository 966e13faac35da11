SPECIFICATION Spec
CONSTANTS
  r1 = r1  r2 = r2
  LastCommit = 2
  Version = {1, 2}
  CrateVersion <- Bumped
  NpmVersion <- Bumped
  Fails <- AllClean
  Revision <- Bumped
  Run = {r1}
  AllowScript = FALSE
  MaxHiccup = 1
INVARIANT
  OneRevision
CHECK_DEADLOCK FALSE
