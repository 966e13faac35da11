SPECIFICATION FairSpec
CONSTANTS
  r1 = r1  r2 = r2
  LastCommit = 1
  Version = {1}
  CrateVersion <- Bumped
  NpmVersion <- Bumped
  Fails <- AllClean
  Revision <- Bumped
  Run = {r1}
  AllowScript = FALSE
  MaxHiccup = 1
PROPERTIES
  RerunCompletes
CHECK_DEADLOCK FALSE
