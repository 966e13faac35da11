SPECIFICATION Spec
CONSTANTS
  r1 = r1  r2 = r2
  LastCommit = 3
  Version = {1, 2}
  CrateVersion <- CratesLate
  NpmVersion <- NpmAhead
  Fails <- MixedFails
  Revision <- Bumped
  Run = {r1, r2}
  AllowScript = TRUE
  MaxHiccup = 2
INVARIANTS
  TypeOK HostNeedsMacros OnlyChecked GreenMeansPublished SaidMeansPublished
  CratesOfOneCommit
SYMMETRY
  Slots
CHECK_DEADLOCK FALSE
