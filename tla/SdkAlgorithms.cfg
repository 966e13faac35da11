SPECIFICATION Spec
CONSTANTS
  LimbBits = 3
  Limb = 8
  Entry <- entry
  View <- view
  Mutating <- mutating
  Payable <- payable
  SeamOf <- Seams
  Lines <- SomeLines
  MaxLines = 4
  Contracts <- SomeContracts
  Spellings <- SomeSpellings
  Versions <- SomeVersions
INVARIANTS
  U128Exact IntentExact NearMissWarned
