SPECIFICATION FairSpec
CONSTANTS
  c1 = c1  c2 = c2  c3 = c3
  write = write  pay = pay  look = look
  Contract <- Contracts3
  SdkOf <- ThreeSdks
  Deployed <- Contracts3
  Fn <- Entries
  Exports <- ExportsSome
  ViewFn = {look}
  PayableFn = {pay}
  ReentrantFn = {pay}
  Val = {0, 1}
  Supply <- OneEach
  Site <- Program
  Size = {0, 1, 3}
  RustCap = 2
  MaxDepth = 3
  MaxGas = 4
  ViewFuel = 1
  RefusalLen = {"zero"}
INVARIANTS
  TypeOK UndoChain SuccessIsExact PayloadIsCallees FailureUndone ViewFrozen
  ValueConserved
PROPERTIES
  Atomic Terminates
