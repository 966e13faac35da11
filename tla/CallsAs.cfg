SPECIFICATION Spec
CONSTANTS
  c1 = c1  c2 = c2  c3 = c3
  write = write  pay = pay  look = look
  Contract <- Contracts2
  SdkOf <- AllAs
  Deployed <- Contracts2
  Fn <- Entries
  Exports <- ExportsSome
  ViewFn = {look}
  PayableFn = {pay}
  ReentrantFn = {pay}
  Val = {0, 1}
  Supply <- OneEach
  Site <- OneSdkProgram
  Size = {0, 1, 3}
  RustCap = 2
  MaxDepth = 3
  MaxGas = 3
  ViewFuel = 1
  RefusalLen = {"kept", "zero"}
INVARIANTS
  PayloadIsCallees ReceiptSaysWhy
