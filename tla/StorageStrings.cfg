SPECIFICATION Spec
CONSTANTS
  r1 = r1  g1 = g1
  Name <- Names
  Impl = {r1, g1}
  SdkOf <- Sdks
  Code <- Shared
  Abi <- Shared
  Key <- SomeKeys
  Value <- SomeValues
  Utf8 <- SomeStrings
  Codec <- Pairs
  CustomDefault <- NullPair
  MaxOps = 2
INVARIANTS
  ReadsAgree
