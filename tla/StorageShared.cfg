SPECIFICATION Spec
CONSTANTS
  r1 = r1  g1 = g1
  Name <- Names
  Impl = {r1, g1}
  SdkOf <- Sdks
  Code <- Apart
  Abi <- Drifted
  Key <- SomeKeys
  Value <- SomeValues
  Utf8 <- SomeStrings
  Codec <- Pairs
  CustomDefault <- NullPair
  MaxOps = 2
INVARIANTS
  TypeOK ReadsAgree
PROPERTIES
  ActsAsMap
