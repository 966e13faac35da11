SPECIFICATION Spec
CONSTANTS
  Sources <- SomeFunctions
  Sdks = {"rust", "go", "as"}
  Values <- SomeValues
  RawData <- AnyBytes
  ReturnCap = 5
INVARIANTS
  TypeOK RunsOnItsCalldata SdksAgree RecordIsTrue
