SPECIFICATION Spec
CONSTANTS
  f1 = f1  f2 = f2  a = a  b = b
  pool = pool  plain = plain  gone = gone
  Zero = Zero  Payer = Payer
  Token = {a, b}
  Rank <- Ranks
  Maker = {f1, f2}
  SdkOf <- RustAndAs
  Sequential = {f2}
  Reentrant = {f1}
  Template = {pool, plain, gone}
  Deployed = {pool, plain}
  WithCtor = {pool}
  Colliding <- FirstPlain
  Supply = 1
  Size = {0, 3}
  RustCap = 2
  RefusalLen = {"zero", "kept"}
  Pairs <- BothOrders
  MaxDepth = 5
  MaxPerTx = 3
  MaxNumber = 1
INVARIANTS
  TypeOK BookIsTrue OkIsBorn OneEach BooksBalance PaymentReachesChild PayloadIsCtors
PROPERTIES
  Forever
