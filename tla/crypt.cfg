SPECIFICATION Spec
CONSTANTS
  N = 3
  Callers = {c1, c2}
  Algos = {"2FISH", "3FISH", "3DES", "AES", "ZenMatrix", "Camellia"}
  Arguments <- SomeArguments
  NullHash = NullHash
  NoHash = NoHash
  Chars <- SomeChars
  Lower <- LowerCase
  KeyLen = 3
  AuthorEmail <- Email
  Area23Email <- OtherEmail
  Bounce4 <- Resource
  Plain <- SomePlain
  MaxRestarts = 1
SYMMETRY Symmetry
INVARIANTS
  TypeOK
  StateOfLastCalls
  DecryptsOwn
  TrustedFlag
CHECK_DEADLOCK FALSE
