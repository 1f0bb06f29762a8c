SPECIFICATION SessionSpec
CONSTANTS
  p1 = p1
  p2 = p2
  Pages = {p1, p2}
  Limits = {1, 2, 4}
  Default = 2
  TokenLife = 2
  NoStamp = NoStamp
  Unknown = Unknown
  Told = TRUE
INVARIANTS
  EveryoneIsSignedOut
