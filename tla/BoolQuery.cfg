SPECIFICATION Spec
CONSTANTS
  Modes <- AllModes
  Words = {a, b}
  Other = other
  TokensMax = 6
  TextMax = 3
SYMMETRY Exchange
INVARIANTS TypeOK MatchesMeaning StackBalanced
CHECK_DEADLOCK FALSE
