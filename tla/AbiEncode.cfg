\* Values of each supported kind, nested up to three deep, refused ones, and the
\* values that are hashed and signed.
CONSTANTS
  SLOT_SIZE = 4
  Base = 4
  Values <- AllValues
  Signed <- SignedValues
SPECIFICATION Spec
INVARIANTS
  MatchesSolidity
  RefusedBeforeWriting
  SignedDataDistinct
CHECK_DEADLOCK FALSE
