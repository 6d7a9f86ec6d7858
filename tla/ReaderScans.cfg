SPECIFICATION FairScans
CONSTANTS
  Tags = {a, b, c}
  Coded = {a, b}
  None = None
  Garbage = Garbage
  Tries = 2
  LostScans = 1
  ChipWaits = TRUE
  MaxNoise = 2
  MaxMoves = 3
INVARIANTS EntryOfOneTag
PROPERTIES ScansAreSteps EventuallyKnown
