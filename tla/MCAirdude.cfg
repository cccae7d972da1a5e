SPECIFICATION Spec
CONSTANTS
  b1 = b1
  b2 = b2
  Board = {b1, b2}
  Stick = Stick
  Kinds <- Builds
  None = None
  Empty = Empty
  Mixed = Mixed
  Pages = 2
  SeqMod = 4
  MaxSessions = 2
  MaxLost = 1
  MaxPowerCycles = 1
  MaxQuestions = 1
INVARIANTS
  ConfirmedIsWritten
  RunsWhole
SYMMETRY Symmetry
CHECK_DEADLOCK FALSE
