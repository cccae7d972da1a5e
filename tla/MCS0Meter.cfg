SPECIFICATION Spec
CONSTANTS
  Channel = {c1}
  Base = 2
  Bytes = 2
  NoMin = 99
  SetTo = {2}
  MaxTime = 5
  MaxRestarts = 1
INVARIANTS
  EveryImpulseReported
  ReadingIsConsistent
  RestoredIsRecent
PROPERTY
  PeriodClearedByQuiet
