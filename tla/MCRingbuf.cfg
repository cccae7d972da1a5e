SPECIFICATION Spec
CONSTANTS
  Byte = {b1, b2, b3}
  NoByte = NoByte
  Size = 4
INVARIANTS
  TypeOK
  NoSlotRace
PROPERTY
  FifoSpec
