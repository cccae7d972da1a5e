SPECIFICATION RSpec
CONSTANTS
  Byte = {1, 2, 3, 4, 5}
  Input <- InputOne
  BufSize = 4
  MaxPayload = 1
  SeqMod = 4
  ResendAfter = 1
  FifoBytes = 10
  Crypt = FALSE
  MaxRestarts = 1
INVARIANTS
  SenderRestartOnlyLoses
  OncePerLife
  FalseAckOnlyAtStart
PROPERTY
  DeafForGood
CHECK_DEADLOCK FALSE
