SPECIFICATION FairSpec
CONSTANTS
  Byte = {1, 2, 3, 4, 5}
  Input <- InputCrossing
  BufSize = 3
  MaxPayload = 2
  SeqMod = 3
  ResendAfter = 2
  FifoBytes = 10
  Crypt = FALSE
INVARIANTS
  TypeOK
  StreamIntact
  AckedMeansTaken
  InSequence
  LossIsOverflow
PROPERTIES
  ByteStreams
  EventuallyDelivered
CHECK_DEADLOCK FALSE
