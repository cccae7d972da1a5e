SPECIFICATION FairSpec
CONSTANTS
  Sender = {"tcpip", "uIP"}
  None = None
  FifoFrames = 1
  MaxFrames = 2
  MaxOutputs = 2
  MaxChanges = 2
INVARIANTS
  WakeupDue
  LinkFlagTrue
PROPERTIES
  FramesLeave
  OutputReturns
CHECK_DEADLOCK FALSE
