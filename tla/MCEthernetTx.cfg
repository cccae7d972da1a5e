SPECIFICATION Spec
CONSTANTS
  Sender = {"tcpip"}
  None = None
  FifoFrames = 1
  MaxFrames = 0
  MaxOutputs = 3
  MaxChanges = 0
INVARIANT
  WrittenWhenIdle
CHECK_DEADLOCK FALSE
