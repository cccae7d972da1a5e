SPECIFICATION Spec
CONSTANTS
  Peers = {"p1", "p2"}
  Output <- MCOutput
  Quit = "quit"
  NumLines = 3
  SndBuf = 5
  Exclusive = FALSE
  MaxConnects = 2
  MaxCommands = 3
INVARIANT
  ServerBufferAllocated
CHECK_DEADLOCK FALSE
