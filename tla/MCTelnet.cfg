SPECIFICATION FairSpec
CONSTANTS
  Peers = {"p1", "p2"}
  Output <- MCOutput
  Quit = "quit"
  NumLines = 3
  SndBuf = 5
  Exclusive = TRUE
  MaxConnects = 2
  MaxCommands = 3
INVARIANTS
  AcceptCounts
  MemoryAccounted
  OutputInOrder
  ServerBufferAllocated
PROPERTY
  OutputLeaves
CHECK_DEADLOCK FALSE
