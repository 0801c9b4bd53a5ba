SPECIFICATION Spec
CONSTANTS
  Boards <- MCBoards
  ByteSize = 3
  Memory <- MCMemory
  MaxFile = 2
INVARIANTS
  OutFollowsTime
  LatchExact
  PortsShowBoard
  DiskExact
