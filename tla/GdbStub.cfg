SPECIFICATION Spec
CONSTANTS
  AddrSize = 96
  StackSize = 2
  EntryPc = 64
  EntrySp = 1
  PollEvery = 2
  Scenarios <- MCScenarios
  Requests <- MCRequests
CHECK_DEADLOCK FALSE
INVARIANTS
  TypeOK
  InSync
  StopsTrue
PROPERTIES
  Undisturbed
  Answered
