SPECIFICATION Spec
CONSTANTS
  AddrSize = 96
  StackSize = 3
  EntryPc = 64
  EntrySp = 2
  Boards <- MCBoards
  DisciplinedBoards <- MCDisciplined
INVARIANTS
  TypeOK
  CriticalSection
  EIShadow
  HaltedNotArmed
  NestingBounded
PROPERTIES
  RequestsSurvive
  Rst75Served
