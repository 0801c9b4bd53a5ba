SPECIFICATION Spec
CONSTANTS
  AddrSize = 96
  StackSize = 3
  EntryPc = 64
  EntrySp = 2
  MaxSteps = 20
  Scenarios <- MCScenarios
INVARIANTS
  ScheduleKept
  TimerPhase
  IdleStopIsFinal
PROPERTIES
  HaltedWaitsForSchedule
