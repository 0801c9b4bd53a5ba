SPECIFICATION Spec
CONSTANTS
  Jobs <- MCJobs
  Plugins <- MCPlugins
  Beyond <- MCBeyond
  Careful <- MCCareful
  MaxRequests = 1
  StackReach = 64
INVARIANTS
  TypeOK
  RomKept
  Transparent
  JobsRight
  RegistersExact
PROPERTIES
  AllEnd
