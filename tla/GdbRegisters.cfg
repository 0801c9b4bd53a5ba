SPECIFICATION Spec
CONSTANTS
  Jobs <- MCJobs
  Plugins <- MCPlugins
  Beyond <- MCBeyond
  Careful = {}
  MaxRequests = 1
  StackReach = 64
INVARIANTS
  SavedRestores
