SPECIFICATION Spec
CONSTANTS
  Nets <- MCNets
  AcyclicNets <- MCAcyclic
  MaxPasses = 6
INVARIANTS
  TypeOK
  AcyclicSettles
  ConflictsReported
PROPERTIES
  Implements
