CONSTANTS
  Sources <- MCSources
  Steps <- AllSteps
  Labels = {"a"}
  Traversal = Traversal
  NoVar = NoVar
  NoEdge = NoEdge
  MaxSteps = 4
SPECIFICATION Spec
INVARIANT TypeOK
INVARIANT FreshNamesUnique
