CONSTANTS
  Sources <- MCSources
  Steps <- WriteSteps
  Labels = {"a"}
  Traversal = Traversal
  NoVar = NoVar
  NoEdge = NoEdge
  MaxSteps = 5
SPECIFICATION Spec
INVARIANT GeneratedRefsBound
