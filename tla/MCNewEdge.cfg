CONSTANTS
  None = None
  NoNumber = None
  Machines <- SmallMachines
  IsPlanar <- AllButK5
SPECIFICATION Spec
INVARIANT NewEdgeGetsNodesOfGraph
CHECK_DEADLOCK FALSE
