CONSTANTS
  None = None
  NoNumber = None
  Machines <- AnyMachine
  IsPlanar <- AllButK5
SPECIFICATION Spec
INVARIANTS TypeOK EdgeSupport WellFormedIsSimple OneEntryPerState
CHECK_DEADLOCK FALSE
