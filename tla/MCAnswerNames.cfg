CONSTANTS
  None = None
  NoNumber = None
  Machines <- CompleteMachines
  IsPlanar <- AllButK5
SPECIFICATION Spec
INVARIANT AnswerNamesStates
CHECK_DEADLOCK FALSE
