CONSTANTS
  c1 = c1
  c2 = c2
  c3 = c3
  Clients <- ThreeClients
  MaxSockets = 2
  Prompt <- AllButThird
SPECIFICATION AnsweringSpec
INVARIANTS TypeOK OneAcceptPending  TwoOperations
PROPERTIES ClientsAccepted PromptReleased
CHECK_DEADLOCK FALSE
