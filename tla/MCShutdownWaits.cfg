CONSTANTS
  c1 = c1
  c2 = c2
  c3 = c3
  Clients <- ThreeClients
  MaxSockets = 2
  Prompt <- ThreeClients
SPECIFICATION ThreadSpec
PROPERTIES ClientsAccepted
CHECK_DEADLOCK FALSE
