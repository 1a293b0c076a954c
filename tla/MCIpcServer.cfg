SPECIFICATION Spec
CHECK_DEADLOCK FALSE
CONSTANTS
  Clients <- MCClients
  MaxActive = 2
  MaxHandlers = 4
INVARIANTS
  AnswerIsOfTheRequest
PROPERTIES
  StopEnds
