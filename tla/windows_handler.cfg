SPECIFICATION FairSpec
CONSTANTS
  App <- MCApp
  Handlers <- MCHandlers
  Setups <- MCSetups
  None <- MCNone
  MaxIncidents = 2
CHECK_DEADLOCK FALSE
INVARIANT HandlersInTurn
PROPERTY HandlerCallsReturn
