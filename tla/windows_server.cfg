SPECIFICATION FairSpec
CONSTANTS
  Clients <- MCClients
  Requests <- MCRequests
  None <- MCNone
  MaxRequests <- MCOnce
CHECK_DEADLOCK FALSE
INVARIANT ServerObjectsValid
PROPERTY ServerGoesOn
