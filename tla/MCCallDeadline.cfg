SPECIFICATION FairSpec
CONSTANTS
  Requests <- MCRequests
  ErrCodes <- MCErrCodes
CHECK_DEADLOCK FALSE
PROPERTIES
  InterceptorRaces
