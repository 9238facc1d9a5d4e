SPECIFICATION FairSpec
CONSTANTS
  Requests <- MCRequests
  ErrCodes <- MCErrCodes
CHECK_DEADLOCK FALSE
INVARIANTS
  TypeOK
  TruthfulSuccess
  NoSubstitute
  CodeReachesCaller
PROPERTIES
  CallerIsTold
  DeadlineEndsCall
