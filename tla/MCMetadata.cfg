SPECIFICATION Spec
CONSTANTS
  Calls <- MCCalls
  HeaderNames <- MCHeaderNames
  TrailerNames <- MCTrailerNames
  Values <- MCValues
CHECK_DEADLOCK FALSE
INVARIANTS
  TypeOK
  CallerComesFirst
  InnermostDeadline
  ObserversSeeWhatWasSent
  MetadataArrives
  ReplySaysWhatItIs
  DetailsArrive
