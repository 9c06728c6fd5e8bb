SPECIFICATION FairSpec
CONSTANTS
  MaxUpdates = 5
  Limit = 2
  Silent = {2, 3}
  MaxFaults = 3
INVARIANTS
  TypeOK
  NoUpdateSkipped
  OncePerLife
  RedeliveryBound
PROPERTIES
  CursorMonotone
  EveryUpdateHandled
