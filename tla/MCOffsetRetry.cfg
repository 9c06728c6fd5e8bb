SPECIFICATION Spec
CONSTANTS
  MaxUpdates = 2
  Limit = 2
  Silent = {}
  MaxFaults = 2
INVARIANT UnsavedIsRetried
