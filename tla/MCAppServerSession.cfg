SPECIFICATION FairSpec
CONSTANTS
  EventCap = 2
  MaxAttempts = 2
  MaxDeltas = 2
  MaxSteers = 1
INVARIANTS
  TypeOK
  ReaderNeverBlocks
  SteeredWasTaken
  ReplyComplete
  ActiveIsOpen
PROPERTIES
  RunReturns
  SteerReturns
  RpcSpec
