SPECIFICATION FairSpec
CONSTANT MaxMsgs = 4
INVARIANTS
  TypeOK
  SingleFlight
  SendNeverBlocks
  OwnedOnce
  ArrivalOrder
  TurnOfThisRun
  TypingWhileWorking
PROPERTIES
  RunEnds
  FollowUpsDrain
  SerialTopicSpec
