SPECIFICATION Spec
CONSTANTS
  EventCap = 2
  MaxAttempts = 2
  MaxDeltas = 0
  MaxSteers = 1
PROPERTY NoTransportNoise
