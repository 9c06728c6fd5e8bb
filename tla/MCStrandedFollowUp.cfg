SPECIFICATION Spec
CONSTANT MaxMsgs = 2
INVARIANT NoStrandedFollowUp
