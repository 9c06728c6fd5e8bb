SPECIFICATION Spec
CONSTANT MaxMsgs = 3
INVARIANT SilentWhenIdle
