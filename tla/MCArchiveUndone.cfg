SPECIFICATION Spec
CONSTANTS
  MaxSessions = 2
  DefaultProvider = "codex"
INVARIANT NextMessageStartsFresh
