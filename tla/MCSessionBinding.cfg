SPECIFICATION Spec
CONSTANTS
  MaxSessions = 3
  DefaultProvider = "codex"
INVARIANTS
  TypeOK
  ProviderOwnsBinding
  ArchiveReachesOwner
  ResumedByOwner
  SettledStaysArchived
