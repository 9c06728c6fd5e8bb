SPECIFICATION PartsSpec
CHECK_DEADLOCK FALSE
CONSTANTS
  Topics = {t1, t2}
  Poller = poller
  MaxMessages = 3
  Media = {2, 3}
  MaxDirs = 2
  MaxReturned = 1
  MaxNamed = 1
  DefaultProvider = "codex"
  CodexLists <- MCCodexLists
  ConfigModels = {"", "old"}
  ConfigEffort = ""
  ConfigTier = "flex"
  GeminiModels = {"flash"}
  GeminiDefault = "flash"
  Levels <- MCLevels
  DefaultLevel <- MCDefaultLevel
  Efforts = {"low", "high", "none"}
  Clients = {"server", "cli", "gemini"}
  MaxCommands = 3
  MaxWrites = 3
  PipeCap = 1
  MaxBackups = 3
  FileLines = 2
  MaxLines = 11
  MaxLogFaults = 3
  MaxText = 8
  ChunkMax = 4
  Window = 2
INVARIANTS
  PartsTypeOK
  AwakeWhileWorking
  GeneratedIsReturned
  OwnAttachmentsStay
  DirectoryPerTopic
  LaunchFitsProvider
  ModesAgree
  CliOutcome
  LogKeepsOrder
  SplitKeepsText
PROPERTIES
  CliRunEnds
