SPECIFICATION FilesSpec
CHECK_DEADLOCK FALSE
CONSTANTS
  Topics = {t1, t2}
  Poller = poller
  MaxMessages = 2
  Media = {1, 2}
  MaxDirs = 2
  MaxReturned = 1
  MaxNamed = 1
PROPERTIES
  SteeredFilesInRunDirectory
