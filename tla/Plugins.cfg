SPECIFICATION FairSpec
CONSTANTS
  Processes = {here, there}
  Runners = {here}
  Editors = {here, there}
  Order <- SearchOrder
  Name <- Provides
  File <- Behind
  Folded <- Same
  Plain = {1}
  MaxVersions = 2
  MaxCommands = 2
  MaxStdout = 2
  MaxWritten = 3
  Failed = Failed
  None = None
INVARIANTS CacheIsHonest OneProviderPerName CapturedIsComplete
PROPERTIES SearchEnds RunEnds
CHECK_DEADLOCK FALSE
