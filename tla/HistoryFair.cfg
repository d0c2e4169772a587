SPECIFICATION FairSpec
CONSTANTS
  Sessions = {a, b, c}
  Lines <- RootLines
  Scopes <- AtRoot
  SensitiveWords = {"pw"}
  ExcludedLines <- PublicExclusions
  Typed <- OneLine
  Keeps <- KeepNone
  Patterns <- OnePattern
  Remembered <- InMemoryOnly
  MaxEntries = 1
  Dedupe = FALSE
  ForceLimit = 1
  Persistent = {a, b}
  HasLegacy = TRUE
  LegacyFile <- EmptyFile
  FirstFile = NoFile
  None = None
  NoFile = NoFile
  Nobody = Nobody

PROPERTIES OperationsEnd
CHECK_DEADLOCK TRUE
