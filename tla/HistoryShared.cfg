SPECIFICATION Spec
CONSTANTS
  Sessions = {a, b}
  Lines <- ShellLines
  Scopes <- LdapOrRoot
  SensitiveWords = {"pw"}
  ExcludedLines <- PublicExclusions
  Typed <- TwoSorts
  Keeps <- KeepNoneOrOne
  Patterns <- OnePattern
  Remembered <- NoLines
  MaxEntries = 2
  Dedupe = TRUE
  ForceLimit = 1
  Persistent = {a, b}
  HasLegacy = FALSE
  LegacyFile <- EmptyFile
  FirstFile <- OneSecret
  None = None
  NoFile = NoFile
  Nobody = Nobody
SYMMETRY Processes
INVARIANTS PendingIsNewest
PROPERTIES PendingEndsOnDisk SharedLog SecretsStayOut
CHECK_DEADLOCK TRUE
