SPECIFICATION Spec
CONSTANTS
  Lines <- AllLines
  Scopes <- AllScopes
  SensitiveWords = {"pw"}
  ExcludedLines <- Excl
  MaxEntries = 2
  Dedupe = TRUE
  ForceLimit = 1
  None = None
  Typed <- InShells
  Picked <- Pick
  BangLines <- Bangs
  ShellWords <- Shells
  Words <- Resolving
  RootWords <- Globals
  LeaveLines <- Leave
  Batches <- NoBatches
  Rewrites <- NoRewrites
  Products <- Asking
  Queued <- Elsewhere
  IOFails = FALSE
  MaxDepth = 3
  FirstFile <- FileBefore
INVARIANTS MemoryFollowsFile
PROPERTIES KeptLineIsOnDisk
CHECK_DEADLOCK TRUE
