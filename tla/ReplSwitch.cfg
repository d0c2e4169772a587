SPECIFICATION Spec
CONSTANTS
  Lines <- AllLines
  Scopes <- AllScopes
  SensitiveWords = {"pw"}
  ExcludedLines <- Excl
  MaxEntries = 3
  Dedupe = TRUE
  ForceLimit = 1
  None = None
  Typed <- Switches
  Picked <- NoPick
  BangLines <- NoBangs
  ShellWords <- Shells
  Words <- Resolving
  RootWords <- Globals
  LeaveLines <- Leave
  Batches <- NoBatches
  Rewrites <- NoRewrites
  Products <- NoQueue
  Queued <- NoQueue
  IOFails = FALSE
  MaxDepth = 3
  FirstFile <- EmptyFile
PROPERTIES AdmittedLineIsOnDisk
CHECK_DEADLOCK TRUE
