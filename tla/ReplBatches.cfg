SPECIFICATION Spec
CONSTANTS
  Lines <- AllLines
  Scopes <- AllScopes
  SensitiveWords = {"pw"}
  ExcludedLines <- Excl
  MaxEntries = 2
  Dedupe = TRUE
  ForceLimit = 1
  None = None
  Typed <- InBatches
  Picked <- NoPick
  BangLines <- Bangs
  ShellWords <- Shells
  Words <- Resolving
  RootWords <- Globals
  LeaveLines <- Leave
  Batches <- Sourced
  Rewrites <- Expanded
  Products <- Asking
  Queued <- Doing
  IOFails = TRUE
  MaxDepth = 2
  FirstFile <- EmptyFile
PROPERTIES OnlyAdmitted ChildLeavesPending
CHECK_DEADLOCK TRUE
