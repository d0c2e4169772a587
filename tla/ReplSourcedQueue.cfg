SPECIFICATION Spec
CONSTANTS
  Lines <- AllLines
  Scopes <- AllScopes
  SensitiveWords = {"pw"}
  ExcludedLines <- Excl
  MaxEntries = 3
  Dedupe = TRUE
  ForceLimit = 1
  None = None
  Typed <- Batch
  Picked <- NoPick
  BangLines <- NoBangs
  ShellWords <- Shells
  Words <- Resolving
  RootWords <- Globals
  LeaveLines <- Leave
  Batches <- SourcedAsk
  Rewrites <- NoRewrites
  Products <- Asking
  Queued <- Doing
  IOFails = FALSE
  MaxDepth = 3
  FirstFile <- EmptyFile
PROPERTIES ParentStaysPending
CHECK_DEADLOCK TRUE
