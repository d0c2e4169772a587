SPECIFICATION StateSpec
CONSTANTS
  r1 = r1
  both = both
  own = own
  plain = plain
  secret = secret
  first = first
  Processes = {r1, r2}
  Keys = {both, own}
  Entries = {plain, secret}
  Persists <- Differ
  Protected <- Redacts
  SyncFails = TRUE
  None = None
  Nobody = Nobody
  Lists = {first, second}
  Children <- Sourced
  Files = {f1, f2}
  Nil = Nil
  MaxWalk = 3
  MaxBlocks = 2
  MaxOutput = 1
  Products <- Produced
  Stages <- Typed
  Null = Null
  MaxStages = 4
INVARIANTS WayBack RecordingsAreWhole PresentationFits GroupingIsExact
PROPERTIES SelectionsPreserved SaveTakesEffect SecretsNotWritten
CHECK_DEADLOCK TRUE
