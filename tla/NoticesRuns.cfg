SPECIFICATION Spec
CONSTANTS
  Runs = {outer, inner}
  MaxPending = 2
  Capacity = 1
  MaxPosts = 5
  Startup = Startup
  None = None
INVARIANTS NoticesKept SummariesCount EarlierRunsSilent
PROPERTIES NoticesFlow
CHECK_DEADLOCK TRUE
