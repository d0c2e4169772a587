SPECIFICATION Spec
CONSTANTS
  Processes = {p, q}
  Entries = {key, token}
  Secrets = {one, two}
  NoSecret = NoSecret
  Nobody = Nobody
  Faults = {"crash", "rollback", "sync", "outside"}
  Hosts = {"shell", "other"}
  Switchable = {"hi", "bye"}
  Below <- NoNames
  Outranking <- Above
  Overrides <- Over
  Nothing = Nothing
SYMMETRY Symmetric
INVARIANTS NoHiddenSecret ChoicesStand
PROPERTIES OthersUntouched FailedEditUndone DoneEditVisible
CHECK_DEADLOCK TRUE
