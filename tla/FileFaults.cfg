SPECIFICATION Spec
CONSTANTS
  Processes = {p, q}
  Edits = {one, two}
  TempNames = {m, n}
  Attempts = 1
  Faults = {"io", "crash", "power"}
  Torn = {damage}
  NoFile = NoFile
  NoEdit = NoEdit
  Nobody = Nobody
SYMMETRY Symmetric
INVARIANTS TargetWhole NoUpdateLost SyncedSurvives AllOrNothing NoLitter
PROPERTIES SharedFile
CHECK_DEADLOCK TRUE
