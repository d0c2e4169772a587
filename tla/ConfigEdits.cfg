SPECIFICATION Spec
CONSTANTS
  Keys <- ThreeKeys
  Profiles = {"work", "home"}
  Terminals = {"repl"}
  Values <- AllValues
  Refs <- References
  Declared = {"ext.token"}
  Active = "work"
  Terminal = "repl"
  None = None
  TableOrder <- AllTables
  ScopeOf <- Scoping
  Exact <- Normalized
  Outer <- Nesting
  NameOrder <- AllNames
  KeyOf <- Named
  Display <- Shown
  Offered <- Inputs
  ProductDefaults <- Defaults
  FirstFiles <- Files
  FirstVaults <- Vaults
  Environments <- Variables
  MaxEdits = 2
  OutsideEdits <- Others
  MaxOutside = 1
INVARIANTS ExpansionSound
PROPERTIES EditsAreExact CommandsTakeEffect SetKeepsUsable
CHECK_DEADLOCK TRUE
