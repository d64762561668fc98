SPECIFICATION ModelsSpec
CONSTANTS
  Items <- MCItems
  Inputs <- MCInputs
  Lists <- MCLists
  FilterValues = {0, 2}
  MaxFilterChanges = 2
  None = None
  NoValue = NoValue
  Settings <- MCSettings
  Location = "internal.location"
  Children = {"c1", "c2", "c3"}
  FirstChildren <- MCFirstChildren
  MaxChanges = 3
  MaxFaults = 1
  RowIds = {k1, k2}
  Attributes = {1, 2}
  Unmentioned = Unmentioned
  MaxRows = 2
INVARIANTS
  Synchronised
  FiltersAgree
  SheetHolds
  ModesAgree
PROPERTIES
  ResetRestoresDefaults
