SPECIFICATION Spec
CONSTANTS
  ByName <- MCByName
  ClickScope = "click"
  Invisible = {"hidden"}
  FirstInstalled = {"a", "b", "hidden"}
  FirstFavorites <- MCFavorites
  NoScope = NoScope
  OtherRegistries <- MCOtherRegistries
  OtherFavorites <- MCOtherFavorites
  MaxChanges = 0
  MaxCommands = 1
  MaxFailures = 1
CHECK_DEADLOCK FALSE
PROPERTIES
  OnlyUninstalledAreDropped
