SPECIFICATION ServicesSpec
CONSTANTS
  ByName <- MCByName
  ClickScope = "click"
  Invisible = {"hidden"}
  FirstInstalled = {"a", "b", "hidden"}
  FirstFavorites <- MCFavorites
  NoScope = NoScope
  OtherRegistries <- MCOtherRegistries
  OtherFavorites <- MCOtherFavorites
  MaxChanges = 2
  MaxCommands = 3
  MaxFailures = 1
  Pages = {"near", "other"}
  Owner = "near"
  Settings <- MCSettings
  LocationRow = "internal.location"
  NoValue = NoValue
  MaxEvents = 2
  MaxEdits = 1
  MaxFaults = 1
CHECK_DEADLOCK FALSE
INVARIANTS
  ListsAgree
  WaitingQueriesAreListed
  LocationFollowsTokens
PROPERTIES
  NoProgrammaticPrompt
  LocationNeedsConsent
