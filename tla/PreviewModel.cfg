SPECIFICATION PreviewSpec
CONSTANTS
  WidgetIds = {"a", "b", "c"}
  IconActions = {"c"}
  Definitions <- MCDefinitions
  Layouts <- MCLayouts
  MaxColumns = 2
  MaxObjects = 6
  MaxPreviews = 2
  MaxUpdates = 1
  Threads = {t1, t2}
  MaxPushes = 2
  MaxRequests = 2
  Null = Null
CHECK_DEADLOCK FALSE
INVARIANTS
  IndexMatchesRows
  ShowsWhatArrived
  PreviewArrives
