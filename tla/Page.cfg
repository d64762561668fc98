SPECIFICATION PageSpec
CONSTANTS
  CategoryIds = {c1, c2, c3, c4}
  MaxCategories = 4
  Results <- MCResults
  MaxChunk = 2
  RowResults = {r1, r2, r3}
  MaxRowChunk = 3
  Parent <- MCParent
  Views <- MCViews
  Root = ""
  None = None
  MaxModels = 1
  MaxChanges = 1
  Titles = {"A", "B"}
  Queries = {None, q1}
  Documents <- MCDocuments
  Unreadable = {"bad"}
  Defaults <- MCDefaults
  Known = {"title", "art", "attributes"}
  RowAttributes = 3
INVARIANTS
  PageShowsSearch
  RowsAreAccountedFor
  NavigationFollows
  LooksAsRegistered
PROPERTIES
  ImplementsResultList
