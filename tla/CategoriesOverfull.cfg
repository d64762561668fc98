SPECIFICATION Spec
CONSTANTS
  CategoryIds = {c1, c2, c3}
  MaxCategories = 2
  Results <- MCFewResults
  MaxChunk = 1
PROPERTIES
  RemovedAreUnused
