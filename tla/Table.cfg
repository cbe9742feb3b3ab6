SPECIFICATION Spec
CONSTANTS
  Values = {x, y}
  IndexedColumns = {key}
  UniqueColumns = {id}
  RefreshAt = 2
  MaxRows = 5
INVARIANTS
  SearchesAreRight
PROPERTIES
  ImplementsRowList
