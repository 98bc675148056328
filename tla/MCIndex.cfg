SPECIFICATION Spec
CONSTANTS
  Place <- MCPlace
  TokenKind <- MCTokenKind
  IndexedKind <- MCIndexedKind
  MaxEntries = 4
INVARIANTS
  SortedIsAscending
PROPERTIES
  ImplementsLocationIndex
