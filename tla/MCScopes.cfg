SPECIFICATION Spec
CONSTANTS
  Alphabet <- ScopeTokens
  MaxTokens = 10
  IndexGiven = {TRUE, FALSE}
INVARIANTS AmbientInherited PlacedInModule ExportAssignmentAlone
