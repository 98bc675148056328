SPECIFICATION Spec
CONSTANTS
  Literals <- MCLiterals
  Versions <- MCVersions
  SizeMax = 31
INVARIANTS
  OutlineAgrees
  SizeIsExact
  ReadsBack
PROPERTIES
  LiteralsEnd
