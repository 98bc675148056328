SPECIFICATION FairSpec
CONSTANTS
  Alphabet <- AnyToken
  MaxTokens = 5
  IndexGiven = {FALSE}
INVARIANTS TypeOK StackShape DeliveredKind NoInternalError
PROPERTIES Terminates
