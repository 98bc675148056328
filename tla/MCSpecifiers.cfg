SPECIFICATION TranscriptSpec
CONSTANTS
  Alphabet <- SpecifierTokens
  MaxTokens = 10
  IndexGiven = {FALSE}
INVARIANTS SpecifiersAsWritten
