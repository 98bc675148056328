SPECIFICATION TranscriptSpec
CONSTANTS
  Alphabet <- TypeTokens
  MaxTokens = 9
  IndexGiven = {FALSE}
INVARIANTS AliasGrammar
