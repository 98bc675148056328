SPECIFICATION TranscriptSpec
CONSTANTS
  Alphabet <- ImportTokens
  MaxTokens = 9
  IndexGiven = {FALSE}
INVARIANTS ImportAgreement ImportWellFormed
