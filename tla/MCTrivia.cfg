SPECIFICATION TranscriptSpec
CONSTANTS
  Alphabet <- TriviaTokens
  MaxTokens = 7
  IndexGiven = {TRUE, FALSE}
INVARIANTS IndexSorted NewlineNotInvented ImportEndsAtLineBreak
