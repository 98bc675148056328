SPECIFICATION FairSpec
CONSTANT Sources <- Texts
INVARIANTS LexerTypeOK ContextsNest ScannerContext TokensNest TokensConsume StaysInText LocationsAscend LinesPassed
PROPERTY EndsOrSpins
