SPECIFICATION Spec
CONSTANTS
  a = a
  b = b
  s = s
  Tokens <- MCTokens
  NoToken = NoToken
  Songs <- MCSongs
  SongOf <- MCSongOf
  MaxQueued = 2
  MaxOffers = 2
  MaxRetries = 0
  MaxCopies = 2
  NoPath = NoPath
PROPERTY CancelHitsItsJob
