SPECIFICATION FairSpec
CONSTANTS
  a = a
  b = b
  s = s
  Tokens <- MCTokens
  NoToken = NoToken
  Songs <- MCSongs
  SongOf <- MCSongOf
  MaxQueued = 2
  MaxOffers = 1
  MaxRetries = 1
  MaxCopies = 2
  NoPath = NoPath
INVARIANTS
  OneWorker
  QueueWellFormed
  InstalledIsOnDisk
PROPERTIES
  ImplementsInstallQueue
  QueuedIsServed
