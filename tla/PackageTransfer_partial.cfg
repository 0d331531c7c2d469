SPECIFICATION FairSpec
CONSTANTS
  Magic = 2
  Ceiling = 4
  Buffered = 2
  MaxHops = 1
  MaxRetries = 1
INVARIANT InstalledIsWhole
\* The job is over.
CHECK_DEADLOCK FALSE
