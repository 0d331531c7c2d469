SPECIFICATION Application
CONSTANTS
  Nothing = Nothing
  MaxAsks = 3
  ColdCount <- TwoPackages
  WarmCount <- ThreePackages
  ColdCaches <- NoCache
  WarmCaches <- FullCache
  Ahead = 1
  Behind = 0
  Resident = 2
  Strikes = 1
  Batch = 1
  MaxEpoch = 1
  MaxAttempts = 2
INVARIANTS
  ApplicationTypeOK
  OneGame
  OneLedgerWriter
  StreamIsMounted
PROPERTIES
  ChildDecides
  ReleasedIsCurrent
  GateAnswers
  LibraryPlaysOn
\* The process ends, the window is closed: all may rest.
CHECK_DEADLOCK FALSE
