SPECIFICATION ServicesSpec
CONSTANTS
  Packages = {p, q}
  Null = Null
  None = None
  MaxRevision = 3
  Filters = {f, g}
  MaxCommits = 1
  CataloguePages = 3
  MaxAhead = 0
  Queries = {q1, q2}
  Short = Short
  SearchPages = 2
  MaxQueries = 4
  Magic = 2
  Ceiling = 4
  Buffered = 2
  MaxHops = 1
  MaxRetries = 1
  Keys = {k1, k2, k3}
  Callers = {guest, catalogue}
  MaxQueued = 2
  NoKey = NoKey
INVARIANTS
  ServicesTypeOK
  IndexIsCurrent
  CurrentUnlessTorn
  ListedIsAnswer
  AcceptedIsTheBody
  PendingIsOwed
PROPERTIES
  RequestedIndexArrives
  WalkEnds
  ModalEnds
  CancelIsHonoured
\* Every service may come to rest: the process ends, the job is over.
CHECK_DEADLOCK FALSE
