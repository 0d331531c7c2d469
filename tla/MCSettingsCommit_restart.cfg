SPECIFICATION Spec
CONSTANTS
  n = n
  p = p
  v0 = v0
  v1 = v1
  v2 = v2
  Natives = {n}
  Providers = {p}
  Values <- MCValues
  Default <- MCDefault
  NoJournal = NoJournal
  MaxRevision = 2
SYMMETRY Symmetry
PROPERTY PartialBlocksRestart
