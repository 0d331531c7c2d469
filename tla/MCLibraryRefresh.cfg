SPECIFICATION FairSpec
CONSTANTS
  panel = panel
  menu = menu
  p = p
  q = q
  Threads <- TwoThreads
  Panel = panel
  Store = Store
  Restart = Restart
  Nobody = Nobody
  Packages = {p, q}
  MaxAsks = 3
INVARIANTS
  ScanIsAlone
  BarrierHolds
  ListsAgree
PROPERTIES
  PanelResumes
  BarrierReturns
  EnumeratesOwnScan
