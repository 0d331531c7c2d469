SPECIFICATION FairMenu
CONSTANTS
  panel = panel
  menu = menu
  p = p
  q = q
  Threads <- OneThread
  Panel = panel
  Store = Store
  Restart = Restart
  Nobody = Nobody
  Packages = {p, q}
  MaxAsks = 2
PROPERTIES
  InstallIsPublished
