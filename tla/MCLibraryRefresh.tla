--------------------------- MODULE MCLibraryRefresh ---------------------------
(***************************************************************************)
(* LibraryRefresh with one guest thread (the panel and the menu's poll on  *)
(* the same thread) or two, and one or two packages to install.            *)
(***************************************************************************)
EXTENDS LibraryRefresh

CONSTANTS panel, menu, p, q

OneThread  == {panel}
TwoThreads == {panel, menu}
=============================================================================
