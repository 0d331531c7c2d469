--------------------------- MODULE MCSongLoadMonitor ---------------------------
(* Three settings of the guard (off, one and two clock units), two loads and  *)
(* a clock of four: an expired load, a later one armed with another limit and *)
(* a stale read of the first all fit.                                         *)
EXTENDS SongLoadMonitor

MCTimeouts == {0, 1, 2}

================================================================================
