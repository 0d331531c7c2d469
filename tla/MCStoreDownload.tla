--------------------------- MODULE MCStoreDownload ---------------------------
(***************************************************************************)
(* StoreDownload on two tokens that are alternate charts of one song: they *)
(* compete for the song's file names and one's deletion removes the        *)
(* other's package.                                                        *)
(***************************************************************************)
EXTENDS StoreDownload, TLC

CONSTANTS a, b, s

MCTokens == {a, b}
MCSongs  == {s}
MCSongOf == (a :> s) @@ (b :> s)
=============================================================================
