--------------------------- MODULE MCSettingsCommit ---------------------------
(***************************************************************************)
(* SettingsCommit with one row in each file and three values: the native   *)
(* row's compiled default and two others, for the player's edits and       *)
(* another writer's.                                                       *)
(***************************************************************************)
EXTENDS SettingsCommit, TLC

CONSTANTS n, p, v0, v1, v2

MCValues == {v0, v1, v2}
MCDefault == [r \in Natives |-> v0]
Symmetry == Permutations({v1, v2})
=============================================================================
