------------------------- MODULE MCSqlitePersistence -------------------------
(* SqlitePersistence for TLC. *)
EXTENDS SqlitePersistence, TLC

CONSTANTS form, console, k1, r1
=============================================================================
