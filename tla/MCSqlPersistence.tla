--------------------------- MODULE MCSqlPersistence ---------------------------
(* SqlPersistence for TLC: two machines, so that statements of two calls   *)
(* interleave, and enough sightings for a row to be made, updated and      *)
(* merged.                                                                 *)
EXTENDS SqlPersistence, TLC

CONSTANTS s1, s2, k1, k2, r1, r2

TwoScanners == {s1, s2}
TwoKeys     == {k1, k2}
TwoRules    == {r1, r2}

MachineSymmetry == Permutations(TwoScanners)
=============================================================================
