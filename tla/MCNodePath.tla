------------------------------ MODULE MCNodePath ------------------------------
(* NodePath for TLC: $MFT, the root and three or four records below it,    *)
(* enough for a loop that the test of two consecutive nodes cannot see.    *)
EXTENDS NodePath

ThreeRecords == {0, 5, 6, 7, 8}
FourRecords  == {0, 5, 6, 7, 8, 9}
=============================================================================
