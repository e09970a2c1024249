------------------------------ MODULE MCMftChunks ------------------------------
(* MftChunks for TLC: clusters of two records, a buffer of two or three     *)
(* records, runs out of order on the disk, and a run list that ends early.  *)
EXTENDS MftChunks

Run(lcn, nextVcn) == [lcn |-> lcn, nextVcn |-> nextVcn]

OneRun    == <<Run(1, 3)>>
Scrambled == <<Run(4, 1), Run(1, 2), Run(6, 3)>>
TwoRuns   == <<Run(5, 2), Run(0, 3)>>
CutShort  == <<Run(2, 1), Run(5, 2)>>

Layouts == {OneRun, Scrambled, TwoRuns, CutShort}
=============================================================================
