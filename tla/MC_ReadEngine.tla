---------------------------- MODULE MC_ReadEngine ----------------------------
EXTENDS ReadEngine, TLC

CONSTANTS h1, h2, f1, f2

MC_Handles == {h1, h2}
MC_Files == {f1, f2}
\* Two files of different lengths, so that a byte of one at an offset the
\* other lacks, and a short read, can both happen.
MC_FileLen == (f1 :> 4) @@ (f2 :> 2)
MC_Symmetry == Permutations(MC_Handles)
=============================================================================
