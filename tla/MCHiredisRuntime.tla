--------------------------- MODULE MCHiredisRuntime ---------------------------
(* Small instances of HiredisRuntime for TLC.                              *)
EXTENDS HiredisRuntime, TLC

CONSTANTS j1, j2, j3, w1, w2

WorkerSymmetry == Permutations(Workers)
===============================================================================
