---------------------------- MODULE MCAtomicFile ----------------------------
(* Small instances of AtomicFile for TLC.                                  *)
EXTENDS AtomicFile, TLC

CONSTANTS w1, w2, w3

Symmetry == Permutations(Writers)
=============================================================================
