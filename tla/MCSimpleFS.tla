----------------------------- MODULE MCSimpleFS -----------------------------
(* Model-checking instance of SimpleFS: blocks of two bytes, files of two  *)
(* blocks, and three data blocks for two files.                            *)
EXTENDS SimpleFS, TLC

CONSTANTS byteA, byteB, f, g

SomeData == {<<byteA>>, <<byteB, byteA, byteB>>}
SymmetricNames == Permutations({f, g})
=============================================================================
