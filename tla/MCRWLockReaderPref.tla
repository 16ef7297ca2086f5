------------------------- MODULE MCRWLockReaderPref -------------------------
(* Model-checking instance of RWLockReaderPref. *)
EXTENDS RWLockReaderPref

CONSTANTS r1, r2, r3, w1, w2
=============================================================================
