------------------------- MODULE MCRWLockWriterPref -------------------------
(* Model-checking instances of RWLockWriterPref: all threads on one lock,  *)
(* and one reader on a lock of its own.                                    *)
EXTENDS RWLockWriterPref

CONSTANTS r1, r2, r3, w1, w2, A, B

OneLock == [t \in Readers \cup Writers |-> A]
TwoLocks == [t \in Readers \cup Writers |-> IF t = r3 THEN B ELSE A]
=============================================================================
