---------------------------- MODULE MCZemaphore ----------------------------
(* Model-checking instance of Zemaphore: one semaphore that starts open    *)
(* and one that starts closed.                                             *)
EXTENDS Zemaphore, TLC

CONSTANTS t1, t2, t3, t4, open, closed

OneOpen == open :> 1 @@ closed :> 0

SymmetricThreads == Permutations({t1, t2, t3, t4})
=============================================================================
