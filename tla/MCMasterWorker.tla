--------------------------- MODULE MCMasterWorker ---------------------------
(* Model-checking instance of MasterWorker. *)
EXTENDS MasterWorker

CONSTANTS m1, m2, w1, w2
=============================================================================
