------------------------------ MODULE Pthread ------------------------------
(***************************************************************************)
(* The POSIX thread primitives the programs call, as operators over the    *)
(* state of the module that uses them (the library itself is not part of   *)
(* the repository).                                                        *)
(*                                                                         *)
(* A mutex is the set of threads that own it: {} when it is free, {t} when *)
(* t holds it.  A condition variable is the set of threads asleep on it.   *)
(* A thread outside that set whose call of pthread_cond_wait has not       *)
(* returned has been woken and competes for the mutex with every other     *)
(* thread: POSIX hands the mutex to nobody in particular.                  *)
(***************************************************************************)
EXTENDS Integers, FiniteSets

Free == {}

MutexStates(threads) == {Free} \cup {{t} : t \in threads}

(* pthread_cond_signal wakes one sleeper of the scheduler's choice and is  *)
(* lost when nobody sleeps.  The result is the set of possible wait sets.  *)
CondSignal(sleepers) ==
  IF sleepers = {} THEN {{}} ELSE {sleepers \ {t} : t \in sleepers}

CondBroadcast(sleepers) == {{}}
=============================================================================
