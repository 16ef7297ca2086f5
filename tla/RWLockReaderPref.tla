-------------------------- MODULE RWLockReaderPref --------------------------
(***************************************************************************)
(* rwlock-reader-pref.cpp: a read-write lock made of one mutex, two        *)
(* condition variables and the counter resource_cnt (-1 while a writer     *)
(* holds the lock, otherwise the number of readers).  Each thread runs the *)
(* body of Reader or Writer of test-reader-pref.cpp: lock, use, unlock.    *)
(*                                                                         *)
(* A call is split where another thread can run: taking the mutex, and the *)
(* code under the mutex up to its release (unlock, or the sleep in         *)
(* pthread_cond_wait).                                                     *)
(***************************************************************************)
EXTENDS Pthread

CONSTANTS Readers, Writers

ASSUME ThreadsAssumption ==
  /\ IsFiniteSet(Readers)
  /\ Readers \cap Writers = {}

Threads == Readers \cup Writers

VARIABLES
  lock,           \* the mutex
  read_phase,     \* readers asleep
  write_phase,    \* writers asleep
  resource_cnt,   \* -1: a writer is in; n >= 0: n readers are in
  pc              \* where each thread is

vars == <<lock, read_phase, write_phase, resource_cnt, pc>>

-----------------------------------------------------------------------------
Goto(t, to) == pc' = [pc EXCEPT ![t] = to]

TakeMutex(t, from, to) ==
  /\ pc[t] = from
  /\ lock = Free
  /\ lock' = {t}
  /\ Goto(t, to)
  /\ UNCHANGED <<read_phase, write_phase, resource_cnt>>

Init ==
  /\ lock = Free
  /\ read_phase = {} /\ write_phase = {}
  /\ resource_cnt = 0
  /\ pc = [t \in Threads |-> "start"]

(* The first step of a lock call, and of an unlock call. *)
Lock(t) == TakeMutex(t, "start", "test")
Unlock(t) == TakeMutex(t, "hold", "release")

(* pthread_cond_wait returns: the thread was woken and gets the mutex.     *)
WaitReturns(t) ==
  /\ t \notin read_phase \cup write_phase
  /\ TakeMutex(t, "wait", "test")

(* pthread_cond_wait may wake without a signal. *)
SpuriousWakeup(t) ==
  /\ t \in read_phase \cup write_phase
  /\ read_phase' = read_phase \ {t}
  /\ write_phase' = write_phase \ {t}
  /\ UNCHANGED <<lock, resource_cnt, pc>>

(* The loop of ReaderLock: its condition, and its sleep. *)
ReaderMustWaitNever == FALSE
ReaderMustWait == resource_cnt = -1

ReaderSleepsAsWriter(r) == write_phase' = write_phase \cup {r} /\ UNCHANGED read_phase
ReaderSleeps(r) == read_phase' = read_phase \cup {r} /\ UNCHANGED write_phase

ReaderLockTest(r) ==
  /\ pc[r] = "test"
  /\ lock' = Free
  /\ \/ /\ ReaderMustWait
        /\ ReaderSleeps(r)
        /\ Goto(r, "wait")
        /\ UNCHANGED resource_cnt
     \/ /\ ~ReaderMustWait
        /\ resource_cnt' = resource_cnt + 1
        /\ Goto(r, "hold")
        /\ UNCHANGED <<read_phase, write_phase>>

(* The last reader out wakes a writer. *)
WakeByReaderLost(cnt) == {write_phase}
WakeByReader(cnt) == IF cnt = 0 THEN CondSignal(write_phase) ELSE {write_phase}

ReaderUnlockBody(r) ==
  /\ pc[r] = "release"
  /\ resource_cnt' = resource_cnt - 1
  /\ write_phase' \in WakeByReader(resource_cnt')
  /\ lock' = Free
  /\ Goto(r, "done")
  /\ UNCHANGED read_phase

(* The loop condition of WriterLock. *)
WriterMustWaitForWriter == resource_cnt = -1
WriterMustWait == resource_cnt # 0

WriterLockTest(w) ==
  /\ pc[w] = "test"
  /\ lock' = Free
  /\ \/ /\ WriterMustWait
        /\ write_phase' = write_phase \cup {w}
        /\ Goto(w, "wait")
        /\ UNCHANGED resource_cnt
     \/ /\ ~WriterMustWait
        /\ resource_cnt' = -1
        /\ Goto(w, "hold")
        /\ UNCHANGED write_phase
  /\ UNCHANGED read_phase

(* WriterUnlock wakes every reader and one writer. *)
WakeReadersBySignal == CondSignal(read_phase)
WakeReaders == CondBroadcast(read_phase)

WriterUnlockBody(w) ==
  /\ pc[w] = "release"
  /\ resource_cnt' = 0
  /\ read_phase' \in WakeReaders
  /\ write_phase' \in CondSignal(write_phase)
  /\ lock' = Free
  /\ Goto(w, "done")

(* A thread may use the lock again. *)
CallAgain(t) ==
  /\ pc[t] = "done"
  /\ Goto(t, "start")
  /\ UNCHANGED <<lock, read_phase, write_phase, resource_cnt>>

-----------------------------------------------------------------------------
ReaderStep(r) == ReaderLockTest(r) \/ ReaderUnlockBody(r)
WriterStep(w) == WriterLockTest(w) \/ WriterUnlockBody(w)

Step(t) ==
  \/ Lock(t) \/ WaitReturns(t) \/ Unlock(t)
  \/ t \in Readers /\ ReaderStep(t)
  \/ t \in Writers /\ WriterStep(t)

(* The library: threads use the lock any number of times. *)
Next == \E t \in Threads : Step(t) \/ SpuriousWakeup(t) \/ CallAgain(t)
Spec == Init /\ [][Next]_vars

(* Every runnable thread is scheduled eventually, spurious wake-ups are    *)
(* not endless, and from some moment on nobody comes back for the lock (in *)
(* the test programs every thread uses it once).                           *)
Fairness ==
  /\ \A t \in Threads : WF_vars(Step(t))
  /\ <>[][\A t \in Threads : ~SpuriousWakeup(t) /\ ~CallAgain(t)]_vars
FairSpec == Spec /\ Fairness

-----------------------------------------------------------------------------
InLock(S) == {t \in S : pc[t] \in {"hold", "release"}}
Asking(S) == {t \in S : pc[t] \in {"test", "wait"}}
Awake(S) == {t \in Asking(S) : t \notin read_phase \cup write_phase}

TypeOK ==
  /\ lock \in MutexStates(Threads)
  /\ read_phase \in SUBSET Readers
  /\ write_phase \in SUBSET Writers
  /\ resource_cnt \in Int
  /\ pc \in [Threads -> {"start", "test", "wait", "hold", "release", "done"}]

(* The owner of the mutex is the one thread inside the code it protects,   *)
(* and only threads inside pthread_cond_wait sleep.                        *)
MutexInv ==
  /\ \A t \in Threads : lock = {t} <=> pc[t] \in {"test", "release"}
  /\ \A t \in read_phase \cup write_phase : pc[t] = "wait"

(* resource_cnt tells who is inside: -1 for one writer alone, otherwise    *)
(* the number of readers and no writer (the counter rwlock.h declares and  *)
(* every wait and wake-up decision rests on).                              *)
CountInv ==
  \/ /\ resource_cnt = -1
     /\ InLock(Readers) = {}
     /\ \E w \in Writers : InLock(Writers) = {w}
  \/ /\ resource_cnt = Cardinality(InLock(Readers))
     /\ InLock(Writers) = {}

(* No wake-up is lost: a reader sleeps only while a writer is inside (its  *)
(* WriterUnlock wakes all readers), and when the lock is free and a writer *)
(* sleeps, some writer is awake and about to test the counter.             *)
NoLostWakeup ==
  /\ read_phase # {} => resource_cnt = -1
  /\ write_phase # {} /\ resource_cnt = 0 => Awake(Writers) # {}

(* The code implements the read-write lock without writer preference.      *)
LockSpec == INSTANCE RWLock
  WITH LockOf <- [t \in Threads |-> 0], WriterPreference <- FALSE,
       waiting <- Asking(Threads), holding <- InLock(Threads)
ImplementsRWLock == LockSpec!Spec

(* When nobody comes back any more, every thread that asked for the lock   *)
(* gets it and returns: the pthread_join loop of the test's main ends.     *)
AllThreadsReturn == <>[](\A t \in Threads : pc[t] = "done")
=============================================================================
