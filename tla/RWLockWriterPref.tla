-------------------------- MODULE RWLockWriterPref --------------------------
(***************************************************************************)
(* rwlock-writer-pref.cpp: the read-write lock that keeps new readers out  *)
(* while a writer waits.  The mutex, the condition variables and the       *)
(* counter resource_cnt belong to each struct read_write_lock; the count   *)
(* waiting_writers is one global variable that all locks share, which is   *)
(* why the module has a set of locks.  Steps are cut as in                 *)
(* RWLockReaderPref.                                                       *)
(*                                                                         *)
(* Only writers change waiting_writers, each under the mutex of its own    *)
(* lock.  Writers of different locks would race on it (updates could be    *)
(* lost); the module assumes that all writers use one lock, so that an     *)
(* update is one step, while readers may use any lock.                     *)
(***************************************************************************)
EXTENDS Pthread

CONSTANTS Readers, Writers, Locks, LockOf

ASSUME ThreadsAssumption ==
  /\ IsFiniteSet(Readers) /\ IsFiniteSet(Writers)
  /\ Readers \cap Writers = {}
  /\ LockOf \in [Readers \cup Writers -> Locks]
  /\ \A v, w \in Writers : LockOf[v] = LockOf[w]

Threads == Readers \cup Writers

VARIABLES
  lock,              \* per lock: its mutex
  read_phase,        \* per lock: readers asleep
  write_phase,       \* per lock: writers asleep
  resource_cnt,      \* per lock: -1: a writer is in; n >= 0: n readers are in
  waiting_writers,   \* the global count of writers inside WriterLock
  pc                 \* where each thread is

vars == <<lock, read_phase, write_phase, resource_cnt, waiting_writers, pc>>

-----------------------------------------------------------------------------
Goto(t, to) == pc' = [pc EXCEPT ![t] = to]

TakeMutex(t, from, to) ==
  /\ pc[t] = from
  /\ lock[LockOf[t]] = Free
  /\ lock' = [lock EXCEPT ![LockOf[t]] = {t}]
  /\ Goto(t, to)
  /\ UNCHANGED <<read_phase, write_phase, resource_cnt>>

ReleaseMutex(t, to) ==
  /\ lock' = [lock EXCEPT ![LockOf[t]] = Free]
  /\ Goto(t, to)

SetCount(t, n) == resource_cnt' = [resource_cnt EXCEPT ![LockOf[t]] = n]

Init ==
  /\ lock = [l \in Locks |-> Free]
  /\ read_phase = [l \in Locks |-> {}]
  /\ write_phase = [l \in Locks |-> {}]
  /\ resource_cnt = [l \in Locks |-> 0]
  /\ waiting_writers = 0
  /\ pc = [t \in Threads |-> "start"]

ReaderLock(r) ==
  /\ TakeMutex(r, "start", "test")
  /\ UNCHANGED waiting_writers

(* A writer announces itself before it tests the counter. *)
WriterLock(w) ==
  /\ TakeMutex(w, "start", "test")
  /\ waiting_writers' = waiting_writers + 1

Unlock(t) ==
  /\ TakeMutex(t, "hold", "release")
  /\ UNCHANGED waiting_writers

Asleep(t) == t \in read_phase[LockOf[t]] \cup write_phase[LockOf[t]]

WaitReturns(t) ==
  /\ ~Asleep(t)
  /\ TakeMutex(t, "wait", "test")
  /\ UNCHANGED waiting_writers

SpuriousWakeup(t) ==
  /\ Asleep(t)
  /\ read_phase' = [read_phase EXCEPT ![LockOf[t]] = @ \ {t}]
  /\ write_phase' = [write_phase EXCEPT ![LockOf[t]] = @ \ {t}]
  /\ UNCHANGED <<lock, resource_cnt, waiting_writers, pc>>

(* The loop condition of ReaderLock, and its sleep. *)
ReaderMustWaitForHolder(r) == resource_cnt[LockOf[r]] = -1
ReaderMustWait(r) == resource_cnt[LockOf[r]] = -1 \/ waiting_writers > 0

ReaderSleepsAsWriter(r) ==
  /\ write_phase' = [write_phase EXCEPT ![LockOf[r]] = @ \cup {r}]
  /\ UNCHANGED read_phase
ReaderSleeps(r) ==
  /\ read_phase' = [read_phase EXCEPT ![LockOf[r]] = @ \cup {r}]
  /\ UNCHANGED write_phase

ReaderLockTest(r) ==
  /\ pc[r] = "test"
  /\ \/ /\ ReaderMustWait(r)
        /\ ReaderSleeps(r)
        /\ ReleaseMutex(r, "wait")
        /\ UNCHANGED resource_cnt
     \/ /\ ~ReaderMustWait(r)
        /\ SetCount(r, resource_cnt[LockOf[r]] + 1)
        /\ ReleaseMutex(r, "hold")
        /\ UNCHANGED <<read_phase, write_phase>>
  /\ UNCHANGED waiting_writers

(* The last reader out wakes a writer. *)
WakeByReaderLost(l, cnt) == {write_phase[l]}
WakeByReader(l, cnt) ==
  IF cnt = 0 THEN CondSignal(write_phase[l]) ELSE {write_phase[l]}

ReaderUnlockBody(r) ==
  LET l == LockOf[r]
      cnt == resource_cnt[l] - 1
  IN  /\ pc[r] = "release"
      /\ SetCount(r, cnt)
      /\ \E ws \in WakeByReader(l, cnt) :
           write_phase' = [write_phase EXCEPT ![l] = ws]
      /\ ReleaseMutex(r, "done")
      /\ UNCHANGED <<read_phase, waiting_writers>>

WriterMustWait(w) == resource_cnt[LockOf[w]] # 0

(* The count of waiting writers when one of them gets the lock. *)
WritersLeftUncounted == waiting_writers
WritersLeft == waiting_writers - 1

WriterLockTest(w) ==
  /\ pc[w] = "test"
  /\ \/ /\ WriterMustWait(w)
        /\ write_phase' = [write_phase EXCEPT ![LockOf[w]] = @ \cup {w}]
        /\ ReleaseMutex(w, "wait")
        /\ UNCHANGED <<resource_cnt, waiting_writers>>
     \/ /\ ~WriterMustWait(w)
        /\ waiting_writers' = WritersLeft
        /\ SetCount(w, -1)
        /\ ReleaseMutex(w, "hold")
        /\ UNCHANGED write_phase
  /\ UNCHANGED read_phase

(* WriterUnlock wakes one waiting writer, and the readers when none waits. *)
WakeAnyWriter(l) ==
  /\ UNCHANGED read_phase
  /\ \E ws \in CondSignal(write_phase[l]) :
       write_phase' = [write_phase EXCEPT ![l] = ws]
WakeReaders(l) ==
  /\ \E rs \in CondBroadcast(read_phase[l]) :
       read_phase' = [read_phase EXCEPT ![l] = rs]
  /\ UNCHANGED write_phase
WakeByWriterAlwaysWriter(l) == WakeAnyWriter(l)
WakeByWriter(l) == IF waiting_writers > 0 THEN WakeAnyWriter(l) ELSE WakeReaders(l)

WriterUnlockBody(w) ==
  /\ pc[w] = "release"
  /\ SetCount(w, 0)
  /\ WakeByWriter(LockOf[w])
  /\ ReleaseMutex(w, "done")
  /\ UNCHANGED waiting_writers

(* A thread may use its lock again. *)
CallAgain(t) ==
  /\ pc[t] = "done"
  /\ Goto(t, "start")
  /\ UNCHANGED <<lock, read_phase, write_phase, resource_cnt, waiting_writers>>

-----------------------------------------------------------------------------
ReaderStep(r) == ReaderLock(r) \/ ReaderLockTest(r) \/ ReaderUnlockBody(r)
WriterStep(w) == WriterLock(w) \/ WriterLockTest(w) \/ WriterUnlockBody(w)

Step(t) ==
  \/ t \in Readers /\ ReaderStep(t)
  \/ t \in Writers /\ WriterStep(t)
  \/ WaitReturns(t) \/ Unlock(t)

(* The library: threads use their lock any number of times. *)
Next == \E t \in Threads : Step(t) \/ SpuriousWakeup(t) \/ CallAgain(t)
Spec == Init /\ [][Next]_vars

(* Every runnable thread is scheduled eventually, spurious wake-ups are    *)
(* not endless, and from some moment on nobody comes back for the lock (in *)
(* the test programs every thread uses it once).                           *)
Fairness ==
  /\ \A t \in Threads : WF_vars(Step(t))
  /\ <>[][\A t \in Threads : ~SpuriousWakeup(t) /\ ~CallAgain(t)]_vars
FairSpec == Spec /\ Fairness

-----------------------------------------------------------------------------
InLock(S) == {t \in S : pc[t] \in {"hold", "release"}}
Asking(S) == {t \in S : pc[t] \in {"test", "wait"}}
Awake(S) == {t \in Asking(S) : ~Asleep(t)}
UsersOf(l, S) == {t \in S : LockOf[t] = l}

TypeOK ==
  /\ lock \in [Locks -> MutexStates(Threads)]
  /\ read_phase \in [Locks -> SUBSET Readers]
  /\ write_phase \in [Locks -> SUBSET Writers]
  /\ resource_cnt \in [Locks -> Int]
  /\ waiting_writers \in Int
  /\ pc \in [Threads -> {"start", "test", "wait", "hold", "release", "done"}]

(* The owner of a mutex is the one thread inside the code it protects, and *)
(* only threads of the lock inside pthread_cond_wait sleep on it.          *)
MutexInv ==
  /\ \A t \in Threads : lock[LockOf[t]] = {t} <=> pc[t] \in {"test", "release"}
  /\ \A l \in Locks : \A t \in lock[l] \cup read_phase[l] \cup write_phase[l] :
       LockOf[t] = l
  /\ \A t \in Threads : Asleep(t) => pc[t] = "wait"

(* Per lock, resource_cnt tells who is inside: -1 for one writer alone,    *)
(* otherwise the number of readers and no writer.                          *)
ResourceCntInv == \A l \in Locks :
  \/ /\ resource_cnt[l] = -1
     /\ InLock(UsersOf(l, Readers)) = {}
     /\ \E w \in Writers : InLock(UsersOf(l, Writers)) = {w}
  \/ /\ resource_cnt[l] = Cardinality(InLock(UsersOf(l, Readers)))
     /\ InLock(UsersOf(l, Writers)) = {}

(* waiting_writers counts the writers of all locks that are inside         *)
(* WriterLock: it is raised once and lowered once per call, however often  *)
(* the writer sleeps and wakes in between.                                 *)
WaitingWritersInv == waiting_writers = Cardinality(Asking(Writers))

(* The counters that the while loops test say what they should.            *)
CountInv == ResourceCntInv /\ WaitingWritersInv

(* When a lock is free and a writer sleeps on it, some writer of that lock *)
(* is awake and about to test the counter.                                 *)
NoLostWriter == \A l \in Locks :
  write_phase[l] # {} /\ resource_cnt[l] = 0 => Awake(UsersOf(l, Writers)) # {}

(* A reader sleeps only while a writer of its lock is inside or waiting:   *)
(* true of a program with one lock, where that writer's WriterUnlock will  *)
(* wake the reader or another writer that will.                            *)
NoLostReader == \A l \in Locks :
  read_phase[l] # {} => resource_cnt[l] = -1 \/ Asking(UsersOf(l, Writers)) # {}

(* So no thread sleeps on a lock with nobody left to wake it.              *)
NoLostWakeup == NoLostWriter /\ NoLostReader

(* The code implements the read-write lock with writer preference.         *)
LockSpec == INSTANCE RWLock
  WITH WriterPreference <- TRUE,
       waiting <- Asking(Threads), holding <- InLock(Threads)
ImplementsRWLock == LockSpec!Spec

(* When nobody comes back any more, every thread that asked for the lock   *)
(* gets it and returns: the pthread_join loop of the test's main ends.     *)
AllThreadsReturn == <>[](\A t \in Threads : pc[t] = "done")
=============================================================================
