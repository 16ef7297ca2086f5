------------------------------- MODULE RWLock -------------------------------
(***************************************************************************)
(* What rwlock.h promises: a lock shared by any number of readers or held  *)
(* by one writer alone.  Threads ask for the lock, acquire it and release  *)
(* it; with WriterPreference a reader is let in only while no writer waits *)
(* for the same lock.                                                      *)
(***************************************************************************)
EXTENDS Integers, FiniteSets

CONSTANTS
  Readers,           \* threads that call ReaderLock / ReaderUnlock
  Writers,           \* threads that call WriterLock / WriterUnlock
  LockOf,            \* the lock each thread uses
  WriterPreference   \* do waiting writers keep readers out?

VARIABLES
  waiting,   \* threads that asked for their lock and do not hold it yet
  holding    \* threads that hold their lock

Sharing(t, S) == {u \in S : LockOf[u] = LockOf[t]}

Init == waiting = {} /\ holding = {}

Request(t) ==
  /\ t \notin waiting \cup holding
  /\ waiting' = waiting \cup {t}
  /\ UNCHANGED holding

Acquire(t) ==
  /\ waiting' = waiting \ {t}
  /\ holding' = holding \cup {t}

AcquireRead(r) ==
  /\ r \in waiting
  /\ Sharing(r, holding) \cap Writers = {}
  /\ WriterPreference => Sharing(r, waiting) \cap Writers = {}
  /\ Acquire(r)

AcquireWrite(w) ==
  /\ w \in waiting
  /\ Sharing(w, holding) = {}
  /\ Acquire(w)

Release(t) ==
  /\ t \in holding
  /\ holding' = holding \ {t}
  /\ UNCHANGED waiting

Next ==
  \/ \E t \in Readers \cup Writers : Request(t) \/ Release(t)
  \/ \E r \in Readers : AcquireRead(r)
  \/ \E w \in Writers : AcquireWrite(w)

vars == <<waiting, holding>>
Spec == Init /\ [][Next]_vars
=============================================================================
