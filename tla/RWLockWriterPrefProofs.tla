----------------------- MODULE RWLockWriterPrefProofs -----------------------
(***************************************************************************)
(* Proofs about RWLockWriterPref, for any finite sets of threads and any   *)
(* number of locks.  The inductive invariant is laid out as that of the    *)
(* reader-preference lock; what is new is the global waiting_writers,      *)
(* which WriterUnlock of one lock tests before it chooses whom to wake:    *)
(* that no wake-up is lost needs the meaning of both counters.             *)
(***************************************************************************)
EXTENDS RWLockWriterPref, FiniteSetTheorems, TLAPS

IInv == TypeOK /\ MutexInv /\ CountInv /\ NoLostWriter

(* Every program of the repository has one lock.  With more, a reader may  *)
(* sleep for a writer of another lock, who never wakes it.                 *)
OneLockForAll == \A t, u \in Threads : LockOf[t] = LockOf[u]

ReadersIn(l) == InLock(UsersOf(l, Readers))
WritersIn(l) == InLock(UsersOf(l, Writers))

-----------------------------------------------------------------------------
(* The number of elements of a finite set, and how it changes when one     *)
(* comes or goes.                                                          *)
LEMMA CountChanges ==
  ASSUME NEW S, NEW U, IsFiniteSet(U), S \subseteq U
  PROVE  /\ Cardinality(S) \in Nat
         /\ Cardinality(S) = 0 <=> S = {}
         /\ \A x \in U \ S : Cardinality(S \cup {x}) = Cardinality(S) + 1
         /\ \A x \in S : Cardinality(S \ {x}) = Cardinality(S) - 1
<1>1. IsFiniteSet(S)
  BY FS_Subset
<1>2. Cardinality(S) \in Nat
  BY <1>1, FS_CardinalityType
<1>3. Cardinality(S) = 0 <=> S = {}
  BY <1>1, FS_EmptySet
<1>4. \A x \in U \ S : Cardinality(S \cup {x}) = Cardinality(S) + 1
  BY <1>1, FS_AddElement
<1>5. \A x \in S : Cardinality(S \ {x}) = Cardinality(S) - 1
  BY <1>1, FS_RemoveElement
<1> QED BY <1>2, <1>3, <1>4, <1>5

(* The readers inside a lock are finitely many. *)
LEMMA ReadersInside ==
  ASSUME NEW l \in Locks
  PROVE  /\ Cardinality(ReadersIn(l)) \in Nat
         /\ Cardinality(ReadersIn(l)) = 0 <=> ReadersIn(l) = {}
         /\ \A r \in Readers \ ReadersIn(l) :
              Cardinality(ReadersIn(l) \cup {r}) = Cardinality(ReadersIn(l)) + 1
         /\ \A r \in ReadersIn(l) :
              Cardinality(ReadersIn(l) \ {r}) = Cardinality(ReadersIn(l)) - 1
<1>1. ReadersIn(l) \subseteq Readers
  BY DEF ReadersIn, InLock, UsersOf
<1> QED BY <1>1, ThreadsAssumption, CountChanges

(* So are the writers that ask. *)
LEMMA WritersAsking ==
         /\ Cardinality(Asking(Writers)) \in Nat
         /\ Cardinality(Asking(Writers)) = 0 <=> Asking(Writers) = {}
         /\ \A w \in Writers \ Asking(Writers) :
              Cardinality(Asking(Writers) \cup {w}) = Cardinality(Asking(Writers)) + 1
         /\ \A w \in Asking(Writers) :
              Cardinality(Asking(Writers) \ {w}) = Cardinality(Asking(Writers)) - 1
<1>1. Asking(Writers) \subseteq Writers
  BY DEF Asking
<1> QED BY <1>1, ThreadsAssumption, CountChanges

(* Waking at most one sleeper leaves a subset, and the one woken is awake. *)
LEMMA SignalWakes ==
  ASSUME NEW S, NEW T \in CondSignal(S)
  PROVE  /\ T \subseteq S
         /\ S # {} => \E w \in S : T = S \ {w}
BY DEF CondSignal

(* The locks that threads use are locks. *)
LEMMA LockOfType == \A t \in Threads : LockOf[t] \in Locks
BY ThreadsAssumption DEF Threads

(* What the four ways to wake somebody do to the sets of sleepers. *)
LEMMA WakesShrink ==
  ASSUME TypeOK, NEW t \in Threads,
         ReaderUnlockBody(t) \/ WriterUnlockBody(t)
  PROVE  /\ read_phase' \in [Locks -> SUBSET Readers]
         /\ write_phase' \in [Locks -> SUBSET Writers]
         /\ \A l \in Locks : read_phase'[l] \subseteq read_phase[l]
         /\ \A l \in Locks : write_phase'[l] \subseteq write_phase[l]
<1> DEFINE k == LockOf[t]
<1>0. k \in Locks
  BY LockOfType
<1>1. CASE ReaderUnlockBody(t)
  <2>1. PICK ws \in WakeByReader(k, resource_cnt[k] - 1) :
          write_phase' = [write_phase EXCEPT ![k] = ws]
    BY <1>1 DEF ReaderUnlockBody
  <2>2. ws \subseteq write_phase[k]
    BY <2>1, SignalWakes DEF WakeByReader
  <2> QED BY <1>0, <1>1, <2>1, <2>2 DEF ReaderUnlockBody, TypeOK
<1>2. CASE WriterUnlockBody(t) /\ waiting_writers > 0
  <2>1. PICK ws \in CondSignal(write_phase[k]) :
          write_phase' = [write_phase EXCEPT ![k] = ws]
    BY <1>2 DEF WriterUnlockBody, WakeByWriter, WakeAnyWriter
  <2>2. ws \subseteq write_phase[k]
    BY <2>1, SignalWakes
  <2>3. UNCHANGED read_phase
    BY <1>2 DEF WriterUnlockBody, WakeByWriter, WakeAnyWriter
  <2> QED BY <1>0, <2>1, <2>2, <2>3 DEF TypeOK
<1>3. CASE WriterUnlockBody(t) /\ ~(waiting_writers > 0)
  <2>1. UNCHANGED write_phase /\ read_phase' = [read_phase EXCEPT ![k] = {}]
    BY <1>3 DEF WriterUnlockBody, WakeByWriter, WakeReaders, CondBroadcast
  <2> QED BY <1>0, <2>1 DEF TypeOK
<1> QED BY <1>1, <1>2, <1>3

-----------------------------------------------------------------------------
(* The type invariant. *)
LEMMA TypeStep == TypeOK /\ [Next]_vars => TypeOK'
<1> SUFFICES ASSUME TypeOK, [Next]_vars PROVE TypeOK'
  OBVIOUS
<1> USE ThreadsAssumption, LockOfType DEF Free, MutexStates
<1>1. CASE UNCHANGED vars
  BY <1>1 DEF TypeOK, vars
<1>2. ASSUME NEW t \in Threads,
             ReaderLock(t) \/ WriterLock(t) \/ WaitReturns(t) \/ Unlock(t)
      PROVE  TypeOK'
  BY <1>2 DEF ReaderLock, WriterLock, WaitReturns, Unlock, TakeMutex, Goto, TypeOK
<1>3. ASSUME NEW r \in Readers, ReaderLockTest(r) PROVE TypeOK'
  BY <1>3
  DEF ReaderLockTest, ReaderSleeps, SetCount, ReleaseMutex, Goto, TypeOK, Threads
<1>4. ASSUME NEW t \in Threads, ReaderUnlockBody(t) \/ WriterUnlockBody(t)
      PROVE  TypeOK'
  <2>1. /\ read_phase' \in [Locks -> SUBSET Readers]
        /\ write_phase' \in [Locks -> SUBSET Writers]
    BY <1>4, WakesShrink
  <2> QED
    BY <1>4, <2>1
    DEF ReaderUnlockBody, WriterUnlockBody, SetCount, ReleaseMutex, Goto, TypeOK
<1>5. ASSUME NEW w \in Writers, WriterLockTest(w) PROVE TypeOK'
  BY <1>5
  DEF WriterLockTest, WritersLeft, SetCount, ReleaseMutex, Goto, TypeOK, Threads
<1>6. ASSUME NEW t \in Threads, SpuriousWakeup(t) PROVE TypeOK'
  BY <1>6 DEF SpuriousWakeup, TypeOK
<1>7. ASSUME NEW t \in Threads, CallAgain(t) PROVE TypeOK'
  BY <1>7 DEF CallAgain, Goto, TypeOK
<1> QED
  BY <1>1, <1>2, <1>3, <1>4, <1>5, <1>6, <1>7
  DEF Next, Step, ReaderStep, WriterStep

(* The mutex discipline. *)
LEMMA MutexStep == TypeOK /\ MutexInv /\ [Next]_vars => MutexInv'
<1> SUFFICES ASSUME TypeOK, MutexInv, [Next]_vars PROVE MutexInv'
  OBVIOUS
<1> USE ThreadsAssumption, LockOfType DEF Free
<1>1. CASE UNCHANGED vars
  BY <1>1 DEF MutexInv, Asleep, vars
<1>2. ASSUME NEW t \in Threads,
             ReaderLock(t) \/ WriterLock(t) \/ WaitReturns(t) \/ Unlock(t)
      PROVE  MutexInv'
  <2>1. /\ lock[LockOf[t]] = {} /\ lock' = [lock EXCEPT ![LockOf[t]] = {t}]
        /\ pc[t] \in {"start", "wait", "hold"} /\ ~Asleep(t)
        /\ \E to \in {"test", "release"} : pc' = [pc EXCEPT ![t] = to]
        /\ UNCHANGED <<read_phase, write_phase>>
    BY <1>2
    DEF ReaderLock, WriterLock, WaitReturns, Unlock, TakeMutex, Goto, MutexInv
  <2> QED BY <2>1 DEF TypeOK, MutexInv, Asleep
(* A thread that owns the mutex gives it back and may go to sleep. *)
<1>3. ASSUME NEW t \in Threads, NEW to \in {"wait", "hold", "done"},
             pc[t] \in {"test", "release"}, ReleaseMutex(t, to),
             \A l \in Locks : \A u \in read_phase'[l] \cup write_phase'[l] :
               \/ u \in read_phase[l] \cup write_phase[l]
               \/ u = t /\ to = "wait" /\ l = LockOf[t]
      PROVE  MutexInv'
  <2>1. lock' = [lock EXCEPT ![LockOf[t]] = {}] /\ pc' = [pc EXCEPT ![t] = to]
    BY <1>3 DEF ReleaseMutex, Goto
  <2>2. lock[LockOf[t]] = {t}
    BY <1>3 DEF MutexInv
  <2>3. \A u \in Threads : lock'[LockOf[u]] = {u} <=> pc'[u] \in {"test", "release"}
    BY <2>1, <2>2 DEF TypeOK, MutexInv
  <2>4. \A l \in Locks : \A u \in lock'[l] \cup read_phase'[l] \cup write_phase'[l] :
          LockOf[u] = l
    BY <1>3, <2>1 DEF TypeOK, MutexInv
  <2>5. \A u \in Threads : Asleep(u)' => pc'[u] = "wait"
    <3> SUFFICES ASSUME NEW u \in Threads, Asleep(u)' PROVE pc'[u] = "wait"
      OBVIOUS
    <3>1. Asleep(u) \/ (u = t /\ to = "wait")
      BY <1>3 DEF Asleep
    <3> QED BY <1>3, <2>1, <3>1 DEF TypeOK, MutexInv
  <2> QED BY <2>3, <2>4, <2>5 DEF MutexInv
<1>4. ASSUME NEW r \in Readers, ReaderLockTest(r) PROVE MutexInv'
  <2>1. CASE ReaderMustWait(r)
    BY <1>3, <1>4, <2>1 DEF ReaderLockTest, ReaderSleeps, TypeOK, Threads
  <2>2. CASE ~ReaderMustWait(r)
    BY <1>3, <1>4, <2>2 DEF ReaderLockTest, Threads
  <2> QED BY <2>1, <2>2
<1>5. ASSUME NEW t \in Threads, ReaderUnlockBody(t) \/ WriterUnlockBody(t)
      PROVE  MutexInv'
  <2>1. pc[t] = "release" /\ ReleaseMutex(t, "done")
    BY <1>5 DEF ReaderUnlockBody, WriterUnlockBody
  <2> QED BY <1>3, <1>5, <2>1, WakesShrink
<1>6. ASSUME NEW w \in Writers, WriterLockTest(w) PROVE MutexInv'
  <2>1. CASE WriterMustWait(w)
    BY <1>3, <1>6, <2>1 DEF WriterLockTest, TypeOK, Threads
  <2>2. CASE ~WriterMustWait(w)
    BY <1>3, <1>6, <2>2 DEF WriterLockTest, Threads
  <2> QED BY <2>1, <2>2
<1>7. ASSUME NEW t \in Threads, SpuriousWakeup(t) PROVE MutexInv'
  BY <1>7 DEF SpuriousWakeup, MutexInv, Asleep, TypeOK
<1>8. ASSUME NEW t \in Threads, CallAgain(t) PROVE MutexInv'
  BY <1>8 DEF Goto, TypeOK, CallAgain, MutexInv, Asleep
<1> QED
  BY <1>1, <1>2, <1>4, <1>5, <1>6, <1>7, <1>8
  DEF Next, Step, ReaderStep, WriterStep, Threads

-----------------------------------------------------------------------------
(* What the counter of one lock says.                                      *)
CountOf(l) ==
  \/ /\ resource_cnt[l] = -1
     /\ ReadersIn(l) = {}
     /\ \E w \in Writers : WritersIn(l) = {w}
  \/ /\ resource_cnt[l] = Cardinality(ReadersIn(l))
     /\ WritersIn(l) = {}

LEMMA CountsOfLocks ==
  ResourceCntInv <=> \A l \in Locks : CountOf(l)
BY DEF ResourceCntInv, CountOf, ReadersIn, WritersIn

LEMMA CountCases ==
  ASSUME NEW l \in Locks, CountOf(l)
  PROVE  /\ resource_cnt[l] = -1 =>
              ReadersIn(l) = {} /\ \E w \in Writers : WritersIn(l) = {w}
         /\ resource_cnt[l] # -1 =>
              resource_cnt[l] = Cardinality(ReadersIn(l)) /\ WritersIn(l) = {}
         /\ resource_cnt[l] = 0 => ReadersIn(l) = {} /\ WritersIn(l) = {}
         /\ resource_cnt[l] = -1 \/ resource_cnt[l] \in Nat
BY ReadersInside DEF CountOf

(* A lock whose counter and users stay as they are keeps its meaning.      *)
LEMMA CountFrame ==
  ASSUME NEW l \in Locks, CountOf(l), resource_cnt'[l] = resource_cnt[l],
         \A u \in Threads : LockOf[u] = l =>
           (pc'[u] \in {"hold", "release"} <=> pc[u] \in {"hold", "release"})
  PROVE  CountOf(l)'
<1>1. ReadersIn(l)' = ReadersIn(l) /\ WritersIn(l)' = WritersIn(l)
  BY DEF ReadersIn, WritersIn, InLock, UsersOf, Threads
<1> QED BY <1>1 DEF CountOf

(* resource_cnt tells, lock by lock, who is inside. *)
LEMMA ResourceStep ==
  TypeOK /\ MutexInv /\ ResourceCntInv /\ [Next]_vars => ResourceCntInv'
<1> SUFFICES ASSUME TypeOK, MutexInv, ResourceCntInv, [Next]_vars,
                    NEW l \in Locks
             PROVE  CountOf(l)'
  BY CountsOfLocks DEF CountOf, ResourceCntInv, ReadersIn, WritersIn
<1> USE ThreadsAssumption, LockOfType
<1>0. CountOf(l)
  BY CountsOfLocks
<1>1. CASE UNCHANGED vars
  BY <1>0, <1>1, CountFrame DEF vars
<1>2. ASSUME NEW t \in Threads,
             \/ ReaderLock(t) \/ WriterLock(t) \/ WaitReturns(t) \/ Unlock(t)
             \/ SpuriousWakeup(t) \/ CallAgain(t)
      PROVE  CountOf(l)'
  <2>1. UNCHANGED resource_cnt
    BY <1>2 DEF ReaderLock, WriterLock, WaitReturns, Unlock, SpuriousWakeup, CallAgain,
      TakeMutex
  <2>2. \A u \in Threads :
          pc'[u] \in {"hold", "release"} <=> pc[u] \in {"hold", "release"}
    BY <1>2
    DEF ReaderLock, WriterLock, WaitReturns, Unlock, SpuriousWakeup, CallAgain,
      TakeMutex, Goto, TypeOK
  <2> QED BY <1>0, <2>1, <2>2, CountFrame
(* A step of a thread that uses another lock. *)
<1>3. ASSUME NEW t \in Threads, LockOf[t] # l, NEW n, NEW to,
             UNCHANGED resource_cnt \/ SetCount(t, n), Goto(t, to)
      PROVE  CountOf(l)'
  <2>1. resource_cnt'[l] = resource_cnt[l]
    BY <1>3 DEF SetCount, TypeOK
  <2>2. \A u \in Threads : LockOf[u] = l => pc'[u] = pc[u]
    BY <1>3 DEF Goto, TypeOK
  <2> QED BY <1>0, <2>1, <2>2, CountFrame
(* A thread of this lock goes to sleep. *)
<1>4. ASSUME NEW t \in Threads, pc[t] = "test", Goto(t, "wait"), UNCHANGED resource_cnt
      PROVE  CountOf(l)'
  BY <1>0, <1>4, CountFrame DEF Goto, TypeOK
<1>5. ASSUME NEW r \in Readers, ReaderLockTest(r) PROVE CountOf(l)'
  <2>1. CASE ReaderMustWait(r)
    BY <1>4, <1>5, <2>1 DEF ReaderLockTest, ReleaseMutex, Threads
  <2>2. CASE ~ReaderMustWait(r) /\ LockOf[r] # l
    BY <1>3, <1>5, <2>2 DEF ReaderLockTest, ReleaseMutex, Threads
  <2>3. CASE ~ReaderMustWait(r) /\ LockOf[r] = l
    <3>1. /\ resource_cnt' = [resource_cnt EXCEPT ![l] = resource_cnt[l] + 1]
          /\ pc' = [pc EXCEPT ![r] = "hold"] /\ pc[r] = "test"
          /\ resource_cnt[l] # -1
      BY <1>5, <2>3 DEF ReaderLockTest, ReleaseMutex, ReaderMustWait, Goto, SetCount
    <3>2. ReadersIn(l)' = ReadersIn(l) \cup {r} /\ r \notin ReadersIn(l)
      BY <2>3, <3>1 DEF ReadersIn, InLock, UsersOf, TypeOK, Threads
    <3>3. WritersIn(l)' = WritersIn(l)
      BY <3>1 DEF WritersIn, InLock, UsersOf, TypeOK, Threads
    <3>4. resource_cnt'[l] = Cardinality(ReadersIn(l)')
      BY <1>0, <3>1, <3>2, CountCases, ReadersInside DEF TypeOK
    <3> QED BY <1>0, <3>1, <3>3, <3>4, CountCases DEF CountOf
  <2> QED BY <2>1, <2>2, <2>3
<1>6. ASSUME NEW r \in Readers, ReaderUnlockBody(r) PROVE CountOf(l)'
  <2>1. CASE LockOf[r] # l
    BY <1>3, <1>6, <2>1 DEF ReaderUnlockBody, ReleaseMutex, Threads
  <2>2. CASE LockOf[r] = l
    <3>1. /\ resource_cnt' = [resource_cnt EXCEPT ![l] = resource_cnt[l] - 1]
          /\ pc' = [pc EXCEPT ![r] = "done"] /\ pc[r] = "release"
      BY <1>6, <2>2 DEF ReaderUnlockBody, ReleaseMutex, Goto, SetCount
    <3>2. ReadersIn(l)' = ReadersIn(l) \ {r} /\ r \in ReadersIn(l)
      BY <2>2, <3>1 DEF ReadersIn, InLock, UsersOf, TypeOK, Threads
    <3>3. WritersIn(l)' = WritersIn(l)
      BY <3>1 DEF WritersIn, InLock, UsersOf, TypeOK, Threads
    <3>4. resource_cnt'[l] = Cardinality(ReadersIn(l)') /\ WritersIn(l) = {}
      BY <1>0, <3>1, <3>2, CountCases, ReadersInside DEF TypeOK
    <3> QED BY <3>3, <3>4 DEF CountOf
  <2> QED BY <2>1, <2>2
<1>7. ASSUME NEW w \in Writers, WriterLockTest(w) PROVE CountOf(l)'
  <2>1. CASE WriterMustWait(w)
    BY <1>4, <1>7, <2>1 DEF WriterLockTest, ReleaseMutex, Threads
  <2>2. CASE ~WriterMustWait(w) /\ LockOf[w] # l
    BY <1>3, <1>7, <2>2 DEF WriterLockTest, ReleaseMutex, Threads
  <2>3. CASE ~WriterMustWait(w) /\ LockOf[w] = l
    <3>1. /\ resource_cnt' = [resource_cnt EXCEPT ![l] = -1]
          /\ pc' = [pc EXCEPT ![w] = "hold"] /\ pc[w] = "test"
          /\ resource_cnt[l] = 0
      BY <1>7, <2>3 DEF WriterLockTest, ReleaseMutex, WriterMustWait, Goto, SetCount
    <3>2. ReadersIn(l) = {} /\ WritersIn(l) = {}
      BY <1>0, <3>1, CountCases
    <3>3. ReadersIn(l)' = {}
      BY <3>1, <3>2 DEF ReadersIn, InLock, UsersOf, TypeOK, Threads
    <3>4. WritersIn(l)' = {w}
      BY <2>3, <3>1, <3>2 DEF WritersIn, InLock, UsersOf, TypeOK, Threads
    <3> QED BY <3>1, <3>3, <3>4 DEF CountOf, TypeOK
  <2> QED BY <2>1, <2>2, <2>3
<1>8. ASSUME NEW w \in Writers, WriterUnlockBody(w) PROVE CountOf(l)'
  <2>1. CASE LockOf[w] # l
    BY <1>3, <1>8, <2>1 DEF WriterUnlockBody, ReleaseMutex, Threads
  <2>2. CASE LockOf[w] = l
    <3>1. /\ resource_cnt' = [resource_cnt EXCEPT ![l] = 0]
          /\ pc' = [pc EXCEPT ![w] = "done"] /\ pc[w] = "release"
      BY <1>8, <2>2 DEF WriterUnlockBody, ReleaseMutex, Goto, SetCount
    <3>2. w \in WritersIn(l)
      BY <2>2, <3>1 DEF WritersIn, InLock, UsersOf
    <3>3. ReadersIn(l) = {} /\ WritersIn(l) = {w}
      BY <1>0, <3>2, CountCases
    <3>4. ReadersIn(l)' = {}
      BY <3>1, <3>3 DEF ReadersIn, InLock, UsersOf, TypeOK, Threads
    <3>5. WritersIn(l)' = {}
      BY <3>1, <3>3 DEF WritersIn, InLock, UsersOf, TypeOK, Threads
    <3> QED BY <3>1, <3>4, <3>5, FS_EmptySet DEF CountOf, TypeOK
  <2> QED BY <2>1, <2>2
<1> QED
  BY <1>1, <1>2, <1>5, <1>6, <1>7, <1>8 DEF Next, Step, ReaderStep, WriterStep

(* waiting_writers counts the writers inside WriterLock. *)
LEMMA WaitingStep ==
  TypeOK /\ WaitingWritersInv /\ [Next]_vars => WaitingWritersInv'
<1> SUFFICES ASSUME TypeOK, WaitingWritersInv, [Next]_vars PROVE WaitingWritersInv'
  OBVIOUS
<1> USE ThreadsAssumption DEF WaitingWritersInv
<1>1. ASSUME UNCHANGED waiting_writers,
             \A u \in Writers : pc'[u] \in {"test", "wait"} <=> pc[u] \in {"test", "wait"}
      PROVE  WaitingWritersInv'
  BY <1>1 DEF Asking
<1>2. CASE UNCHANGED vars
  BY <1>1, <1>2 DEF vars
<1>3. ASSUME NEW t \in Threads,
             \/ WaitReturns(t) \/ Unlock(t) \/ SpuriousWakeup(t) \/ CallAgain(t)
      PROVE  WaitingWritersInv'
  BY <1>1, <1>3
  DEF WaitReturns, Unlock, SpuriousWakeup, CallAgain, TakeMutex, Goto, TypeOK, Threads
<1>4. ASSUME NEW r \in Readers, ReaderStep(r) PROVE WaitingWritersInv'
  <2>1. UNCHANGED waiting_writers /\ \E to : Goto(r, to)
    BY <1>4 DEF ReaderStep, ReaderLock, ReaderLockTest, ReaderUnlockBody, TakeMutex,
      ReleaseMutex
  <2> QED BY <1>1, <2>1 DEF Goto, TypeOK, Threads
<1>5. ASSUME NEW w \in Writers, WriterLock(w) PROVE WaitingWritersInv'
  <2>1. Asking(Writers)' = Asking(Writers) \cup {w} /\ w \notin Asking(Writers)
    BY <1>5 DEF WriterLock, TakeMutex, Goto, Asking, TypeOK, Threads
  <2> QED BY <1>5, <2>1, WritersAsking DEF WriterLock
<1>6. ASSUME NEW w \in Writers, WriterLockTest(w) PROVE WaitingWritersInv'
  <2>1. CASE WriterMustWait(w)
    BY <1>1, <1>6, <2>1 DEF WriterLockTest, ReleaseMutex, Goto, TypeOK, Threads
  <2>2. CASE ~WriterMustWait(w)
    <3>1. Asking(Writers)' = Asking(Writers) \ {w} /\ w \in Asking(Writers)
      BY <1>6, <2>2 DEF WriterLockTest, ReleaseMutex, Goto, Asking, TypeOK, Threads
    <3> QED BY <1>6, <2>2, <3>1, WritersAsking DEF WriterLockTest, WritersLeft
  <2> QED BY <2>1, <2>2
<1>7. ASSUME NEW w \in Writers, WriterUnlockBody(w) PROVE WaitingWritersInv'
  BY <1>1, <1>7 DEF WriterUnlockBody, ReleaseMutex, Goto, TypeOK, Threads
<1> QED
  BY <1>2, <1>3, <1>4, <1>5, <1>6, <1>7 DEF Next, Step, WriterStep

-----------------------------------------------------------------------------
(* A writer woken by a signal is awake and about to test the counter. *)
LEMMA WokenWriter ==
  ASSUME TypeOK, MutexInv, NEW t \in Threads, pc[t] = "release", Goto(t, "done"),
         NEW l \in Locks, write_phase'[l] \in CondSignal(write_phase[l]),
         \A k \in Locks : read_phase'[k] \subseteq Readers
  PROVE  write_phase'[l] # {} => Awake(UsersOf(l, Writers))' # {}
<1> SUFFICES ASSUME write_phase'[l] # {} PROVE Awake(UsersOf(l, Writers))' # {}
  OBVIOUS
<1>1. PICK w \in write_phase[l] : write_phase'[l] = write_phase[l] \ {w}
  BY SignalWakes
<1>2. w \in Writers /\ LockOf[w] = l
  BY <1>1 DEF TypeOK, MutexInv
<1>3. Asleep(w)
  BY <1>1, <1>2 DEF Asleep
<1>4. pc[w] = "wait" /\ w # t
  BY <1>2, <1>3 DEF MutexInv, Threads
<1>5. pc'[w] = "wait"
  BY <1>2, <1>4 DEF Goto, TypeOK, Threads
<1>6. ~Asleep(w)'
  BY <1>1, <1>2, ThreadsAssumption DEF Asleep
<1> QED BY <1>2, <1>5, <1>6 DEF Awake, Asking, UsersOf

(* A sleeping writer asks for the lock it sleeps on. *)
LEMMA SleepersAsk ==
  ASSUME TypeOK, MutexInv, NEW l \in Locks, NEW w \in write_phase[l]
  PROVE  w \in Asking(Writers)
<1>1. w \in Writers /\ LockOf[w] = l
  BY DEF TypeOK, MutexInv
<1>2. pc[w] = "wait"
  BY <1>1 DEF MutexInv, Asleep, Threads
<1> QED BY <1>1, <1>2 DEF Asking

(* What WriterUnlock does to its own lock and to the others.               *)
LEMMA UnlockChoice ==
  ASSUME TypeOK, NEW t \in Threads, WriterUnlockBody(t), NEW l \in Locks
  PROVE  /\ LockOf[t] # l => UNCHANGED <<write_phase[l], read_phase[l], resource_cnt[l]>>
         /\ LockOf[t] = l /\ waiting_writers > 0 =>
              write_phase'[l] \in CondSignal(write_phase[l])
         /\ LockOf[t] = l /\ ~(waiting_writers > 0) =>
              read_phase'[l] = {} /\ write_phase'[l] = write_phase[l]
<1>0. LockOf[t] \in Locks
  BY LockOfType
<1>1. CASE waiting_writers > 0
  BY <1>0, <1>1 DEF WriterUnlockBody, WakeByWriter, WakeAnyWriter, SetCount, TypeOK
<1>2. CASE ~(waiting_writers > 0)
  BY <1>0, <1>2
  DEF WriterUnlockBody, WakeByWriter, WakeReaders, CondBroadcast, SetCount, TypeOK
<1> QED BY <1>1, <1>2

(* Of the writers awake none falls asleep or leaves but by its own step.   *)
LEMMA AwakeFrame ==
  ASSUME NEW l,
         \A u \in Writers : LockOf[u] = l /\ pc[u] \in {"test", "wait"} =>
           pc'[u] \in {"test", "wait"} /\ (Asleep(u)' => Asleep(u))
  PROVE  Awake(UsersOf(l, Writers)) \subseteq Awake(UsersOf(l, Writers))'
BY DEF Awake, Asking, UsersOf

(* No wake-up of a writer is lost. *)
LEMMA LostWriterStep == IInv /\ [Next]_vars => NoLostWriter'
<1> SUFFICES ASSUME IInv, [Next]_vars, NEW l \in Locks,
                    write_phase'[l] # {}, resource_cnt'[l] = 0
             PROVE  Awake(UsersOf(l, Writers))' # {}
  BY DEF NoLostWriter
<1> USE ThreadsAssumption, LockOfType DEF IInv
<1>a. write_phase[l] # {} /\ resource_cnt[l] = 0 => Awake(UsersOf(l, Writers)) # {}
  BY DEF NoLostWriter
<1>b. resource_cnt[l] = -1 \/ resource_cnt[l] \in Nat
  BY CountsOfLocks, CountCases DEF CountInv
<1>1. CASE UNCHANGED vars
  BY <1>1, <1>a, AwakeFrame DEF vars, Asleep
<1>2. ASSUME NEW t \in Threads,
             ReaderLock(t) \/ WriterLock(t) \/ WaitReturns(t) \/ Unlock(t) \/ CallAgain(t)
      PROVE  Awake(UsersOf(l, Writers))' # {}
  <2>1. UNCHANGED <<resource_cnt, read_phase, write_phase>>
    BY <1>2 DEF ReaderLock, WriterLock, WaitReturns, Unlock, CallAgain, TakeMutex
  <2>2. \A u \in Threads : pc[u] \in {"test", "wait"} => pc'[u] \in {"test", "wait"}
    BY <1>2
    DEF ReaderLock, WriterLock, WaitReturns, Unlock, CallAgain, TakeMutex, Goto, TypeOK
  <2>3. Awake(UsersOf(l, Writers)) \subseteq Awake(UsersOf(l, Writers))'
    BY <2>1, <2>2, AwakeFrame DEF Asleep, Threads
  <2> QED BY <1>a, <2>1, <2>3
<1>3. ASSUME NEW t \in Threads, SpuriousWakeup(t) PROVE Awake(UsersOf(l, Writers))' # {}
  <2>1. /\ UNCHANGED <<resource_cnt, pc>>
        /\ read_phase' = [read_phase EXCEPT ![LockOf[t]] = @ \ {t}]
        /\ write_phase' = [write_phase EXCEPT ![LockOf[t]] = @ \ {t}]
    BY <1>3 DEF SpuriousWakeup
  <2>2. Awake(UsersOf(l, Writers)) \subseteq Awake(UsersOf(l, Writers))'
    BY <2>1, AwakeFrame DEF Asleep, TypeOK, Threads
  <2>3. write_phase[l] # {}
    BY <2>1 DEF TypeOK
  <2> QED BY <1>a, <2>1, <2>2, <2>3
(* A step of a thread of another lock. *)
<1>4. ASSUME NEW t \in Threads, LockOf[t] # l, NEW to, Goto(t, to),
             UNCHANGED <<write_phase[l], read_phase[l], resource_cnt[l]>>
      PROVE  Awake(UsersOf(l, Writers))' # {}
  <2>1. \A u \in Writers : LockOf[u] = l => pc'[u] = pc[u] /\ (Asleep(u)' <=> Asleep(u))
    BY <1>4 DEF Goto, Asleep, TypeOK, Threads
  <2>2. Awake(UsersOf(l, Writers)) \subseteq Awake(UsersOf(l, Writers))'
    BY <2>1, AwakeFrame
  <2> QED BY <1>a, <1>4, <2>2
<1>5. ASSUME NEW r \in Readers, ReaderLockTest(r) PROVE Awake(UsersOf(l, Writers))' # {}
  <2>1. CASE LockOf[r] # l
    <3>1. UNCHANGED <<write_phase[l], read_phase[l], resource_cnt[l]>>
      BY <1>5, <2>1 DEF ReaderLockTest, ReaderSleeps, SetCount, TypeOK, Threads
    <3>2. \E to : Goto(r, to)
      BY <1>5 DEF ReaderLockTest, ReleaseMutex
    <3> QED BY <1>4, <2>1, <3>1, <3>2 DEF Threads
  <2>2. CASE ~ReaderMustWait(r) /\ LockOf[r] = l
    BY <1>5, <1>b, <2>2 DEF ReaderLockTest, ReaderMustWait, SetCount, TypeOK
  <2>3. CASE ReaderMustWait(r) /\ LockOf[r] = l
    <3>1. /\ UNCHANGED <<resource_cnt, write_phase>> /\ pc' = [pc EXCEPT ![r] = "wait"]
          /\ read_phase' = [read_phase EXCEPT ![l] = @ \cup {r}] /\ pc[r] = "test"
      BY <1>5, <2>3 DEF ReaderLockTest, ReaderSleeps, ReleaseMutex, Goto
    <3>2. Awake(UsersOf(l, Writers)) \subseteq Awake(UsersOf(l, Writers))'
      BY <3>1, AwakeFrame DEF Asleep, TypeOK, Threads
    <3> QED BY <1>a, <3>1, <3>2
  <2> QED BY <2>1, <2>2, <2>3
<1>6. ASSUME NEW r \in Readers, ReaderUnlockBody(r) PROVE Awake(UsersOf(l, Writers))' # {}
  <2>1. CASE LockOf[r] # l
    <3>1. UNCHANGED <<write_phase[l], read_phase[l], resource_cnt[l]>>
      BY <1>6, <2>1 DEF ReaderUnlockBody, SetCount, TypeOK, Threads
    <3> QED BY <1>4, <1>6, <2>1, <3>1 DEF ReaderUnlockBody, ReleaseMutex, Threads
  <2>2. CASE LockOf[r] = l
    <3>1. /\ pc[r] = "release" /\ Goto(r, "done") /\ UNCHANGED read_phase
          /\ resource_cnt[l] - 1 = 0
          /\ write_phase'[l] \in WakeByReader(l, 0)
      BY <1>6, <2>2 DEF ReaderUnlockBody, ReleaseMutex, SetCount, TypeOK
    <3>2. write_phase'[l] \in CondSignal(write_phase[l])
      BY <3>1 DEF WakeByReader
    <3>3. \A k \in Locks : read_phase'[k] \subseteq Readers
      BY <3>1 DEF TypeOK
    <3> QED BY <3>1, <3>2, <3>3, WokenWriter DEF Threads
  <2> QED BY <2>1, <2>2
<1>7. ASSUME NEW w \in Writers, WriterLockTest(w) PROVE Awake(UsersOf(l, Writers))' # {}
  <2>1. CASE LockOf[w] # l
    <3>1. UNCHANGED <<write_phase[l], read_phase[l], resource_cnt[l]>>
      BY <1>7, <2>1 DEF WriterLockTest, SetCount, TypeOK, Threads
    <3>2. \E to : Goto(w, to)
      BY <1>7 DEF WriterLockTest, ReleaseMutex
    <3> QED BY <1>4, <2>1, <3>1, <3>2 DEF Threads
  <2>2. CASE LockOf[w] = l
    BY <1>7, <2>2 DEF WriterLockTest, WriterMustWait, SetCount, TypeOK
  <2> QED BY <2>1, <2>2
<1>8. ASSUME NEW w \in Writers, WriterUnlockBody(w) PROVE Awake(UsersOf(l, Writers))' # {}
  <2>1. pc[w] = "release" /\ Goto(w, "done") /\ w \in Threads
    BY <1>8 DEF WriterUnlockBody, ReleaseMutex, Threads
  <2>2. CASE LockOf[w] # l
    BY <1>4, <1>8, <2>1, <2>2, UnlockChoice
  <2>3. CASE LockOf[w] = l /\ waiting_writers > 0
    <3>1. \A k \in Locks : read_phase'[k] \subseteq Readers
      BY <1>8, <2>1, WakesShrink
    <3> QED BY <1>8, <2>1, <2>3, <3>1, UnlockChoice, WokenWriter
  <2>4. CASE LockOf[w] = l /\ ~(waiting_writers > 0)
    <3>1. Asking(Writers) = {}
      BY <2>4, WritersAsking DEF CountInv, WaitingWritersInv
    <3>2. write_phase'[l] = write_phase[l]
      BY <1>8, <2>1, <2>4, UnlockChoice
    <3> QED BY <3>1, <3>2, SleepersAsk
  <2> QED BY <2>2, <2>3, <2>4
<1> QED
  BY <1>1, <1>2, <1>3, <1>5, <1>6, <1>7, <1>8 DEF Next, Step, ReaderStep, WriterStep, Threads

(* With one lock the writers that ask, ask for the lock of any reader.     *)
LEMMA OneLockWriters ==
  ASSUME OneLockForAll, NEW t \in Threads
  PROVE  Asking(UsersOf(LockOf[t], Writers)) = Asking(Writers)
BY DEF OneLockForAll, UsersOf, Asking, Threads

(* Nor of a reader, when all threads use one lock. *)
LEMMA LostReaderStep ==
  ASSUME OneLockForAll
  PROVE  IInv /\ NoLostReader /\ [Next]_vars => NoLostReader'
<1> SUFFICES ASSUME IInv, NoLostReader, [Next]_vars, NEW l \in Locks,
                    read_phase'[l] # {}
             PROVE  resource_cnt'[l] = -1 \/ Asking(UsersOf(l, Writers))' # {}
  BY DEF NoLostReader
<1> USE ThreadsAssumption, LockOfType DEF IInv
<1>a. read_phase[l] # {} => resource_cnt[l] = -1 \/ Asking(UsersOf(l, Writers)) # {}
  BY DEF NoLostReader
(* The writers that ask go on asking, and the counter and the sleepers     *)
(* change for the better or not at all.                                    *)
<1>1. ASSUME read_phase[l] # {} \/ resource_cnt[l] = -1,
             resource_cnt[l] = -1 => resource_cnt'[l] = -1,
             \A u \in Writers : LockOf[u] = l /\ pc[u] \in {"test", "wait"} =>
               pc'[u] \in {"test", "wait"}
      PROVE  resource_cnt'[l] = -1 \/ Asking(UsersOf(l, Writers))' # {}
  <2>1. Asking(UsersOf(l, Writers)) \subseteq Asking(UsersOf(l, Writers))'
    BY <1>1 DEF Asking, UsersOf
  <2> QED BY <1>1, <1>a, <2>1
<1>2. CASE UNCHANGED vars
  BY <1>1, <1>2 DEF vars
<1>3. ASSUME NEW t \in Threads,
             \/ ReaderLock(t) \/ WriterLock(t) \/ WaitReturns(t) \/ Unlock(t)
             \/ CallAgain(t) \/ SpuriousWakeup(t)
      PROVE  resource_cnt'[l] = -1 \/ Asking(UsersOf(l, Writers))' # {}
  <2>1. UNCHANGED resource_cnt /\ read_phase'[l] \subseteq read_phase[l]
    BY <1>3
    DEF ReaderLock, WriterLock, WaitReturns, Unlock, CallAgain, SpuriousWakeup, TakeMutex, TypeOK
  <2>2. \A u \in Threads : pc[u] \in {"test", "wait"} => pc'[u] \in {"test", "wait"}
    BY <1>3
    DEF ReaderLock, WriterLock, WaitReturns, Unlock, CallAgain, SpuriousWakeup, TakeMutex,
      Goto, TypeOK
  <2> QED BY <1>1, <2>1, <2>2 DEF Threads
<1>4. ASSUME NEW r \in Readers, ReaderLockTest(r)
      PROVE  resource_cnt'[l] = -1 \/ Asking(UsersOf(l, Writers))' # {}
  <2>0. \A u \in Writers : pc'[u] = pc[u]
    BY <1>4 DEF ReaderLockTest, ReleaseMutex, Goto, TypeOK, Threads
  <2>1. CASE ReaderMustWait(r) /\ LockOf[r] = l /\ resource_cnt[l] # -1
    <3>1. waiting_writers > 0
      BY <2>1 DEF ReaderMustWait
    <3>2. Asking(Writers) # {}
      BY <3>1, WritersAsking DEF CountInv, WaitingWritersInv
    <3>3. Asking(UsersOf(l, Writers)) # {}
      BY <2>1, <3>2, OneLockWriters DEF Threads
    <3> QED BY <2>0, <3>3 DEF Asking, UsersOf
  <2>2. CASE ReaderMustWait(r) /\ ~(LockOf[r] = l /\ resource_cnt[l] # -1)
    <3>1. UNCHANGED resource_cnt /\ (LockOf[r] # l => read_phase'[l] = read_phase[l])
      BY <1>4, <2>2 DEF ReaderLockTest, ReaderSleeps, TypeOK
    <3> QED BY <1>1, <2>0, <2>2, <3>1
  <2>3. CASE ~ReaderMustWait(r)
    <3>1. UNCHANGED read_phase /\ (resource_cnt[l] = -1 => resource_cnt'[l] = -1)
      BY <1>4, <2>3 DEF ReaderLockTest, ReaderMustWait, SetCount, TypeOK
    <3> QED BY <1>1, <2>0, <3>1
  <2> QED BY <2>1, <2>2, <2>3
<1>5. ASSUME NEW r \in Readers, ReaderUnlockBody(r)
      PROVE  resource_cnt'[l] = -1 \/ Asking(UsersOf(l, Writers))' # {}
  <2>1. /\ UNCHANGED read_phase /\ pc[r] = "release" /\ Goto(r, "done")
        /\ resource_cnt' = [resource_cnt EXCEPT ![LockOf[r]] = resource_cnt[LockOf[r]] - 1]
    BY <1>5 DEF ReaderUnlockBody, ReleaseMutex, SetCount
  <2>2. r \in ReadersIn(LockOf[r])
    BY <2>1 DEF ReadersIn, InLock, UsersOf
  <2>3. resource_cnt[LockOf[r]] # -1
    BY <2>2, CountsOfLocks, CountCases DEF CountInv, Threads
  <2>4. resource_cnt[l] = -1 => resource_cnt'[l] = -1
    BY <2>1, <2>3 DEF TypeOK
  <2> QED BY <1>1, <2>1, <2>4 DEF Goto, TypeOK, Threads
<1>6. ASSUME NEW w \in Writers, WriterLockTest(w)
      PROVE  resource_cnt'[l] = -1 \/ Asking(UsersOf(l, Writers))' # {}
  <2>1. CASE WriterMustWait(w)
    <3>1. UNCHANGED <<resource_cnt, read_phase>> /\ pc' = [pc EXCEPT ![w] = "wait"]
      BY <1>6, <2>1 DEF WriterLockTest, ReleaseMutex, Goto
    <3> QED BY <1>1, <3>1 DEF TypeOK, Threads
  <2>2. CASE ~WriterMustWait(w) /\ LockOf[w] = l
    BY <1>6, <2>2 DEF WriterLockTest, WriterMustWait, SetCount, TypeOK
  <2>3. CASE ~WriterMustWait(w) /\ LockOf[w] # l
    <3>1. UNCHANGED read_phase /\ resource_cnt'[l] = resource_cnt[l]
      BY <1>6, <2>3 DEF WriterLockTest, SetCount, TypeOK
    <3>2. \A u \in Writers : LockOf[u] = l => pc'[u] = pc[u]
      BY <1>6, <2>3 DEF WriterLockTest, ReleaseMutex, Goto, TypeOK, Threads
    <3> QED BY <1>1, <3>1, <3>2
  <2> QED BY <2>1, <2>2, <2>3
<1>7. ASSUME NEW w \in Writers, WriterUnlockBody(w)
      PROVE  resource_cnt'[l] = -1 \/ Asking(UsersOf(l, Writers))' # {}
  <2>1. pc[w] = "release" /\ Goto(w, "done") /\ w \in Threads
    BY <1>7 DEF WriterUnlockBody, ReleaseMutex, Threads
  <2>2. Asking(Writers) \subseteq Asking(Writers)'
    BY <2>1 DEF Goto, Asking, TypeOK, Threads
  <2>3. CASE LockOf[w] # l
    BY <1>1, <1>7, <2>1, <2>3, UnlockChoice DEF Goto, TypeOK, Threads
  <2>4. CASE LockOf[w] = l /\ waiting_writers > 0
    <3>1. Asking(Writers) # {}
      BY <2>4, WritersAsking DEF CountInv, WaitingWritersInv
    <3>2. Asking(UsersOf(l, Writers))' = Asking(Writers)'
      BY <2>4 DEF Asking, UsersOf
    <3> QED BY <2>2, <3>1, <3>2
  <2>5. CASE LockOf[w] = l /\ ~(waiting_writers > 0)
    BY <1>7, <2>1, <2>5, UnlockChoice
  <2> QED BY <2>3, <2>4, <2>5
<1> QED
  BY <1>2, <1>3, <1>4, <1>5, <1>6, <1>7 DEF Next, Step, ReaderStep, WriterStep, Threads

-----------------------------------------------------------------------------
(* The initial state satisfies the invariant. *)
LEMMA InitIInv == Init => IInv /\ NoLostReader
<1> SUFFICES ASSUME Init PROVE IInv /\ NoLostReader
  OBVIOUS
<1>1. ResourceCntInv
  <2> SUFFICES ASSUME NEW l \in Locks PROVE CountOf(l)
    BY CountsOfLocks
  <2>1. ReadersIn(l) = {} /\ WritersIn(l) = {}
    BY DEF Init, ReadersIn, WritersIn, UsersOf, InLock, Threads
  <2> QED BY <2>1, FS_EmptySet DEF Init, CountOf
<1>2. WaitingWritersInv
  <2>1. Asking(Writers) = {}
    BY DEF Init, Asking, Threads
  <2> QED BY <2>1, FS_EmptySet DEF Init, WaitingWritersInv
<1>3. TypeOK /\ NoLostWriter /\ NoLostReader
  BY DEF Init, TypeOK, NoLostWriter, NoLostReader, MutexStates, Free
<1>4. MutexInv
  BY LockOfType DEF Init, MutexInv, Asleep, Free
<1> QED BY <1>1, <1>2, <1>3, <1>4 DEF IInv, CountInv

LEMMA NextIInv == IInv /\ [Next]_vars => IInv'
BY TypeStep, MutexStep, ResourceStep, WaitingStep, LostWriterStep DEF IInv, CountInv

LEMMA Inductive == Spec => []IInv
<1>1. Init => IInv
  BY InitIInv
<1> QED BY <1>1, NextIInv, PTL DEF Spec

(* Every variable keeps its type. *)
THEOREM TypeCorrect == Spec => []TypeOK
<1>1. IInv => TypeOK
  BY DEF IInv
<1> QED BY <1>1, Inductive, PTL

(* resource_cnt tells who is inside each lock and waiting_writers how many *)
(* writers are inside WriterLock, of any number of locks                   *)
(* (rwlock-writer-pref.cpp: the counters the while loops test).            *)
THEOREM CountCorrect == Spec => []CountInv
<1>1. IInv => CountInv
  BY DEF IInv
<1> QED BY <1>1, Inductive, PTL

(* The signals of ReaderUnlock and WriterUnlock wake a writer whenever one *)
(* sleeps on a lock that became free, however many locks there are.        *)
THEOREM WriterWakeupsCorrect == Spec => []NoLostWriter
<1>1. IInv => NoLostWriter
  BY DEF IInv
<1> QED BY <1>1, Inductive, PTL

(* When all threads use one lock, as in every program of the repository,   *)
(* no wake-up is lost at all: a reader sleeps only behind a writer that is *)
(* inside or waits.  The run with two locks shows why the hypothesis is    *)
(* needed.                                                                 *)
THEOREM WakeupsCorrect ==
  ASSUME OneLockForAll
  PROVE  Spec => []NoLostWakeup
<1>1. Init => IInv /\ NoLostReader
  BY InitIInv
<1>2. IInv /\ NoLostReader /\ [Next]_vars => (IInv /\ NoLostReader)'
  BY NextIInv, LostReaderStep
<1>3. IInv /\ NoLostReader => NoLostWakeup
  BY DEF IInv, NoLostWakeup
<1> QED BY <1>1, <1>2, <1>3, PTL DEF Spec

-----------------------------------------------------------------------------
(* A step that leaves the sets of askers and holders alone is a stutter.   *)
LEMMA Stutters ==
  ASSUME \A u \in Threads : pc'[u] \in {"test", "wait"} <=> pc[u] \in {"test", "wait"},
         \A u \in Threads :
           pc'[u] \in {"hold", "release"} <=> pc[u] \in {"hold", "release"}
  PROVE  UNCHANGED LockSpec!vars
BY DEF LockSpec!vars, Asking, InLock

(* Every step of the code is a step of the abstract lock or a stutter.     *)
LEMMA RefinementStep == IInv /\ [Next]_vars => [LockSpec!Next]_LockSpec!vars
<1> SUFFICES ASSUME IInv, [Next]_vars PROVE LockSpec!Next \/ UNCHANGED LockSpec!vars
  OBVIOUS
<1> USE LockOfType DEF IInv
<1>1. CASE UNCHANGED vars
  BY <1>1, Stutters DEF vars
<1>2. ASSUME NEW t \in Threads, ReaderLock(t) \/ WriterLock(t) PROVE LockSpec!Request(t)
  <2>1. pc[t] = "start" /\ pc' = [pc EXCEPT ![t] = "test"]
    BY <1>2 DEF ReaderLock, WriterLock, TakeMutex, Goto
  <2> QED BY <2>1 DEF LockSpec!Request, Asking, InLock, TypeOK
<1>3. ASSUME NEW t \in Threads,
             WaitReturns(t) \/ Unlock(t) \/ SpuriousWakeup(t) \/ CallAgain(t)
      PROVE  UNCHANGED LockSpec!vars
  <2>1. /\ \A u \in Threads : pc'[u] \in {"test", "wait"} <=> pc[u] \in {"test", "wait"}
        /\ \A u \in Threads :
             pc'[u] \in {"hold", "release"} <=> pc[u] \in {"hold", "release"}
    BY <1>3 DEF WaitReturns, Unlock, SpuriousWakeup, CallAgain, TakeMutex, Goto, TypeOK
  <2> QED BY <2>1, Stutters
<1>4. ASSUME NEW r \in Readers, ReaderLockTest(r)
      PROVE  LockSpec!AcquireRead(r) \/ UNCHANGED LockSpec!vars
  <2>1. CASE ReaderMustWait(r)
    <3>1. pc[r] = "test" /\ pc' = [pc EXCEPT ![r] = "wait"]
      BY <1>4, <2>1 DEF ReaderLockTest, ReleaseMutex, Goto
    <3> QED BY <3>1, Stutters DEF TypeOK
  <2>2. CASE ~ReaderMustWait(r)
    <3>1. pc[r] = "test" /\ pc' = [pc EXCEPT ![r] = "hold"]
      BY <1>4, <2>2 DEF ReaderLockTest, ReleaseMutex, Goto
    <3>2. LockSpec!Sharing(r, InLock(Threads)) \cap Writers = {}
      <4>1. WritersIn(LockOf[r]) = {}
        BY <2>2, CountsOfLocks, CountCases DEF CountInv, ReaderMustWait, Threads
      <4> QED BY <4>1 DEF LockSpec!Sharing, WritersIn, InLock, UsersOf
    <3>3. LockSpec!Sharing(r, Asking(Threads)) \cap Writers = {}
      <4>1. Asking(Writers) = {}
        BY <2>2, WritersAsking DEF CountInv, WaitingWritersInv, ReaderMustWait
      <4> QED BY <4>1 DEF LockSpec!Sharing, Asking
    <3>4. LockSpec!Acquire(r)
      BY <3>1 DEF LockSpec!Acquire, Asking, InLock, TypeOK, Threads
    <3> QED BY <3>1, <3>2, <3>3, <3>4 DEF LockSpec!AcquireRead, Asking, Threads
  <2> QED BY <2>1, <2>2
<1>5. ASSUME NEW w \in Writers, WriterLockTest(w)
      PROVE  LockSpec!AcquireWrite(w) \/ UNCHANGED LockSpec!vars
  <2>1. CASE WriterMustWait(w)
    <3>1. pc[w] = "test" /\ pc' = [pc EXCEPT ![w] = "wait"]
      BY <1>5, <2>1 DEF WriterLockTest, ReleaseMutex, Goto
    <3> QED BY <3>1, Stutters DEF TypeOK
  <2>2. CASE ~WriterMustWait(w)
    <3>1. pc[w] = "test" /\ pc' = [pc EXCEPT ![w] = "hold"] /\ resource_cnt[LockOf[w]] = 0
      BY <1>5, <2>2 DEF WriterLockTest, WriterMustWait, ReleaseMutex, Goto
    <3>2. ReadersIn(LockOf[w]) = {} /\ WritersIn(LockOf[w]) = {}
      BY <3>1, CountsOfLocks, CountCases DEF CountInv, Threads
    <3>3. LockSpec!Sharing(w, InLock(Threads)) = {}
      BY <3>2 DEF LockSpec!Sharing, ReadersIn, WritersIn, InLock, UsersOf, Threads
    <3>4. LockSpec!Acquire(w)
      BY <3>1 DEF LockSpec!Acquire, Asking, InLock, TypeOK, Threads
    <3> QED BY <3>1, <3>3, <3>4 DEF LockSpec!AcquireWrite, Asking, Threads
  <2> QED BY <2>1, <2>2
<1>6. ASSUME NEW t \in Threads,
             \/ t \in Readers /\ ReaderUnlockBody(t)
             \/ t \in Writers /\ WriterUnlockBody(t)
      PROVE  LockSpec!Release(t)
  <2>1. pc[t] = "release" /\ pc' = [pc EXCEPT ![t] = "done"]
    BY <1>6 DEF ReaderUnlockBody, WriterUnlockBody, ReleaseMutex, Goto
  <2> QED BY <2>1 DEF LockSpec!Release, Asking, InLock, TypeOK
<1> QED
  BY <1>1, <1>2, <1>3, <1>4, <1>5, <1>6
  DEF Next, Step, ReaderStep, WriterStep, LockSpec!Next, Threads

(* The code implements the read-write lock with writer preference, lock by *)
(* lock: no interleaving lets a writer in beside anybody else, nor a       *)
(* reader while a writer of its lock waits (the conditions of ReaderLock   *)
(* and WriterLock).                                                        *)
THEOREM Refinement == Spec => ImplementsRWLock
<1>1. Init => LockSpec!Init
  BY DEF Init, LockSpec!Init, Asking, InLock
<1>2. IInv /\ [Next]_vars => [LockSpec!Next]_LockSpec!vars
  BY RefinementStep
<1> QED BY <1>1, <1>2, Inductive, PTL DEF Spec, ImplementsRWLock, LockSpec!Spec

-----------------------------------------------------------------------------
(* What Step needs of a thread: it owns the mutex of its lock, or that     *)
(* mutex is free and it asks for it.                                       *)
CanStep(t) ==
  \/ pc[t] \in {"test", "release"}
  \/ lock[LockOf[t]] = Free /\ pc[t] \in {"start", "hold"}
  \/ lock[LockOf[t]] = Free /\ pc[t] = "wait" /\ ~Asleep(t)

NoDeadlock == (\E t \in Threads : pc[t] # "done") => \E t \in Threads : CanStep(t)

(* Readers that give way to waiting writers and writers that wait for      *)
(* readers never all sleep at once: until every thread is back from its    *)
(* unlock, some thread can go on, if all use one lock.                     *)
THEOREM DeadlockFree ==
  ASSUME OneLockForAll
  PROVE  Spec => []NoDeadlock
<1>1. IInv /\ NoLostWakeup => NoDeadlock
  <2> SUFFICES ASSUME IInv, NoLostWakeup, NEW u \in Threads, pc[u] # "done"
               PROVE  \E t \in Threads : CanStep(t)
    BY DEF NoDeadlock
  <2> DEFINE l == LockOf[u]
  <2> USE DEF IInv
  <2>0. l \in Locks /\ \A t \in Threads : LockOf[t] = l
    BY LockOfType DEF OneLockForAll
  <2> HIDE DEF l
  <2>1. CASE lock[l] # Free
    <3>1. PICK t \in Threads : lock[l] = {t}
      BY <2>0, <2>1 DEF TypeOK, MutexStates
    <3> QED BY <2>0, <3>1 DEF MutexInv, CanStep
  <2>2. ASSUME lock[l] = Free, resource_cnt[l] # 0
        PROVE  \E t \in Threads : CanStep(t)
    <3>1. InLock(UsersOf(l, Readers)) # {} \/ InLock(UsersOf(l, Writers)) # {}
      BY <2>0, <2>2, FS_EmptySet DEF CountInv, ResourceCntInv
    <3>2. PICK t \in Threads : pc[t] \in {"hold", "release"}
      BY <3>1 DEF InLock, UsersOf, Threads
    <3> QED BY <2>0, <2>2, <3>2 DEF CanStep
  <2>3. ASSUME lock[l] = Free, resource_cnt[l] = 0, NEW w \in Writers, pc[w] \in {"test", "wait"}
        PROVE  \E t \in Threads : CanStep(t)
    <3>1. CASE ~Asleep(w)
      BY <2>0, <2>3, <3>1 DEF CanStep, Threads
    <3>2. CASE Asleep(w)
      <4>1. w \in write_phase[l]
        BY <2>0, <3>2, ThreadsAssumption DEF Asleep, TypeOK, Threads
      <4>2. PICK v \in Writers : pc[v] \in {"test", "wait"} /\ ~Asleep(v)
        BY <2>0, <2>3, <4>1 DEF NoLostWakeup, NoLostWriter, Awake, Asking, UsersOf
      <4> QED BY <2>0, <2>3, <4>2 DEF CanStep, Threads
    <3> QED BY <3>1, <3>2
  <2>4. CASE lock[l] = Free /\ resource_cnt[l] = 0 /\ Asleep(u)
    <3>1. pc[u] = "wait"
      BY <2>4 DEF MutexInv
    <3>2. CASE u \in Writers
      BY <2>3, <2>4, <3>1, <3>2
    <3>3. CASE u \in Readers
      <4>1. u \in read_phase[l]
        BY <2>0, <2>4, <3>3, ThreadsAssumption DEF Asleep, TypeOK, Threads
      <4>2. PICK w \in Writers : pc[w] \in {"test", "wait"}
        BY <2>0, <2>4, <4>1 DEF NoLostWakeup, NoLostReader, Asking, UsersOf
      <4> QED BY <2>3, <2>4, <4>2
    <3> QED BY <3>2, <3>3 DEF Threads
  <2>5. CASE lock[l] = Free /\ ~Asleep(u)
    BY <2>0, <2>5 DEF TypeOK, CanStep
  <2> QED BY <2>1, <2>2, <2>4, <2>5
<1> QED BY <1>1, Inductive, WakeupsCorrect, PTL
=============================================================================
