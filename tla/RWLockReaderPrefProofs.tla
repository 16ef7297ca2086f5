----------------------- MODULE RWLockReaderPrefProofs -----------------------
(***************************************************************************)
(* Proofs about RWLockReaderPref, for any finite sets of threads.  The     *)
(* inductive invariant joins the type invariant, the mutex discipline, the *)
(* meaning of resource_cnt and the placing of wake-ups.  CountInv alone is *)
(* not inductive: that nobody else moves between a thread's test of the    *)
(* counter and its update needs MutexInv.                                  *)
(***************************************************************************)
EXTENDS RWLockReaderPref, FiniteSetTheorems, TLAPS

IInv == TypeOK /\ MutexInv /\ CountInv /\ NoLostWakeup

-----------------------------------------------------------------------------
(* The readers inside are finitely many, and how their number changes when *)
(* one comes in or leaves.                                                 *)
LEMMA ReadersInside ==
  ASSUME TypeOK
  PROVE  /\ IsFiniteSet(InLock(Readers))
         /\ Cardinality(InLock(Readers)) \in Nat
         /\ Cardinality(InLock(Readers)) = 0 <=> InLock(Readers) = {}
         /\ \A r \in Readers \ InLock(Readers) :
              Cardinality(InLock(Readers) \cup {r}) = Cardinality(InLock(Readers)) + 1
         /\ \A r \in InLock(Readers) :
              Cardinality(InLock(Readers) \ {r}) = Cardinality(InLock(Readers)) - 1
<1>1. IsFiniteSet(InLock(Readers))
  <2>1. InLock(Readers) \in SUBSET Readers
    BY DEF InLock
  <2> QED BY <2>1, ThreadsAssumption, FS_Subset
<1>2. Cardinality(InLock(Readers)) \in Nat
  BY <1>1, FS_CardinalityType
<1>3. Cardinality(InLock(Readers)) = 0 <=> InLock(Readers) = {}
  BY <1>1, FS_EmptySet
<1>4. \A r \in Readers \ InLock(Readers) :
        Cardinality(InLock(Readers) \cup {r}) = Cardinality(InLock(Readers)) + 1
  BY <1>1, FS_AddElement
<1>5. \A r \in InLock(Readers) :
        Cardinality(InLock(Readers) \ {r}) = Cardinality(InLock(Readers)) - 1
  BY <1>1, FS_RemoveElement
<1> QED BY <1>1, <1>2, <1>3, <1>4, <1>5

(* Waking at most one sleeper leaves a subset, and the one woken is awake. *)
LEMMA SignalWakes ==
  ASSUME NEW S, NEW T \in CondSignal(S)
  PROVE  /\ T \subseteq S
         /\ S # {} => \E w \in S : T = S \ {w}
BY DEF CondSignal

-----------------------------------------------------------------------------
(* The type invariant. *)
LEMMA TypeStep == TypeOK /\ [Next]_vars => TypeOK'
<1> SUFFICES ASSUME TypeOK, [Next]_vars PROVE TypeOK'
  OBVIOUS
<1> USE ThreadsAssumption DEF Free, MutexStates
<1>1. CASE UNCHANGED vars
  BY <1>1 DEF TypeOK, vars
<1>2. ASSUME NEW t \in Threads, Lock(t) \/ WaitReturns(t) \/ Unlock(t) PROVE TypeOK'
  BY <1>2 DEF Lock, WaitReturns, Unlock, TakeMutex, Goto, TypeOK
<1>3. ASSUME NEW r \in Readers, ReaderLockTest(r) PROVE TypeOK'
  BY <1>3 DEF ReaderLockTest, ReaderSleeps, Goto, TypeOK, Threads
<1>4. ASSUME NEW r \in Readers, ReaderUnlockBody(r) PROVE TypeOK'
  <2>1. write_phase' \subseteq write_phase
    BY <1>4, SignalWakes DEF ReaderUnlockBody, WakeByReader
  <2> QED BY <1>4, <2>1 DEF ReaderUnlockBody, Goto, TypeOK, Threads
<1>5. ASSUME NEW w \in Writers, WriterLockTest(w) PROVE TypeOK'
  BY <1>5 DEF WriterLockTest, Goto, TypeOK, Threads
<1>6. ASSUME NEW w \in Writers, WriterUnlockBody(w) PROVE TypeOK'
  <2>1. write_phase' \subseteq write_phase /\ read_phase' = {}
    BY <1>6, SignalWakes DEF WriterUnlockBody, WakeReaders, CondBroadcast
  <2> QED BY <1>6, <2>1 DEF WriterUnlockBody, Goto, TypeOK, Threads
<1>7. ASSUME NEW t \in Threads, SpuriousWakeup(t) PROVE TypeOK'
  BY <1>7 DEF SpuriousWakeup, TypeOK
<1>8. ASSUME NEW t \in Threads, CallAgain(t) PROVE TypeOK'
  BY <1>8 DEF CallAgain, Goto, TypeOK
<1> QED
  BY <1>1, <1>2, <1>3, <1>4, <1>5, <1>6, <1>7, <1>8
  DEF Next, Step, ReaderStep, WriterStep

(* The mutex discipline. *)
LEMMA MutexStep == TypeOK /\ MutexInv /\ [Next]_vars => MutexInv'
<1> SUFFICES ASSUME TypeOK, MutexInv, [Next]_vars PROVE MutexInv'
  OBVIOUS
<1> USE ThreadsAssumption DEF Free
<1>1. CASE UNCHANGED vars
  BY <1>1 DEF MutexInv, vars
<1>2. ASSUME NEW t \in Threads, Lock(t) \/ WaitReturns(t) \/ Unlock(t) PROVE MutexInv'
  <2>1. CASE Lock(t)
    BY <2>1 DEF Goto, TypeOK, Lock, TakeMutex, MutexInv
  <2>2. CASE WaitReturns(t)
    BY <2>2 DEF Goto, TypeOK, WaitReturns, TakeMutex, MutexInv
  <2>3. CASE Unlock(t)
    BY <2>3 DEF Goto, TypeOK, Unlock, TakeMutex, MutexInv
  <2> QED BY <1>2, <2>1, <2>2, <2>3
<1>3. ASSUME NEW r \in Readers, ReaderLockTest(r) PROVE MutexInv'
  BY <1>3 DEF Goto, TypeOK, ReaderLockTest, ReaderSleeps, MutexInv, Threads
<1>4. ASSUME NEW r \in Readers, ReaderUnlockBody(r) PROVE MutexInv'
  <2>1. write_phase' \subseteq write_phase
    BY <1>4, SignalWakes DEF ReaderUnlockBody, WakeByReader
  <2> QED BY <1>4, <2>1 DEF Goto, TypeOK, ReaderUnlockBody, MutexInv, Threads
<1>5. ASSUME NEW w \in Writers, WriterLockTest(w) PROVE MutexInv'
  BY <1>5 DEF Goto, TypeOK, WriterLockTest, MutexInv, Threads
<1>6. ASSUME NEW w \in Writers, WriterUnlockBody(w) PROVE MutexInv'
  <2>1. write_phase' \subseteq write_phase /\ read_phase' = {}
    BY <1>6, SignalWakes DEF WriterUnlockBody, WakeReaders, CondBroadcast
  <2> QED BY <1>6, <2>1 DEF Goto, TypeOK, WriterUnlockBody, MutexInv, Threads
<1>7. ASSUME NEW t \in Threads, SpuriousWakeup(t) PROVE MutexInv'
  BY <1>7 DEF SpuriousWakeup, MutexInv
<1>8. ASSUME NEW t \in Threads, CallAgain(t) PROVE MutexInv'
  BY <1>8 DEF Goto, TypeOK, CallAgain, MutexInv
<1> QED
  BY <1>1, <1>2, <1>3, <1>4, <1>5, <1>6, <1>7, <1>8
  DEF Next, Step, ReaderStep, WriterStep

-----------------------------------------------------------------------------
(* resource_cnt tells who is inside. *)
LEMMA CountStep == TypeOK /\ MutexInv /\ CountInv /\ [Next]_vars => CountInv'
<1> SUFFICES ASSUME TypeOK, MutexInv, CountInv, [Next]_vars PROVE CountInv'
  OBVIOUS
<1>a. resource_cnt = -1 => InLock(Readers) = {} /\ \E w \in Writers : InLock(Writers) = {w}
  BY ReadersInside DEF CountInv
<1>b. resource_cnt # -1 =>
        resource_cnt = Cardinality(InLock(Readers)) /\ InLock(Writers) = {}
  BY DEF CountInv
<1>1. CASE UNCHANGED vars
  BY <1>1 DEF CountInv, InLock, vars
(* Moves that change neither the counter nor who is inside. *)
<1>2. ASSUME UNCHANGED resource_cnt, InLock(Readers)' = InLock(Readers),
             InLock(Writers)' = InLock(Writers)
      PROVE  CountInv'
  BY <1>2 DEF CountInv
<1>3. ASSUME NEW t \in Threads,
             Lock(t) \/ WaitReturns(t) \/ Unlock(t) \/ SpuriousWakeup(t) \/ CallAgain(t)
      PROVE  CountInv'
  <2>1. UNCHANGED resource_cnt
    BY <1>3 DEF Lock, WaitReturns, Unlock, SpuriousWakeup, CallAgain, TakeMutex
  <2>2. \A u \in Threads :
          pc'[u] \in {"hold", "release"} <=> pc[u] \in {"hold", "release"}
    BY <1>3
    DEF Lock, WaitReturns, Unlock, SpuriousWakeup, CallAgain, TakeMutex, Goto, TypeOK
  <2> QED BY <1>2, <2>1, <2>2 DEF InLock, Threads
<1>4. ASSUME NEW r \in Readers, ReaderLockTest(r) PROVE CountInv'
  <2>1. CASE ReaderMustWait
    <3>1. UNCHANGED resource_cnt /\ Goto(r, "wait") /\ pc[r] = "test"
      BY <1>4, <2>1 DEF ReaderLockTest
    <3>2. InLock(Readers)' = InLock(Readers) /\ InLock(Writers)' = InLock(Writers)
      BY <3>1 DEF InLock, Goto, TypeOK
    <3> QED BY <1>2, <3>1, <3>2
  <2>2. CASE ~ReaderMustWait
    <3>1. resource_cnt' = resource_cnt + 1 /\ Goto(r, "hold") /\ pc[r] = "test"
      BY <1>4, <2>2 DEF ReaderLockTest
    <3>2. InLock(Readers)' = InLock(Readers) \cup {r} /\ r \notin InLock(Readers)
      BY <3>1 DEF InLock, Goto, TypeOK, Threads
    <3>3. InLock(Writers)' = InLock(Writers)
      BY <3>1, ThreadsAssumption DEF InLock, Goto, TypeOK, Threads
    <3>4. resource_cnt' = Cardinality(InLock(Readers)')
      BY <1>b, <2>2, <3>1, <3>2, ReadersInside DEF ReaderMustWait
    <3> QED BY <1>b, <2>2, <3>3, <3>4 DEF CountInv, ReaderMustWait
  <2> QED BY <2>1, <2>2
<1>5. ASSUME NEW r \in Readers, ReaderUnlockBody(r) PROVE CountInv'
  <2>1. resource_cnt' = resource_cnt - 1 /\ Goto(r, "done") /\ pc[r] = "release"
    BY <1>5 DEF ReaderUnlockBody
  <2>2. InLock(Readers)' = InLock(Readers) \ {r} /\ r \in InLock(Readers)
    BY <2>1 DEF InLock, Goto, TypeOK, Threads
  <2>3. InLock(Writers)' = InLock(Writers)
    BY <2>1, ThreadsAssumption DEF InLock, Goto, TypeOK, Threads
  <2>4. resource_cnt' = Cardinality(InLock(Readers)') /\ InLock(Writers) = {}
    BY <1>a, <1>b, <2>1, <2>2, ReadersInside
  <2> QED BY <2>3, <2>4 DEF CountInv
<1>6. ASSUME NEW w \in Writers, WriterLockTest(w) PROVE CountInv'
  <2>1. CASE WriterMustWait
    <3>1. UNCHANGED resource_cnt /\ Goto(w, "wait") /\ pc[w] = "test"
      BY <1>6, <2>1 DEF WriterLockTest
    <3>2. InLock(Readers)' = InLock(Readers) /\ InLock(Writers)' = InLock(Writers)
      BY <3>1 DEF InLock, Goto, TypeOK
    <3> QED BY <1>2, <3>1, <3>2
  <2>2. CASE ~WriterMustWait
    <3>1. resource_cnt = 0 /\ resource_cnt' = -1 /\ Goto(w, "hold") /\ pc[w] = "test"
      BY <1>6, <2>2 DEF WriterLockTest, WriterMustWait
    <3>2. InLock(Readers) = {} /\ InLock(Writers) = {}
      BY <1>b, <3>1, ReadersInside
    <3>3. InLock(Readers)' = {}
      BY <3>1, <3>2, ThreadsAssumption DEF InLock, Goto, TypeOK, Threads
    <3>4. InLock(Writers)' = {w}
      BY <3>1, <3>2 DEF InLock, Goto, TypeOK, Threads
    <3> QED BY <3>1, <3>3, <3>4 DEF CountInv
  <2> QED BY <2>1, <2>2
<1>7. ASSUME NEW w \in Writers, WriterUnlockBody(w) PROVE CountInv'
  <2>1. resource_cnt' = 0 /\ Goto(w, "done") /\ pc[w] = "release"
    BY <1>7 DEF WriterUnlockBody
  <2>2. w \in InLock(Writers)
    BY <2>1 DEF InLock
  <2>3. InLock(Readers) = {} /\ InLock(Writers) = {w}
    BY <1>a, <1>b, <2>2
  <2>4. InLock(Readers)' = {}
    BY <2>1, <2>3, ThreadsAssumption DEF InLock, Goto, TypeOK, Threads
  <2>5. InLock(Writers)' = {}
    BY <2>1, <2>3 DEF InLock, Goto, TypeOK, Threads
  <2> QED BY <2>1, <2>4, <2>5, FS_EmptySet DEF CountInv
<1> QED
  BY <1>1, <1>3, <1>4, <1>5, <1>6, <1>7 DEF Next, Step, ReaderStep, WriterStep

-----------------------------------------------------------------------------
(* A writer woken by a signal is awake and about to test the counter. *)
LEMMA WokenWriter ==
  ASSUME TypeOK, MutexInv, NEW t \in Threads, pc[t] = "release", Goto(t, "done"),
         write_phase' \in CondSignal(write_phase), read_phase' \subseteq Readers
  PROVE  write_phase' # {} => Awake(Writers)' # {}
<1> SUFFICES ASSUME write_phase' # {} PROVE Awake(Writers)' # {}
  OBVIOUS
<1>1. PICK w \in write_phase : write_phase' = write_phase \ {w}
  BY SignalWakes
<1>2. w \in Writers /\ pc[w] = "wait" /\ w # t
  BY <1>1 DEF TypeOK, MutexInv
<1>3. pc'[w] = "wait"
  BY <1>2 DEF Goto, TypeOK, Threads
<1>4. w \notin read_phase' \cup write_phase'
  BY <1>1, <1>2, ThreadsAssumption
<1> QED BY <1>2, <1>3, <1>4 DEF Awake, Asking

(* No wake-up is lost. *)
LEMMA WakeupStep == IInv /\ [Next]_vars => NoLostWakeup'
<1> SUFFICES ASSUME IInv, [Next]_vars PROVE NoLostWakeup'
  OBVIOUS
<1> USE ThreadsAssumption DEF IInv
<1>a. resource_cnt \in Int /\ (resource_cnt = -1 \/ resource_cnt >= 0)
  BY ReadersInside DEF TypeOK, CountInv
<1>1. CASE UNCHANGED vars
  BY <1>1 DEF NoLostWakeup, Awake, Asking, vars
<1>2. ASSUME NEW t \in Threads,
             Lock(t) \/ WaitReturns(t) \/ Unlock(t) \/ CallAgain(t)
      PROVE  NoLostWakeup'
  <2>1. UNCHANGED <<resource_cnt, read_phase, write_phase>>
    BY <1>2 DEF Lock, WaitReturns, Unlock, CallAgain, TakeMutex
  <2>2. \A u \in Threads : pc[u] \in {"test", "wait"} => pc'[u] \in {"test", "wait"}
    BY <1>2 DEF Lock, WaitReturns, Unlock, CallAgain, TakeMutex, Goto, TypeOK
  <2>3. Awake(Writers) \subseteq Awake(Writers)'
    BY <2>1, <2>2 DEF Awake, Asking, Threads
  <2> QED BY <2>1, <2>3 DEF NoLostWakeup
<1>3. ASSUME NEW t \in Threads, SpuriousWakeup(t) PROVE NoLostWakeup'
  <2>1. /\ UNCHANGED <<resource_cnt, pc>>
        /\ read_phase' = read_phase \ {t} /\ write_phase' = write_phase \ {t}
    BY <1>3 DEF SpuriousWakeup
  <2>2. Awake(Writers) \subseteq Awake(Writers)'
    BY <2>1 DEF Awake, Asking
  <2> QED BY <2>1, <2>2 DEF NoLostWakeup
<1>4. ASSUME NEW r \in Readers, ReaderLockTest(r) PROVE NoLostWakeup'
  <2>1. CASE ReaderMustWait
    BY <1>4, <2>1 DEF ReaderLockTest, ReaderMustWait, NoLostWakeup
  <2>2. CASE ~ReaderMustWait
    BY <1>4, <2>2, <1>a DEF ReaderLockTest, ReaderMustWait, NoLostWakeup
  <2> QED BY <2>1, <2>2
<1>5. ASSUME NEW r \in Readers, ReaderUnlockBody(r) PROVE NoLostWakeup'
  <2>1. /\ pc[r] = "release" /\ Goto(r, "done") /\ UNCHANGED read_phase
        /\ write_phase' \in WakeByReader(resource_cnt')
    BY <1>5 DEF ReaderUnlockBody
  <2>2. r \in InLock(Readers) /\ resource_cnt # -1
    BY <2>1, ReadersInside, FS_CardinalityType, FS_EmptySet DEF CountInv, InLock, Threads, TypeOK
  <2>2a. read_phase = {}
    BY <2>2 DEF NoLostWakeup
  <2>3. resource_cnt' = 0 => write_phase' \in CondSignal(write_phase)
    BY <2>1 DEF WakeByReader
  <2>4. resource_cnt' = 0 => (write_phase' # {} => Awake(Writers)' # {})
    BY <2>1, <2>2a, <2>3, WokenWriter DEF Threads
  <2> QED BY <2>1, <2>2a, <2>4 DEF NoLostWakeup
<1>6. ASSUME NEW w \in Writers, WriterLockTest(w) PROVE NoLostWakeup'
  <2>1. CASE WriterMustWait
    BY <1>6, <2>1 DEF WriterLockTest, WriterMustWait, NoLostWakeup
  <2>2. CASE ~WriterMustWait
    BY <1>6, <2>2 DEF WriterLockTest, NoLostWakeup
  <2> QED BY <2>1, <2>2
<1>7. ASSUME NEW w \in Writers, WriterUnlockBody(w) PROVE NoLostWakeup'
  <2>1. /\ pc[w] = "release" /\ Goto(w, "done") /\ read_phase' = {}
        /\ write_phase' \in CondSignal(write_phase)
    BY <1>7 DEF WriterUnlockBody, WakeReaders, CondBroadcast
  <2>2. write_phase' # {} => Awake(Writers)' # {}
    BY <2>1, WokenWriter DEF Threads
  <2> QED BY <2>1, <2>2 DEF NoLostWakeup
<1> QED
  BY <1>1, <1>2, <1>3, <1>4, <1>5, <1>6, <1>7 DEF Next, Step, ReaderStep, WriterStep

-----------------------------------------------------------------------------
(* The initial state satisfies the invariant. *)
LEMMA InitIInv == Init => IInv
<1> SUFFICES ASSUME Init PROVE IInv
  OBVIOUS
<1>1. InLock(Readers) = {} /\ InLock(Writers) = {}
  BY DEF Init, InLock, Threads
<1>2. CountInv
  BY <1>1, FS_EmptySet DEF Init, CountInv
<1>3. TypeOK /\ MutexInv /\ NoLostWakeup
  BY DEF Init, TypeOK, MutexInv, NoLostWakeup, MutexStates, Free
<1> QED BY <1>2, <1>3 DEF IInv

LEMMA NextIInv == IInv /\ [Next]_vars => IInv'
BY TypeStep, MutexStep, CountStep, WakeupStep DEF IInv

LEMMA Inductive == Spec => []IInv
BY InitIInv, NextIInv, PTL DEF Spec

(* Every variable keeps its type. *)
THEOREM TypeCorrect == Spec => []TypeOK
<1>1. IInv => TypeOK
  BY DEF IInv
<1> QED BY <1>1, Inductive, PTL

(* resource_cnt always tells who is inside; so a writer is inside alone    *)
(* (rwlock-reader-pref.cpp: ReaderLock, WriterLock and the unlocks).       *)
THEOREM CountCorrect == Spec => []CountInv
<1>1. IInv => CountInv
  BY DEF IInv
<1> QED BY <1>1, Inductive, PTL

(* No wake-up is lost between the threads that leave the lock and those    *)
(* that sleep (the signals of ReaderUnlock and WriterUnlock).              *)
THEOREM WakeupsCorrect == Spec => []NoLostWakeup
<1>1. IInv => NoLostWakeup
  BY DEF IInv
<1> QED BY <1>1, Inductive, PTL
-----------------------------------------------------------------------------
(* A step that leaves the sets of askers and holders alone is a stutter.   *)
LEMMA Stutters ==
  ASSUME \A u \in Threads : pc'[u] \in {"test", "wait"} <=> pc[u] \in {"test", "wait"},
         \A u \in Threads :
           pc'[u] \in {"hold", "release"} <=> pc[u] \in {"hold", "release"}
  PROVE  UNCHANGED LockSpec!vars
BY DEF LockSpec!vars, Asking, InLock

(* Every step of the code is a step of the abstract lock or a stutter.     *)
LEMMA RefinementStep == IInv /\ [Next]_vars => [LockSpec!Next]_LockSpec!vars
<1> SUFFICES ASSUME IInv, [Next]_vars PROVE LockSpec!Next \/ UNCHANGED LockSpec!vars
  OBVIOUS
<1> USE DEF IInv
<1>a. InLock(Threads) = InLock(Readers) \cup InLock(Writers)
  BY DEF InLock, Threads
<1>1. CASE UNCHANGED vars
  BY <1>1, Stutters DEF vars
<1>2. ASSUME NEW t \in Threads, Lock(t) PROVE LockSpec!Request(t)
  <2>1. pc[t] = "start" /\ pc' = [pc EXCEPT ![t] = "test"]
    BY <1>2 DEF Lock, TakeMutex, Goto
  <2> QED BY <2>1 DEF LockSpec!Request, Asking, InLock, TypeOK
<1>3. ASSUME NEW t \in Threads,
             WaitReturns(t) \/ Unlock(t) \/ SpuriousWakeup(t) \/ CallAgain(t)
      PROVE  UNCHANGED LockSpec!vars
  <2>1. /\ \A u \in Threads : pc'[u] \in {"test", "wait"} <=> pc[u] \in {"test", "wait"}
        /\ \A u \in Threads :
             pc'[u] \in {"hold", "release"} <=> pc[u] \in {"hold", "release"}
    BY <1>3 DEF WaitReturns, Unlock, SpuriousWakeup, CallAgain, TakeMutex, Goto, TypeOK
  <2> QED BY <2>1, Stutters
<1>4. ASSUME NEW r \in Readers, ReaderLockTest(r)
      PROVE  LockSpec!AcquireRead(r) \/ UNCHANGED LockSpec!vars
  <2>1. CASE ReaderMustWait
    <3>1. pc[r] = "test" /\ pc' = [pc EXCEPT ![r] = "wait"]
      BY <1>4, <2>1 DEF ReaderLockTest, Goto
    <3> QED BY <3>1, Stutters DEF TypeOK
  <2>2. CASE ~ReaderMustWait
    <3>1. pc[r] = "test" /\ pc' = [pc EXCEPT ![r] = "hold"]
      BY <1>4, <2>2 DEF ReaderLockTest, Goto
    <3>2. LockSpec!Sharing(r, InLock(Threads)) \cap Writers = {}
      <4>1. InLock(Writers) = {}
        BY <2>2 DEF CountInv, ReaderMustWait
      <4>2. InLock(Threads) \cap Writers = {}
        BY <4>1 DEF InLock
      <4> QED BY <4>2 DEF LockSpec!Sharing
    <3>3. LockSpec!Acquire(r)
      BY <3>1 DEF LockSpec!Acquire, Asking, InLock, TypeOK, Threads
    <3> QED BY <3>1, <3>2, <3>3 DEF LockSpec!AcquireRead, Asking, Threads
  <2> QED BY <2>1, <2>2
<1>5. ASSUME NEW w \in Writers, WriterLockTest(w)
      PROVE  LockSpec!AcquireWrite(w) \/ UNCHANGED LockSpec!vars
  <2>1. CASE WriterMustWait
    <3>1. pc[w] = "test" /\ pc' = [pc EXCEPT ![w] = "wait"]
      BY <1>5, <2>1 DEF WriterLockTest, Goto
    <3> QED BY <3>1, Stutters DEF TypeOK
  <2>2. CASE ~WriterMustWait
    <3>1. pc[w] = "test" /\ pc' = [pc EXCEPT ![w] = "hold"] /\ resource_cnt = 0
      BY <1>5, <2>2 DEF WriterLockTest, WriterMustWait, Goto
    <3>2. InLock(Threads) = {}
      BY <1>a, <3>1, ReadersInside DEF CountInv
    <3>3. LockSpec!Sharing(w, InLock(Threads)) = {}
      BY <3>2 DEF LockSpec!Sharing
    <3>4. LockSpec!Acquire(w)
      BY <3>1 DEF LockSpec!Acquire, Asking, InLock, TypeOK, Threads
    <3> QED BY <3>1, <3>3, <3>4 DEF LockSpec!AcquireWrite, Asking, Threads
  <2> QED BY <2>1, <2>2
<1>6. ASSUME NEW t \in Threads,
             \/ t \in Readers /\ ReaderUnlockBody(t)
             \/ t \in Writers /\ WriterUnlockBody(t)
      PROVE  LockSpec!Release(t)
  <2>1. pc[t] = "release" /\ pc' = [pc EXCEPT ![t] = "done"]
    BY <1>6 DEF ReaderUnlockBody, WriterUnlockBody, Goto
  <2> QED BY <2>1 DEF LockSpec!Release, Asking, InLock, TypeOK
<1> QED
  BY <1>1, <1>2, <1>3, <1>4, <1>5, <1>6
  DEF Next, Step, ReaderStep, WriterStep, LockSpec!Next, Threads

(* The code implements the read-write lock: no sequence of calls, wake-ups *)
(* and interleavings lets a writer in beside anybody else (the conditions  *)
(* of ReaderLock and WriterLock).                                          *)
THEOREM Refinement == Spec => ImplementsRWLock
<1>1. Init => LockSpec!Init
  BY DEF Init, LockSpec!Init, Asking, InLock
<1>2. IInv /\ [Next]_vars => [LockSpec!Next]_LockSpec!vars
  BY RefinementStep
<1> QED BY <1>1, <1>2, Inductive, PTL DEF Spec, ImplementsRWLock, LockSpec!Spec

-----------------------------------------------------------------------------
(* What Step needs of a thread: it owns the mutex, or the mutex is free    *)
(* and it asks for it.                                                     *)
CanStep(t) ==
  \/ pc[t] \in {"test", "release"}
  \/ lock = Free /\ pc[t] \in {"start", "hold"}
  \/ lock = Free /\ pc[t] = "wait" /\ t \notin read_phase \cup write_phase

NoDeadlock == (\E t \in Threads : pc[t] # "done") => \E t \in Threads : CanStep(t)

(* Readers and writers never all wait for one another: until every thread  *)
(* is back from its unlock, some thread can go on.  AllThreadsReturn adds  *)
(* that each of them gets its turn.                                        *)
THEOREM DeadlockFree == Spec => []NoDeadlock
<1>1. IInv => NoDeadlock
  <2> SUFFICES ASSUME IInv, NEW u \in Threads, pc[u] # "done"
               PROVE  \E t \in Threads : CanStep(t)
    BY DEF NoDeadlock
  <2> USE DEF IInv
  <2>1. CASE lock # Free
    BY <2>1 DEF TypeOK, MutexStates, MutexInv, CanStep
  <2>2. ASSUME lock = Free, NEW t \in Threads, pc[t] \in {"hold", "release"}
        PROVE  CanStep(t)
    BY <2>2 DEF CanStep
  <2>3. ASSUME lock = Free, resource_cnt # 0
        PROVE  \E t \in Threads : CanStep(t)
    <3>1. InLock(Readers) # {} \/ InLock(Writers) # {}
      BY <2>3, ReadersInside DEF CountInv
    <3>2. PICK t \in Threads : pc[t] \in {"hold", "release"}
      BY <3>1 DEF InLock, Threads
    <3> QED BY <2>2, <2>3, <3>2
  <2>4. CASE lock = Free /\ u \in read_phase
    BY <2>3, <2>4 DEF NoLostWakeup
  <2>5. CASE lock = Free /\ u \in write_phase
    <3>1. CASE resource_cnt = 0
      <4>1. PICK w \in Writers : /\ pc[w] \in {"test", "wait"}
                                 /\ w \notin read_phase \cup write_phase
        BY <2>5, <3>1 DEF NoLostWakeup, Awake, Asking
      <4> QED BY <2>5, <4>1 DEF CanStep, Threads
    <3> QED BY <2>3, <2>5, <3>1
  <2>6. CASE lock = Free /\ u \notin read_phase \cup write_phase
    BY <2>6 DEF TypeOK, CanStep
  <2> QED BY <2>1, <2>4, <2>5, <2>6
<1> QED BY <1>1, Inductive, PTL
=============================================================================
