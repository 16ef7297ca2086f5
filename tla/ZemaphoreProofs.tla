--------------------------- MODULE ZemaphoreProofs ---------------------------
(***************************************************************************)
(* Proofs about Zemaphore, for any finite set of threads, any set of       *)
(* semaphores and any initial values.  NoLostPermit counts threads, so it  *)
(* is inductive only together with MutexInv, which says that sleepers are  *)
(* inside zem_down and that nobody else is in the code of an owned mutex.  *)
(* The last part is about the programs of ZemPrograms, whose printing in   *)
(* turn follows from where their permits are.                              *)
(***************************************************************************)
EXTENDS ZemPrograms, FiniteSetTheorems, TLAPS

PermitsMatched(z) == wait_phase[z] # {} => accesses[z] <= Cardinality(AwakeDowners(z))

IInv == TypeOK /\ MutexInv /\ NoLostPermit

-----------------------------------------------------------------------------
(* The steps in the form the proofs use: each changes the state of one     *)
(* thread and of the one semaphore it is about.                            *)
LEMMA StepCases ==
  ASSUME [Next]_vars
  PROVE  \/ UNCHANGED vars
         \/ \E t \in Threads : \E z \in Zems : DownLock(t, z) \/ UpLock(t, z)
         \/ \E t \in Threads : DownSleep(t) \/ DownTake(t) \/ WaitReturns(t) \/ UpPost(t)
         \/ \E t \in Threads : SpuriousWakeup(t)
BY DEF Next, Call, InCall

(* Waking at most one sleeper leaves the others asleep. *)
LEMMA SignalWakes ==
  ASSUME NEW S, NEW T \in CondSignal(S)
  PROVE  /\ T \subseteq S
         /\ S # {} => \E u \in S : T = S \ {u}
BY DEF CondSignal

(* The awake threads inside zem_down are finitely many, and how their      *)
(* number changes when one comes or goes.                                  *)
LEMMA AwakeCount ==
  ASSUME NEW z
  PROVE  /\ IsFiniteSet(AwakeDowners(z))
         /\ Cardinality(AwakeDowners(z)) \in Nat
         /\ \A t \in Threads \ AwakeDowners(z) :
              Cardinality(AwakeDowners(z) \cup {t}) = Cardinality(AwakeDowners(z)) + 1
         /\ \A t \in AwakeDowners(z) :
              Cardinality(AwakeDowners(z) \ {t}) = Cardinality(AwakeDowners(z)) - 1
<1>1. IsFiniteSet(AwakeDowners(z))
  <2>1. AwakeDowners(z) \in SUBSET Threads
    BY DEF AwakeDowners, Downers
  <2> QED BY <2>1, ZemAssumption, FS_Subset
<1>2. Cardinality(AwakeDowners(z)) \in Nat
  BY <1>1, FS_CardinalityType
<1>3. \A t \in Threads \ AwakeDowners(z) :
        Cardinality(AwakeDowners(z) \cup {t}) = Cardinality(AwakeDowners(z)) + 1
  BY <1>1, FS_AddElement
<1>4. \A t \in AwakeDowners(z) :
        Cardinality(AwakeDowners(z) \ {t}) = Cardinality(AwakeDowners(z)) - 1
  BY <1>1, FS_RemoveElement
<1> QED BY <1>1, <1>2, <1>3, <1>4

-----------------------------------------------------------------------------
(* The type invariant.  DownTake needs no more than its guard: accesses is *)
(* a natural number and not 0.                                             *)
LEMMA TypeStep == TypeOK /\ [Next]_vars => TypeOK'
<1> SUFFICES ASSUME TypeOK, [Next]_vars PROVE TypeOK'
  OBVIOUS
<1> USE DEF Free, MutexStates
<1>1. CASE UNCHANGED vars
  BY <1>1 DEF TypeOK, vars
<1>2. ASSUME NEW t \in Threads, NEW z \in Zems, DownLock(t, z) \/ UpLock(t, z)
      PROVE  TypeOK'
  BY <1>2 DEF DownLock, UpLock, TakeMutex, TypeOK
<1>3. ASSUME NEW t \in Threads, DownSleep(t) PROVE TypeOK'
  BY <1>3 DEF DownSleep, ReleaseMutex, TypeOK
<1>4. ASSUME NEW t \in Threads, DownTake(t) PROVE TypeOK'
  BY <1>4 DEF DownTake, DownMustWait, ReleaseMutex, TypeOK
<1>5. ASSUME NEW t \in Threads, WaitReturns(t) PROVE TypeOK'
  BY <1>5 DEF WaitReturns, TakeMutex, TypeOK
<1>6. ASSUME NEW t \in Threads, UpPost(t) PROVE TypeOK'
  <2>1. PICK ws \in CondSignal(wait_phase[arg[t]]) :
          wait_phase' = [wait_phase EXCEPT ![arg[t]] = ws]
    BY <1>6 DEF UpPost, UpWakes
  <2>2. ws \subseteq Threads
    BY <2>1, SignalWakes DEF TypeOK
  <2> QED BY <1>6, <2>1, <2>2 DEF UpPost, ReleaseMutex, TypeOK
<1>7. ASSUME NEW t \in Threads, SpuriousWakeup(t) PROVE TypeOK'
  BY <1>7 DEF SpuriousWakeup, TypeOK
<1> QED BY <1>1, <1>2, <1>3, <1>4, <1>5, <1>6, <1>7, StepCases

(* The mutex discipline: what taking and releasing a mutex keeps of it. *)
LEMMA MutexTaken ==
  ASSUME TypeOK, MutexInv, NEW t \in Threads, NEW z \in Zems, NEW from, NEW to,
         TakeMutex(t, z, from, to), arg' = [arg EXCEPT ![t] = z],
         from \notin {"test", "post"}, to \in {"test", "post"}, t \notin wait_phase[arg[t]]
  PROVE  MutexInv'
<1> USE DEF Free
<1>1. /\ pc' = [pc EXCEPT ![t] = to] /\ lock[z] = {} /\ UNCHANGED wait_phase
      /\ lock' = [lock EXCEPT ![z] = {t}] /\ pc[t] = from
  BY DEF TakeMutex
<1>2. \A y \in Zems : \A u \in Threads :
        lock'[y] = {u} <=> pc'[u] \in {"test", "post"} /\ arg'[u] = y
  <2> TAKE y \in Zems
  <2> TAKE u \in Threads
  <2>1. CASE u = t
    BY <1>1, <2>1 DEF TypeOK, MutexInv
  <2>2. CASE u # t
    <3>1. pc'[u] = pc[u] /\ arg'[u] = arg[u]
      BY <1>1, <2>2 DEF TypeOK
    <3>2. lock'[y] = IF y = z THEN {t} ELSE lock[y]
      BY <1>1 DEF TypeOK
    <3>3. {u} # {} /\ {u} # {t}
      BY <2>2
    <3>4. lock[y] = {u} <=> pc[u] \in {"test", "post"} /\ arg[u] = y
      BY DEF MutexInv
    <3> QED BY <1>1, <3>1, <3>2, <3>3, <3>4
  <2> QED BY <2>1, <2>2
<1>3. \A y \in Zems : t \notin wait_phase[y]
  BY DEF MutexInv, Downers
<1>4. \A y \in Zems : wait_phase'[y] \subseteq {u \in Downers(y)' : pc'[u] = "wait"}
  BY <1>1, <1>3 DEF TypeOK, MutexInv, Downers
<1> QED BY <1>2, <1>4 DEF MutexInv

LEMMA MutexReleased ==
  ASSUME TypeOK, MutexInv, NEW t \in Threads, NEW to,
         pc[t] \in {"test", "post"}, ReleaseMutex(t, to), to \notin {"test", "post"},
         \A y \in Zems : \A u \in wait_phase'[y] :
           u \in wait_phase[y] \/ (u = t /\ y = arg[t] /\ to = "wait")
  PROVE  MutexInv'
<1> USE DEF Free
<1>1. /\ pc' = [pc EXCEPT ![t] = to] /\ UNCHANGED arg
      /\ lock' = [lock EXCEPT ![arg[t]] = {}]
  BY DEF ReleaseMutex
<1>2. \A y \in Zems : \A u \in Threads :
        lock'[y] = {u} <=> pc'[u] \in {"test", "post"} /\ arg'[u] = y
  <2> TAKE y \in Zems
  <2> TAKE u \in Threads
  <2>1. lock[arg[t]] = {t} /\ arg[t] \in Zems
    BY DEF TypeOK, MutexInv
  <2>4. {u} # {} /\ lock'[y] = IF y = arg[t] THEN {} ELSE lock[y]
    BY <1>1 DEF TypeOK
  <2>5. lock[y] = {u} <=> pc[u] \in {"test", "post"} /\ arg[u] = y
    BY DEF MutexInv
  <2>2. CASE u = t
    BY <1>1, <2>2, <2>4, <2>5 DEF TypeOK
  <2>3. CASE u # t
    <3>1. {u} # {t}
      BY <2>3
    <3>2. pc'[u] = pc[u]
      BY <1>1, <2>3 DEF TypeOK
    <3> QED BY <1>1, <2>1, <2>4, <2>5, <3>1, <3>2
  <2> QED BY <2>2, <2>3
<1>3. \A y \in Zems : t \notin wait_phase[y]
  BY DEF MutexInv, Downers
<1>4. \A y \in Zems : wait_phase'[y] \subseteq {u \in Downers(y)' : pc'[u] = "wait"}
  <2> TAKE y \in Zems
  <2> SUFFICES ASSUME NEW u \in wait_phase'[y]
               PROVE  u \in Threads /\ pc'[u] = "wait" /\ arg'[u] = y
    BY DEF Downers
  <2>1. CASE u \in wait_phase[y]
    BY <1>1, <1>3, <2>1 DEF TypeOK, MutexInv, Downers
  <2>2. CASE u = t /\ y = arg[t] /\ to = "wait"
    BY <1>1, <2>2 DEF TypeOK
  <2> QED BY <2>1, <2>2
<1> QED BY <1>2, <1>4 DEF MutexInv

LEMMA MutexStep == TypeOK /\ MutexInv /\ [Next]_vars => MutexInv'
<1> SUFFICES ASSUME TypeOK, MutexInv, [Next]_vars PROVE MutexInv'
  OBVIOUS
<1>1. CASE UNCHANGED vars
  BY <1>1 DEF MutexInv, Downers, vars
<1>2. ASSUME NEW t \in Threads, NEW z \in Zems, DownLock(t, z) \/ UpLock(t, z)
      PROVE  MutexInv'
  <2>1. pc[t] = "idle" /\ arg' = [arg EXCEPT ![t] = z]
    BY <1>2 DEF DownLock, UpLock, TakeMutex
  <2>2. TakeMutex(t, z, "idle", "test") \/ TakeMutex(t, z, "idle", "post")
    BY <1>2 DEF DownLock, UpLock
  <2>3. t \notin wait_phase[arg[t]]
    BY <2>1 DEF TypeOK, MutexInv, Downers
  <2> QED BY <2>1, <2>2, <2>3, MutexTaken
<1>3. ASSUME NEW t \in Threads, DownSleep(t) PROVE MutexInv'
  <2>1. /\ pc[t] = "test" /\ ReleaseMutex(t, "wait")
        /\ wait_phase' = [wait_phase EXCEPT ![arg[t]] = @ \cup {t}]
    BY <1>3 DEF DownSleep
  <2>2. \A y \in Zems : \A u \in wait_phase'[y] :
          u \in wait_phase[y] \/ (u = t /\ y = arg[t])
    BY <2>1 DEF TypeOK
  <2> QED BY <2>1, <2>2, MutexReleased
<1>4. ASSUME NEW t \in Threads, DownTake(t) PROVE MutexInv'
  BY <1>4, MutexReleased DEF DownTake
<1>5. ASSUME NEW t \in Threads, WaitReturns(t) PROVE MutexInv'
  <2>1. PICK z \in Zems : z = arg[t]
    BY DEF TypeOK
  <2>2. TakeMutex(t, z, "wait", "test") /\ t \notin wait_phase[arg[t]]
    BY <1>5, <2>1 DEF WaitReturns
  <2>3. arg' = [arg EXCEPT ![t] = z]
    BY <1>5, <2>1 DEF WaitReturns, TypeOK
  <2>4. "wait" \notin {"test", "post"} /\ "test" \in {"test", "post"}
    OBVIOUS
  <2> QED BY <2>2, <2>3, <2>4, MutexTaken
<1>6. ASSUME NEW t \in Threads, UpPost(t) PROVE MutexInv'
  <2>1. PICK ws \in CondSignal(wait_phase[arg[t]]) :
          wait_phase' = [wait_phase EXCEPT ![arg[t]] = ws]
    BY <1>6 DEF UpPost, UpWakes
  <2>2. \A y \in Zems : \A u \in wait_phase'[y] : u \in wait_phase[y]
    BY <2>1, SignalWakes DEF TypeOK
  <2> QED BY <1>6, <2>2, MutexReleased DEF UpPost
<1>7. ASSUME NEW t \in Threads, SpuriousWakeup(t) PROVE MutexInv'
  <2>1. /\ UNCHANGED <<lock, pc, arg>>
        /\ \A y \in Zems : wait_phase'[y] \subseteq wait_phase[y]
    BY <1>7 DEF SpuriousWakeup, TypeOK
  <2> QED BY <2>1 DEF MutexInv, Downers
<1> QED BY <1>1, <1>2, <1>3, <1>4, <1>5, <1>6, <1>7, StepCases

-----------------------------------------------------------------------------
(* A step that takes no permit's claimant away and adds no permit.         *)
LEMMA PermitsKept ==
  ASSUME NEW z, PermitsMatched(z), accesses[z] \in Nat,
         accesses'[z] = accesses[z],
         wait_phase'[z] # {} => wait_phase[z] # {},
         AwakeDowners(z) \subseteq AwakeDowners(z)',
         IsFiniteSet(AwakeDowners(z)')
  PROVE  PermitsMatched(z)'
<1>1. Cardinality(AwakeDowners(z)) <= Cardinality(AwakeDowners(z)')
  BY FS_Subset
<1>2. Cardinality(AwakeDowners(z)) \in Nat /\ Cardinality(AwakeDowners(z)') \in Nat
  BY AwakeCount, FS_CardinalityType
<1> QED BY <1>1, <1>2 DEF PermitsMatched

(* No permit is stranded. *)
LEMMA PermitStep == IInv /\ [Next]_vars => NoLostPermit'
<1> SUFFICES ASSUME IInv, [Next]_vars, NEW z \in Zems PROVE PermitsMatched(z)'
  BY DEF NoLostPermit, PermitsMatched
<1> USE DEF IInv
<1>a. PermitsMatched(z) /\ accesses[z] \in Nat
  BY DEF NoLostPermit, PermitsMatched, TypeOK
<1>b. IsFiniteSet(AwakeDowners(z)') /\ Cardinality(AwakeDowners(z)') \in Nat
  <2>1. AwakeDowners(z)' \in SUBSET Threads
    BY DEF AwakeDowners, Downers
  <2> QED BY <2>1, ZemAssumption, FS_Subset, FS_CardinalityType
<1>1. CASE UNCHANGED vars
  BY <1>1, <1>a, <1>b, PermitsKept DEF vars, AwakeDowners, Downers
<1>2. ASSUME NEW t \in Threads, NEW y \in Zems, DownLock(t, y) \/ UpLock(t, y)
      PROVE  PermitsMatched(z)'
  <2>1. /\ pc[t] = "idle"
        /\ \A u \in Threads : u # t => pc'[u] = pc[u] /\ arg'[u] = arg[u]
        /\ UNCHANGED <<accesses, wait_phase>>
    BY <1>2 DEF DownLock, UpLock, TakeMutex, TypeOK
  <2>2. AwakeDowners(z) \subseteq AwakeDowners(z)'
    BY <2>1 DEF AwakeDowners, Downers
  <2> QED BY <2>1, <2>2, <1>a, <1>b, PermitsKept
<1>3. ASSUME NEW t \in Threads, DownSleep(t) PROVE PermitsMatched(z)'
  <2>1. /\ pc[t] = "test" /\ accesses[arg[t]] = 0 /\ UNCHANGED <<accesses, arg>>
        /\ pc' = [pc EXCEPT ![t] = "wait"]
        /\ wait_phase' = [wait_phase EXCEPT ![arg[t]] = @ \cup {t}]
    BY <1>3 DEF DownSleep, DownMustWait, ReleaseMutex
  <2>2. CASE z = arg[t]
    BY <2>1, <2>2, <1>b DEF PermitsMatched
  <2>3. CASE z # arg[t]
    <3>1. AwakeDowners(z) \subseteq AwakeDowners(z)' /\ wait_phase'[z] = wait_phase[z]
      BY <2>1, <2>3 DEF AwakeDowners, Downers, TypeOK
    <3> QED BY <2>1, <3>1, <1>a, <1>b, PermitsKept
  <2> QED BY <2>2, <2>3
<1>4. ASSUME NEW t \in Threads, DownTake(t) PROVE PermitsMatched(z)'
  <2>1. /\ pc[t] = "test" /\ UNCHANGED <<wait_phase, arg>>
        /\ pc' = [pc EXCEPT ![t] = "idle"]
        /\ accesses' = [accesses EXCEPT ![arg[t]] = @ - 1]
    BY <1>4 DEF DownTake, ReleaseMutex
  <2>2. CASE z = arg[t]
    <3>1. t \in AwakeDowners(z)
      BY <2>1, <2>2 DEF AwakeDowners, Downers, MutexInv
    <3>2. AwakeDowners(z)' = AwakeDowners(z) \ {t}
      BY <2>1 DEF AwakeDowners, Downers, TypeOK
    <3>3. Cardinality(AwakeDowners(z)') = Cardinality(AwakeDowners(z)) - 1
      BY <3>1, <3>2, AwakeCount
    <3>4. accesses'[z] = accesses[z] - 1
      BY <2>1, <2>2 DEF TypeOK
    <3> QED BY <2>1, <3>3, <3>4, <1>a, AwakeCount DEF PermitsMatched
  <2>3. CASE z # arg[t]
    <3>1. AwakeDowners(z) \subseteq AwakeDowners(z)' /\ accesses'[z] = accesses[z]
      BY <2>1, <2>3 DEF AwakeDowners, Downers, TypeOK
    <3> QED BY <2>1, <3>1, <1>a, <1>b, PermitsKept
  <2> QED BY <2>2, <2>3
<1>5. ASSUME NEW t \in Threads, WaitReturns(t) \/ SpuriousWakeup(t)
      PROVE  PermitsMatched(z)'
  <2>1. /\ UNCHANGED <<accesses, arg>>
        /\ wait_phase'[z] \subseteq wait_phase[z]
        /\ \A u \in Threads : pc[u] \in {"test", "wait"} => pc'[u] \in {"test", "wait"}
    BY <1>5 DEF WaitReturns, SpuriousWakeup, TakeMutex, TypeOK
  <2>2. AwakeDowners(z) \subseteq AwakeDowners(z)'
    BY <2>1 DEF AwakeDowners, Downers
  <2> QED BY <2>1, <2>2, <1>a, <1>b, PermitsKept
<1>6. ASSUME NEW t \in Threads, UpPost(t) PROVE PermitsMatched(z)'
  <2>1. /\ pc[t] = "post" /\ UNCHANGED arg
        /\ pc' = [pc EXCEPT ![t] = "idle"]
        /\ accesses' = [accesses EXCEPT ![arg[t]] = @ + 1]
    BY <1>6 DEF UpPost, ReleaseMutex
  <2>2. PICK ws \in CondSignal(wait_phase[arg[t]]) :
          wait_phase' = [wait_phase EXCEPT ![arg[t]] = ws]
    BY <1>6 DEF UpPost, UpWakes
  <2>3. CASE z = arg[t]
    <3> SUFFICES ASSUME wait_phase'[z] # {}
                 PROVE  accesses'[z] <= Cardinality(AwakeDowners(z)')
      BY DEF PermitsMatched
    <3>1. wait_phase'[z] = ws /\ accesses'[z] = accesses[z] + 1
      BY <2>1, <2>2, <2>3 DEF TypeOK
    <3>2. PICK u \in wait_phase[z] : ws = wait_phase[z] \ {u}
      BY <2>2, <2>3, <3>1, SignalWakes
    <3>3. u \in Threads \ AwakeDowners(z) /\ u \in Downers(z) /\ u # t
      BY <2>1, <3>2 DEF AwakeDowners, Downers, MutexInv
    <3>4. AwakeDowners(z)' = AwakeDowners(z) \cup {u}
      BY <2>1, <3>1, <3>2, <3>3 DEF AwakeDowners, Downers, TypeOK
    <3>5. Cardinality(AwakeDowners(z)') = Cardinality(AwakeDowners(z)) + 1
      BY <3>3, <3>4, AwakeCount
    <3> QED BY <3>1, <3>2, <3>5, <1>a, AwakeCount DEF PermitsMatched
  <2>4. CASE z # arg[t]
    <3>1. /\ AwakeDowners(z) \subseteq AwakeDowners(z)'
          /\ accesses'[z] = accesses[z] /\ wait_phase'[z] = wait_phase[z]
      BY <2>1, <2>2, <2>4 DEF AwakeDowners, Downers, TypeOK
    <3> QED BY <3>1, <1>a, <1>b, PermitsKept
  <2> QED BY <2>3, <2>4
<1> QED BY <1>1, <1>2, <1>3, <1>4, <1>5, <1>6, StepCases

-----------------------------------------------------------------------------
(* The initial state satisfies the invariant, which every step keeps. *)
LEMMA InitIInv == Init => IInv
<1> SUFFICES ASSUME Init PROVE IInv
  OBVIOUS
<1>1. (CHOOSE z \in Zems : TRUE) \in Zems
  BY ZemAssumption
<1> QED BY <1>1, ZemAssumption
        DEF Init, zem_init, IInv, TypeOK, MutexInv, NoLostPermit, MutexStates, Free

LEMMA Inductive == Spec => []IInv
<1>1. IInv /\ [Next]_vars => IInv'
  BY TypeStep, MutexStep, PermitStep DEF IInv
<1> QED BY <1>1, InitIInv, PTL DEF Spec

(* Every variable keeps its type; above all the value of a semaphore never *)
(* becomes negative (the loop of zem_down).                                *)
THEOREM TypeCorrect == Spec => []TypeOK
<1>1. IInv => TypeOK
  BY DEF IInv
<1> QED BY <1>1, Inductive, PTL

(* No permit is stranded while a thread sleeps (the signal of zem_up and   *)
(* the loop of zem_down).                                                  *)
THEOREM PermitsCorrect == Spec => []NoLostPermit
<1>1. IInv => NoLostPermit
  BY DEF IInv
<1> QED BY <1>1, Inductive, PTL

-----------------------------------------------------------------------------
(* The refinement: who waits in the abstract semaphore. *)
Waiting == UNION {Downers(z) \X {z} : z \in Zems}

LEMMA WaitingPairs ==
  ASSUME TypeOK
  PROVE  Waiting = {p \in Threads \X Zems : p[1] \in Downers(p[2])}
<1>1. \A p : p \in Waiting <=> \E z \in Zems : p \in Downers(z) \X {z}
  BY DEF Waiting
<1> QED BY <1>1 DEF Downers

(* Every step of the code is a step of the semaphore or a stutter. *)
LEMMA RefinementStep == IInv /\ [Next]_vars => [Sem!Next]_Sem!vars
<1> SUFFICES ASSUME IInv, [Next]_vars PROVE Sem!Next \/ UNCHANGED Sem!vars
  OBVIOUS
<1> USE DEF IInv
<1>a. Waiting = {p \in Threads \X Zems : p[1] \in Downers(p[2])}
  BY WaitingPairs
<1>b. Waiting' = {p \in Threads \X Zems : p[1] \in Downers(p[2])'}
  <2>1. TypeOK'
    BY TypeStep
  <2>2. \A p : p \in Waiting' <=> \E z \in Zems : p \in Downers(z)' \X {z}
    BY DEF Waiting
  <2> QED BY <2>1, <2>2 DEF Downers
(* A step that leaves the values and the threads inside zem_down alone. *)
<1>c. ASSUME UNCHANGED accesses, \A z \in Zems : Downers(z)' = Downers(z)
      PROVE  UNCHANGED Sem!vars
  BY <1>c DEF Sem!vars
<1>1. CASE UNCHANGED vars
  BY <1>1, <1>c DEF vars, Downers
<1>2. ASSUME NEW t \in Threads, NEW z \in Zems, DownLock(t, z) PROVE Sem!Ask(t, z)
  <2>1. /\ pc[t] = "idle" /\ pc' = [pc EXCEPT ![t] = "test"]
        /\ arg' = [arg EXCEPT ![t] = z] /\ UNCHANGED accesses
    BY <1>2 DEF DownLock, TakeMutex
  <2>2. \A y \in Zems : t \notin Downers(y)
    BY <2>1 DEF Downers
  <2>3. \A y \in Zems : Downers(y)' = IF y = z THEN Downers(y) \cup {t} ELSE Downers(y)
    BY <2>1 DEF Downers, TypeOK
  <2>4. \A y \in Zems : <<t, y>> \notin Waiting
    BY <2>2, <1>a
  <2>5. Waiting' = Waiting \cup {<<t, z>>}
    BY <2>3, <1>a, <1>b
  <2> QED BY <2>1, <2>4, <2>5 DEF Sem!Ask, Waiting
<1>3. ASSUME NEW t \in Threads, NEW z \in Zems, UpLock(t, z) PROVE UNCHANGED Sem!vars
  <2>1. /\ pc[t] = "idle" /\ pc' = [pc EXCEPT ![t] = "post"]
        /\ arg' = [arg EXCEPT ![t] = z] /\ UNCHANGED accesses
    BY <1>3 DEF UpLock, TakeMutex
  <2> QED BY <2>1, <1>c DEF Downers, TypeOK
<1>4. ASSUME NEW t \in Threads, DownSleep(t) \/ WaitReturns(t) \/ SpuriousWakeup(t)
      PROVE  UNCHANGED Sem!vars
  <2>1. /\ UNCHANGED <<accesses, arg>>
        /\ \A u \in Threads : pc'[u] \in {"test", "wait"} <=> pc[u] \in {"test", "wait"}
    BY <1>4 DEF DownSleep, WaitReturns, SpuriousWakeup, TakeMutex, ReleaseMutex, TypeOK
  <2> QED BY <2>1, <1>c DEF Downers
<1>5. ASSUME NEW t \in Threads, DownTake(t) PROVE Sem!Down(t, arg[t])
  <2>1. /\ pc[t] = "test" /\ pc' = [pc EXCEPT ![t] = "idle"] /\ UNCHANGED arg
        /\ accesses[arg[t]] # 0 /\ accesses' = [accesses EXCEPT ![arg[t]] = @ - 1]
    BY <1>5 DEF DownTake, DownMustWait, ReleaseMutex
  <2>2. t \in Downers(arg[t]) /\ arg[t] \in Zems
    BY <2>1 DEF Downers, TypeOK
  <2>3. \A y \in Zems :
          Downers(y)' = IF y = arg[t] THEN Downers(y) \ {t} ELSE Downers(y)
    BY <2>1 DEF Downers, TypeOK
  <2>4. <<t, arg[t]>> \in Waiting /\ Waiting' = Waiting \ {<<t, arg[t]>>}
    BY <2>2, <2>3, <1>a, <1>b
  <2>5. accesses[arg[t]] > 0
    BY <2>1, <2>2 DEF TypeOK
  <2> QED BY <2>1, <2>4, <2>5 DEF Sem!Down, Waiting
<1>6. ASSUME NEW t \in Threads, UpPost(t) PROVE Sem!Up(arg[t])
  <2>1. /\ pc[t] = "post" /\ pc' = [pc EXCEPT ![t] = "idle"] /\ UNCHANGED arg
        /\ accesses' = [accesses EXCEPT ![arg[t]] = @ + 1]
    BY <1>6 DEF UpPost, ReleaseMutex
  <2>2. \A y \in Zems : Downers(y)' = Downers(y)
    BY <2>1 DEF Downers, TypeOK
  <2>3. Waiting' = Waiting
    BY <2>2, <1>a, <1>b
  <2> QED BY <2>1, <2>3 DEF Sem!Up, Waiting
<1>7. \A t \in Threads : arg[t] \in Zems
  BY DEF TypeOK
<1>8. ASSUME NEW t \in Threads, NEW z \in Zems,
             Sem!Ask(t, z) \/ Sem!Down(t, z) \/ Sem!Up(z)
      PROVE  Sem!Next
  BY <1>8 DEF Sem!Next
<1>9. CASE \E t \in Threads : \E z \in Zems : DownLock(t, z) \/ UpLock(t, z)
  BY <1>9, <1>2, <1>3, <1>8
<1>10. CASE \E t \in Threads : DownSleep(t) \/ WaitReturns(t) \/ SpuriousWakeup(t)
  BY <1>10, <1>4
<1>11. CASE \E t \in Threads : DownTake(t) \/ UpPost(t)
  <2>1. PICK t \in Threads : DownTake(t) \/ UpPost(t)
    BY <1>11
  <2>2. PICK z \in Zems : z = arg[t]
    BY <1>7
  <2>3. CASE DownTake(t)
    BY <2>2, <2>3, <1>5, <1>8 DEF Sem!Down
  <2>4. CASE UpPost(t)
    BY <2>2, <2>4, <1>6, <1>8 DEF Sem!Up
  <2> QED BY <2>1, <2>3, <2>4
<1> QED BY <1>1, <1>9, <1>10, <1>11, StepCases

(* The code implements counting semaphores, for any threads, semaphores    *)
(* and initial values: a call of zem_down returns by taking a permit that  *)
(* is there, and nothing else takes one (zem_down, zem_up).                *)
THEOREM Refinement == Spec => ImplementsSemaphore
<1>1. Init => Sem!Init
  BY DEF Init, zem_init, Sem!Init, Downers
<1> QED BY <1>1, RefinementStep, Inductive, PTL DEF Spec, ImplementsSemaphore, Sem!Spec

-----------------------------------------------------------------------------
(* The programs of ZemPrograms: three threads, five semaphores, any number *)
(* of iterations.                                                          *)
ProgramConstants ==
  /\ Threads = {0, 1, 2}
  /\ Zems = {"zero", "first", "second", "child", "parent"}
  /\ InitialValue = InitialZems

ProgramTypeOK ==
  /\ program \in {"exercise", "test"}
  /\ ip \in [Threads -> Nat \ {0}]
  /\ output \in Seq(Threads)

(* A thread inside a call is at the instruction that made the call.        *)
Inside(t, op) == At(t, op) /\ Instructions(t)[ip[t]].zem = arg[t]
CallsMatch == \A t \in Threads :
  /\ pc[t] \in {"test", "wait"} => Inside(t, "down")
  /\ pc[t] = "post" => Inside(t, "up")

(* Where thread t of the exercise is in its iteration: before zem_down (0),*)
(* before printf (1) or before zem_up (2).                                 *)
Phase(t) == (ip[t] - 1) % 3

(* One permit goes round.  It lies in the semaphore of the thread whose    *)
(* turn it is, or that thread has taken it, or it printed and is about to  *)
(* pass it on.                                                             *)
PermitLies == \A t \in Threads :
  Phase(t) = 0 /\ accesses[Turn[t]] = IF t = Len(output) % 3 THEN 1 ELSE 0
PermitTaken == \A t \in Threads :
  accesses[Turn[t]] = 0 /\ Phase(t) = IF t = Len(output) % 3 THEN 1 ELSE 0
LinePrinted == \A t \in Threads :
  accesses[Turn[t]] = 0 /\ Phase(t) = IF t = (Len(output) + 2) % 3 THEN 2 ELSE 0

ExerciseInv == program = "exercise" =>
  RoundRobin /\ (PermitLies \/ PermitTaken \/ LinePrinted)

(* In test-zem.c each permit and each line is accounted for by the         *)
(* instructions that the threads have executed.                            *)
One(b) == IF b THEN 1 ELSE 0
Ledger(m, c, d, child, parent, lines) ==
  /\ m \in 1 .. 8 /\ c \in 1 .. 4 /\ d \in 1 .. 4
  /\ child = One(m > 2) + One(m > 5) - One(c > 1) - One(d > 1)
  /\ parent = One(c > 3) + One(d > 3) - One(m > 3) - One(m > 6)
  /\ lines = One(m > 1) + One(m > 4) + One(m > 7) + One(c > 2) + One(d > 2)

TestInv == program = "test" =>
  /\ MainPrintsInTurn
  /\ Ledger(ip[0], ip[1], ip[2], accesses["child"], accesses["parent"], Len(output))

(* The threads of the exercise are in the same round, or those before the  *)
(* thread h whose turn it is are one ahead.                                *)
RoundStart(t) == ip[t] - Phase(t)
InRound(h) == \A t \in Threads : RoundStart(t) = RoundStart(h) + IF t < h THEN 3 ELSE 0
Rounds == program = "exercise" =>
  /\ \A t \in Threads : ip[t] <= 3 * NUM_ITER + 1
  /\ PermitLies \/ PermitTaken => InRound(Len(output) % 3)
  /\ LinePrinted => InRound((Len(output) + 2) % 3)

ProgramInv == /\ IInv /\ ProgramTypeOK /\ CallsMatch /\ ExerciseInv /\ TestInv /\ Rounds

LEMMA TurnNames ==
  Turn[0] = "zero" /\ Turn[1] = "first" /\ Turn[2] = "second"
BY DEF Turn

LEMMA FunctionIsSequence ==
  ASSUME NEW n \in Nat, NEW S, NEW f \in [1 .. n -> S]
  PROVE  Len(f) = n
OBVIOUS

(* How many instructions each thread has. *)
LEMMA ExerciseLength ==
  ASSUME program = "exercise", NEW t \in {0, 1, 2}
  PROVE  Len(Instructions(t)) = 3 * NUM_ITER
<1> DEFINE I == Instructions(t)
           S == {Iteration(t)[1 + ((k - 1) % 3)] : k \in 1 .. 3 * NUM_ITER}
<1>1. I \in [1 .. 3 * NUM_ITER -> S]
  BY DEF Instructions, Exercise, ExerciseThread
<1>2. 3 * NUM_ITER \in Nat
  BY ProgramAssumption
<1> HIDE DEF I, S
<1>3. Len(I) = 3 * NUM_ITER
  BY <1>1, <1>2, FunctionIsSequence
<1> QED BY <1>3 DEF I

LEMMA TestLength ==
  ASSUME ProgramConstants, ProgramTypeOK, program = "test"
  PROVE  /\ Finished(0) <=> ip[0] > 7
         /\ Finished(1) <=> ip[1] > 3
         /\ Finished(2) <=> ip[2] > 3
<1>1. Instructions(0) = TestMain /\ Instructions(1) = TestChild /\ Instructions(2) = TestChild
  BY DEF Instructions, Test
<1>2. Len(TestMain) = 7 /\ Len(TestChild) = 3
  BY DEF TestMain, TestChild
<1>3. Len(Instructions(0)) = 7 /\ Len(Instructions(1)) = 3 /\ Len(Instructions(2)) = 3
  BY <1>1, <1>2
<1> QED BY <1>3 DEF Finished

(* The instructions of the exercise ... *)
LEMMA ExerciseInstructions ==
  ASSUME ProgramConstants, ProgramTypeOK, program = "exercise", NEW t \in Threads
  PROVE  /\ At(t, "down") => Phase(t) = 0 /\ Instructions(t)[ip[t]].zem = Turn[t]
         /\ At(t, "printf") => Phase(t) = 1
         /\ At(t, "up") => Phase(t) = 2 /\ Instructions(t)[ip[t]].zem = Turn[(t + 1) % 3]
<1> DEFINE n == ip[t]
           I == Instructions(t)
<1>1. t \in {0, 1, 2} /\ n \in Nat \ {0}
  BY DEF ProgramConstants, ProgramTypeOK
<1>2. I = [k \in 1 .. 3 * NUM_ITER |-> Iteration(t)[1 + ((k - 1) % 3)]]
  BY <1>1 DEF Instructions, Exercise, ExerciseThread
<1>3. 3 * NUM_ITER \in Nat
  BY ProgramAssumption
<1>4. Len(I) = 3 * NUM_ITER
  BY <1>1, ExerciseLength
<1> SUFFICES ASSUME ~Finished(t)
             PROVE  /\ I[n].op = "down" => Phase(t) = 0 /\ I[n].zem = Turn[t]
                    /\ I[n].op = "printf" => Phase(t) = 1
                    /\ I[n].op = "up" => Phase(t) = 2 /\ I[n].zem = Turn[(t + 1) % 3]
  BY DEF At
<1>5. n \in 1 .. 3 * NUM_ITER
  BY <1>1, <1>3, <1>4 DEF Finished
<1>6. I[n] = Iteration(t)[1 + Phase(t)]
  BY <1>2, <1>5 DEF Phase
<1>7. Phase(t) \in {0, 1, 2}
  BY <1>1 DEF Phase
<1>8. /\ Iteration(t)[1] = down(Turn[t]) /\ Iteration(t)[2] = printf
      /\ Iteration(t)[3] = up(Turn[(t + 1) % 3])
  BY DEF Iteration, NextTurn
<1> HIDE DEF I, n
<1>9. CASE Phase(t) = 0
  <2>1. I[n] = down(Turn[t])
    BY <1>6, <1>8, <1>9
  <2> QED BY <1>9, <2>1 DEF down
<1>10. CASE Phase(t) = 1
  <2>1. I[n] = printf
    BY <1>6, <1>8, <1>10
  <2> QED BY <1>10, <2>1 DEF printf
<1>11. CASE Phase(t) = 2
  <2>1. I[n] = up(Turn[(t + 1) % 3])
    BY <1>6, <1>8, <1>11
  <2> QED BY <1>11, <2>1 DEF up
<1> QED BY <1>7, <1>9, <1>10, <1>11

(* ... and of test-zem.c. *)
LEMMA TestInstructions ==
  ASSUME ProgramConstants, ProgramTypeOK, program = "test"
  PROVE  /\ At(0, "down") => ip[0] \in {3, 6} /\ Instructions(0)[ip[0]].zem = "parent"
         /\ At(0, "printf") => ip[0] \in {1, 4, 7}
         /\ At(0, "up") => ip[0] \in {2, 5} /\ Instructions(0)[ip[0]].zem = "child"
         /\ \A t \in {1, 2} :
              /\ At(t, "down") => ip[t] = 1 /\ Instructions(t)[ip[t]].zem = "child"
              /\ At(t, "printf") => ip[t] = 2
              /\ At(t, "up") => ip[t] = 3 /\ Instructions(t)[ip[t]].zem = "parent"
<1>1. ip[0] \in Nat \ {0} /\ ip[1] \in Nat \ {0} /\ ip[2] \in Nat \ {0}
  BY DEF ProgramConstants, ProgramTypeOK
<1>2. Instructions(0) = TestMain /\ Instructions(1) = TestChild /\ Instructions(2) = TestChild
  BY DEF Instructions, Test
<1>3. /\ Len(TestMain) = 7 /\ TestMain[1] = printf /\ TestMain[2] = up("child")
      /\ TestMain[3] = down("parent") /\ TestMain[4] = printf /\ TestMain[5] = up("child")
      /\ TestMain[6] = down("parent") /\ TestMain[7] = printf
  BY DEF TestMain
<1>4. /\ Len(TestChild) = 3 /\ TestChild[1] = down("child") /\ TestChild[2] = printf
      /\ TestChild[3] = up("parent")
  BY DEF TestChild
<1>5. \A z : /\ down(z).op = "down" /\ down(z).zem = z /\ up(z).op = "up" /\ up(z).zem = z
             /\ printf.op = "printf"
  BY DEF down, up, printf
<1>6. ASSUME ip[0] <= 7
      PROVE  /\ TestMain[ip[0]].op = "down" => ip[0] \in {3, 6} /\ TestMain[ip[0]].zem = "parent"
             /\ TestMain[ip[0]].op = "printf" => ip[0] \in {1, 4, 7}
             /\ TestMain[ip[0]].op = "up" => ip[0] \in {2, 5} /\ TestMain[ip[0]].zem = "child"
  <2>1. ip[0] \in {1, 2, 3, 4, 5, 6, 7}
    BY <1>1, <1>6
  <2> QED BY <1>3, <1>5, <2>1
<1>7. ASSUME NEW t \in {1, 2}, ip[t] <= 3
      PROVE  /\ TestChild[ip[t]].op = "down" => ip[t] = 1 /\ TestChild[ip[t]].zem = "child"
             /\ TestChild[ip[t]].op = "printf" => ip[t] = 2
             /\ TestChild[ip[t]].op = "up" => ip[t] = 3 /\ TestChild[ip[t]].zem = "parent"
  <2>1. ip[t] \in {1, 2, 3}
    BY <1>1, <1>7
  <2> QED BY <1>4, <1>5, <2>1
<1>8. ip[0] <= 7 \/ Finished(0)
  BY <1>1, TestLength
<1>9. \A t \in {1, 2} : ip[t] <= 3 \/ Finished(t)
  BY <1>1, TestLength
<1> QED BY <1>2, <1>6, <1>7, <1>8, <1>9 DEF At

(* Every call is about one of the five semaphores. *)
LEMMA CallZems ==
  ASSUME ProgramConstants, ProgramTypeOK, NEW t \in Threads, At(t, "down") \/ At(t, "up")
  PROVE  Instructions(t)[ip[t]].zem \in Zems
<1>1. t \in {0, 1, 2}
  BY DEF ProgramConstants
<1>2. CASE program = "exercise"
  <2>1. Turn[t] \in Zems /\ Turn[(t + 1) % 3] \in Zems
    BY <1>1, TurnNames DEF ProgramConstants
  <2> QED BY <1>2, <2>1, ExerciseInstructions
<1>3. CASE program = "test"
  BY <1>1, <1>3, TestInstructions DEF ProgramConstants
<1> QED BY <1>2, <1>3 DEF ProgramTypeOK

(* What a step of a program does to permits, lines and instructions.       *)
Quiet == UNCHANGED <<accesses, program, ip, output>>
Printed(t) ==
  /\ At(t, "printf") /\ output' = Append(output, t) /\ Advance(t)
  /\ UNCHANGED <<accesses, program>>
Took(t, z) ==
  /\ At(t, "down") /\ z = Instructions(t)[ip[t]].zem /\ z \in Zems /\ accesses[z] > 0
  /\ accesses' = [accesses EXCEPT ![z] = @ - 1] /\ Advance(t)
  /\ UNCHANGED <<program, output>>
Posted(t, z) ==
  /\ At(t, "up") /\ z = Instructions(t)[ip[t]].zem /\ z \in Zems
  /\ accesses' = [accesses EXCEPT ![z] = @ + 1] /\ Advance(t)
  /\ UNCHANGED <<program, output>>

Effect ==
  \/ Quiet
  \/ \E t \in Threads : Printed(t) \/ \E z \in Zems : Took(t, z) \/ Posted(t, z)

LEMMA StepEffect ==
  ASSUME ProgramConstants, TypeOK, ProgramTypeOK, CallsMatch, [ProgramNext]_allVars
  PROVE  [Next]_vars /\ Effect /\ CallsMatch'
<1> USE DEF Inside
<1>1. CASE UNCHANGED allVars
  BY <1>1 DEF allVars, programVars, vars, Effect, Quiet, CallsMatch, At, Finished, Instructions
<1>2. ASSUME NEW t \in Threads, PrintLine(t) PROVE [Next]_vars /\ Effect /\ CallsMatch'
  <2>1. UNCHANGED vars /\ Printed(t) /\ program' = program
    BY <1>2 DEF PrintLine, Printed, vars
  <2>2. pc[t] = "idle"
    BY <1>2 DEF PrintLine, At, CallsMatch, TypeOK
  <2>3. \A u \in Threads : u # t => ip'[u] = ip[u]
    BY <2>1 DEF Printed, Advance, ProgramTypeOK
  <2>4. CallsMatch'
    BY <2>1, <2>2, <2>3 DEF CallsMatch, At, Finished, Instructions, vars
  <2> QED BY <2>1, <2>4 DEF Effect
<1>3. ASSUME NEW t \in Threads, StartCall(t) PROVE [Next]_vars /\ Effect /\ CallsMatch'
  <2> DEFINE z == Instructions(t)[ip[t]].zem
  <2>1. /\ \/ At(t, "down") /\ DownLock(t, z)
           \/ At(t, "up") /\ UpLock(t, z)
        /\ UNCHANGED programVars
    BY <1>3 DEF StartCall
  <2>2. z \in Zems
    BY <2>1, CallZems
  <2>3. Next
    BY <2>1, <2>2 DEF Next, Call
  <2>4. /\ accesses' = accesses /\ arg' = [arg EXCEPT ![t] = z]
        /\ \/ At(t, "down") /\ pc' = [pc EXCEPT ![t] = "test"]
           \/ At(t, "up") /\ pc' = [pc EXCEPT ![t] = "post"]
    BY <2>1 DEF DownLock, UpLock, TakeMutex
  <2>5. program' = program /\ ip' = ip /\ output' = output
    BY <2>1 DEF programVars
  <2>6. z' = z /\ \A u \in Threads, op \in {"down", "up"} : At(u, op)' <=> At(u, op)
    BY <2>5 DEF At, Finished, Instructions
  <2>7. \A u \in Threads : u # t => pc'[u] = pc[u] /\ arg'[u] = arg[u]
    BY <2>4 DEF TypeOK
  <2>8. pc'[t] \in {"test", "post"} /\ arg'[t] = z
    BY <2>4 DEF TypeOK
  <2>9. /\ pc'[t] = "test" => At(t, "down")
        /\ pc'[t] = "post" => At(t, "up")
    BY <2>4 DEF TypeOK
  <2>10. \A u \in Threads : (Instructions(u)[ip[u]].zem)' = Instructions(u)[ip[u]].zem
    BY <2>5 DEF Instructions
  <2> HIDE DEF z
  <2>11. CallsMatch'
    <3> SUFFICES ASSUME NEW u \in Threads
                 PROVE  /\ pc'[u] \in {"test", "wait"} =>
                             At(u, "down")' /\ (Instructions(u)[ip[u]].zem)' = arg'[u]
                        /\ pc'[u] = "post" =>
                             At(u, "up")' /\ (Instructions(u)[ip[u]].zem)' = arg'[u]
      BY DEF CallsMatch
    <3>1. CASE u = t
      BY <2>6, <2>8, <2>9, <2>10, <3>1 DEF z
    <3>2. CASE u # t
      BY <2>6, <2>7, <2>10, <3>2 DEF CallsMatch
    <3> QED BY <3>1, <3>2
  <2> QED BY <2>3, <2>4, <2>5, <2>11 DEF Effect, Quiet
<1>4. ASSUME NEW t \in Threads, Wakeup(t) PROVE [Next]_vars /\ Effect /\ CallsMatch'
  <2>1. SpuriousWakeup(t) /\ program' = program /\ ip' = ip /\ output' = output
    BY <1>4 DEF Wakeup, programVars
  <2>2. accesses' = accesses /\ pc' = pc /\ arg' = arg
    BY <2>1 DEF SpuriousWakeup
  <2>3. CallsMatch'
    BY <2>1, <2>2 DEF CallsMatch, At, Finished, Instructions
  <2> QED BY <2>1, <2>2, <2>3 DEF Next, Effect, Quiet
<1>5. ASSUME NEW t \in Threads, ContinueCall(t) PROVE [Next]_vars /\ Effect /\ CallsMatch'
  <2>1. /\ InCall(t) /\ program' = program /\ output' = output /\ Next
        /\ IF pc'[t] = "idle" THEN Advance(t) ELSE ip' = ip
    BY <1>5 DEF ContinueCall, Next
  <2>2. arg' = arg /\ arg[t] \in Zems /\ \A u \in Threads : u # t => pc'[u] = pc[u]
    BY <2>1 DEF InCall, DownSleep, DownTake, WaitReturns, UpPost, ReleaseMutex, TakeMutex, TypeOK
  <2>3. /\ pc'[t] = "idle" \/ (pc[t] \in {"test", "wait"} /\ pc'[t] \in {"test", "wait"})
        /\ pc'[t] # "idle" => accesses' = accesses
    BY <2>1 DEF InCall, DownSleep, DownTake, WaitReturns, UpPost, ReleaseMutex, TakeMutex, TypeOK
  <2>4. \A u \in Threads : u # t \/ pc'[t] # "idle" => ip'[u] = ip[u]
    BY <2>1 DEF Advance, ProgramTypeOK
  <2>5. CallsMatch'
    <3> SUFFICES ASSUME NEW u \in Threads
                 PROVE  /\ pc'[u] \in {"test", "wait"} => Inside(u, "down")'
                        /\ pc'[u] = "post" => Inside(u, "up")'
      BY DEF CallsMatch
    <3>1. CASE u = t /\ pc'[t] = "idle"
      BY <3>1
    <3>2. CASE u # t \/ pc'[t] # "idle"
      <4>1. /\ pc'[u] \in {"test", "wait"} => pc[u] \in {"test", "wait"}
            /\ pc'[u] = "post" => pc[u] = "post"
        BY <2>2, <2>3, <3>2
      <4>2. ip'[u] = ip[u] /\ arg'[u] = arg[u]
        BY <2>2, <2>4, <3>2
      <4> QED BY <2>1, <4>1, <4>2 DEF CallsMatch, At, Finished, Instructions
    <3> QED BY <3>1, <3>2
  <2>6. CASE pc'[t] # "idle"
    BY <2>1, <2>3, <2>5, <2>6 DEF Effect, Quiet
  <2>7. CASE pc'[t] = "idle"
    <3>1. DownTake(t) \/ UpPost(t)
      BY <2>1, <2>7 DEF InCall, DownSleep, WaitReturns, ReleaseMutex, TakeMutex, TypeOK
    <3>2. CASE DownTake(t)
      <4>1. /\ pc[t] = "test" /\ accesses[arg[t]] # 0
            /\ accesses' = [accesses EXCEPT ![arg[t]] = @ - 1]
        BY <3>2 DEF DownTake, DownMustWait
      <4>2. accesses[arg[t]] > 0
        BY <2>2, <4>1 DEF TypeOK
      <4>3. At(t, "down") /\ arg[t] = Instructions(t)[ip[t]].zem
        BY <4>1 DEF CallsMatch
      <4>4. Took(t, arg[t])
        BY <2>1, <2>2, <2>7, <4>1, <4>2, <4>3 DEF Took
      <4> QED BY <2>1, <2>2, <2>5, <4>4 DEF Effect
    <3>3. CASE UpPost(t)
      <4>1. /\ pc[t] = "post" /\ accesses' = [accesses EXCEPT ![arg[t]] = @ + 1]
        BY <3>3 DEF UpPost
      <4>2. At(t, "up") /\ arg[t] = Instructions(t)[ip[t]].zem
        BY <4>1 DEF CallsMatch
      <4>3. Posted(t, arg[t])
        BY <2>1, <2>2, <2>7, <4>1, <4>2 DEF Posted
      <4> QED BY <2>1, <2>2, <2>5, <4>3 DEF Effect
    <3> QED BY <3>1, <3>2, <3>3
  <2> QED BY <2>6, <2>7
<1>6. CASE ProgramNext
  BY <1>2, <1>3, <1>4, <1>5, <1>6 DEF ProgramNext, Step
<1> QED BY <1>1, <1>6

(* The thread that executed an instruction is at the next one. *)
LEMMA Advances ==
  ASSUME ProgramTypeOK, NEW t \in Threads, Advance(t)
  PROVE  /\ ip' \in [Threads -> Nat \ {0}]
         /\ ip'[t] = ip[t] + 1 /\ \A u \in Threads : u # t => ip'[u] = ip[u]
<1>1. ip[t] + 1 \in Nat \ {0}
  BY DEF ProgramTypeOK
<1> QED BY <1>1 DEF Advance, ProgramTypeOK

LEMMA EffectTypes ==
  ASSUME ProgramTypeOK, Effect
  PROVE  ProgramTypeOK'
<1>1. CASE Quiet
  BY <1>1 DEF Quiet, ProgramTypeOK
<1>2. ASSUME NEW t \in Threads, Printed(t) PROVE ProgramTypeOK'
  <2>1. output' \in Seq(Threads) /\ program' = program
    BY <1>2 DEF Printed, ProgramTypeOK
  <2>2. ip' \in [Threads -> Nat \ {0}]
    BY <1>2, Advances DEF Printed
  <2> QED BY <2>1, <2>2 DEF ProgramTypeOK
<1>3. ASSUME NEW t \in Threads, NEW z \in Zems, Took(t, z) \/ Posted(t, z) PROVE ProgramTypeOK'
  <2>1. output' = output /\ program' = program /\ Advance(t)
    BY <1>3 DEF Took, Posted
  <2>2. ip' \in [Threads -> Nat \ {0}]
    BY <2>1, Advances
  <2> QED BY <2>1, <2>2 DEF ProgramTypeOK
<1> QED BY <1>1, <1>2, <1>3 DEF Effect

(* A line that is printed comes last. *)
LEMMA LineAppended ==
  ASSUME NEW S, NEW s \in Seq(S), NEW x \in S
  PROVE  /\ Len(s) \in Nat /\ Len(Append(s, x)) = Len(s) + 1
         /\ \A k \in 1 .. Len(s) : Append(s, x)[k] = s[k]
         /\ Append(s, x)[Len(s) + 1] = x
OBVIOUS

(* The exercise: the permit goes round. *)
LEMMA ExerciseStep ==
  ASSUME ProgramConstants, TypeOK, ProgramTypeOK, ExerciseInv, Effect, program' = program
  PROVE  ExerciseInv'
<1> SUFFICES ASSUME program = "exercise"
             PROVE  RoundRobin' /\ (PermitLies \/ PermitTaken \/ LinePrinted)'
  BY DEF ExerciseInv
<1> DEFINE L == Len(output)
<1>1. RoundRobin /\ (PermitLies \/ PermitTaken \/ LinePrinted)
  BY DEF ExerciseInv
<1>2. Threads = {0, 1, 2} /\ L \in Nat
  BY DEF ProgramConstants, ProgramTypeOK
<1>3. /\ \A t \in Threads : Turn[t] \in Zems
      /\ \A t, u \in Threads : Turn[t] = Turn[u] => t = u
  BY <1>2, TurnNames DEF ProgramConstants
<1>4. L % 3 \in Threads /\ (L + 2) % 3 \in Threads /\ L % 3 # (L + 2) % 3
  BY <1>2
<1>5. ASSUME NEW t \in Threads, Advance(t)
      PROVE  /\ Phase(t)' = (IF Phase(t) = 2 THEN 0 ELSE Phase(t) + 1)
             /\ \A u \in Threads : u # t => Phase(u)' = Phase(u)
  <2>1. ip[t] \in Nat \ {0} /\ ip'[t] = ip[t] + 1 /\ \A u \in Threads : u # t => ip'[u] = ip[u]
    BY <1>5, Advances DEF ProgramTypeOK
  <2> QED BY <2>1 DEF Phase
<1>6. CASE Quiet
  <2>1. program' = program /\ output' = output /\ accesses' = accesses /\ ip' = ip
    BY <1>6 DEF Quiet
  <2> QED BY <1>1, <2>1 DEF RoundRobin, PermitLies, PermitTaken, LinePrinted, Phase
<1>7. ASSUME NEW t \in Threads, Printed(t)
      PROVE  RoundRobin' /\ LinePrinted'
  <2>1. /\ Phase(t) = 1 /\ output' = Append(output, t) /\ accesses' = accesses /\ Advance(t)
    BY <1>7, ExerciseInstructions DEF Printed
  <2>2. PermitTaken /\ t = L % 3
    BY <1>1, <2>1 DEF PermitLies, PermitTaken, LinePrinted
  <2>3. /\ Len(output)' = L + 1 /\ output'[L + 1] = t
        /\ \A k \in 1 .. L : output'[k] = output[k]
    BY <2>1, LineAppended DEF ProgramTypeOK
  <2>4. (L + 1 + 2) % 3 = L % 3 /\ (L + 1) - 1 = L
    BY <1>2
  <2>5. RoundRobin'
    <3>1. \A k \in 1 .. L + 1 : k \in 1 .. L \/ k = L + 1
      BY <1>2
    <3>2. \A k \in 1 .. L : output[k] = (k - 1) % 3
      BY <1>1 DEF RoundRobin
    <3>3. \A k \in 1 .. L + 1 : output'[k] = (k - 1) % 3
      BY <2>2, <2>3, <2>4, <3>1, <3>2
    <3> QED BY <2>3, <3>3 DEF RoundRobin
  <2>6. LinePrinted'
    <3>1. \A u \in Threads : Phase(u)' = IF u = L % 3 THEN 2 ELSE 0
      BY <1>5, <2>1, <2>2 DEF PermitTaken
    <3> QED BY <2>1, <2>2, <2>3, <2>4, <3>1 DEF LinePrinted, PermitTaken
  <2> QED BY <2>5, <2>6
<1>8. ASSUME NEW t \in Threads, NEW z \in Zems, Took(t, z)
      PROVE  RoundRobin' /\ PermitTaken'
  <2>1. /\ Phase(t) = 0 /\ z = Turn[t] /\ output' = output /\ Advance(t)
        /\ accesses[z] > 0 /\ accesses' = [accesses EXCEPT ![z] = @ - 1]
    BY <1>8, ExerciseInstructions DEF Took
  <2>2. PermitLies /\ t = L % 3
    BY <1>1, <2>1 DEF PermitLies, PermitTaken, LinePrinted
  <2>3. \A u \in Threads : accesses'[Turn[u]] = 0
    BY <1>3, <2>1, <2>2 DEF PermitLies, TypeOK
  <2>4. \A u \in Threads : Phase(u)' = IF u = L % 3 THEN 1 ELSE 0
    BY <1>5, <2>1, <2>2 DEF PermitLies
  <2> QED BY <1>1, <2>1, <2>3, <2>4 DEF RoundRobin, PermitTaken
<1>9. ASSUME NEW t \in Threads, NEW z \in Zems, Posted(t, z)
      PROVE  RoundRobin' /\ PermitLies'
  <2>1. /\ Phase(t) = 2 /\ z = Turn[(t + 1) % 3] /\ output' = output /\ Advance(t)
        /\ accesses' = [accesses EXCEPT ![z] = @ + 1]
    BY <1>9, ExerciseInstructions DEF Posted
  <2>2. LinePrinted /\ t = (L + 2) % 3
    BY <1>1, <2>1 DEF PermitLies, PermitTaken, LinePrinted
  <2>3. (t + 1) % 3 = L % 3
    BY <1>2, <2>2
  <2>4. \A u \in Threads : accesses'[Turn[u]] = IF u = L % 3 THEN 1 ELSE 0
    BY <1>3, <1>4, <2>1, <2>2, <2>3 DEF LinePrinted, TypeOK
  <2>5. \A u \in Threads : Phase(u)' = 0
    BY <1>5, <2>1, <2>2 DEF LinePrinted
  <2> QED BY <1>1, <2>1, <2>4, <2>5 DEF RoundRobin, PermitLies
<1> QED BY <1>1, <1>6, <1>7, <1>8, <1>9 DEF Effect

(* The rounds: a thread ends its own by posting, when the turn passes on.  *)
LEMMA RoundsStep ==
  ASSUME ProgramConstants, TypeOK, ProgramTypeOK, ExerciseInv, Rounds, Effect, program' = program
  PROVE  Rounds'
<1> SUFFICES ASSUME program = "exercise"
             PROVE  /\ \A t \in Threads : ip'[t] <= 3 * NUM_ITER + 1
                    /\ PermitLies' \/ PermitTaken' => InRound(Len(output) % 3)'
                    /\ LinePrinted' => InRound((Len(output) + 2) % 3)'
  BY DEF Rounds
<1> DEFINE L == Len(output)
<1>1. PermitLies \/ PermitTaken \/ LinePrinted
  BY DEF ExerciseInv
<1>2. /\ Threads = {0, 1, 2} /\ L \in Nat /\ NUM_ITER \in Nat
      /\ L % 3 \in Threads /\ (L + 2) % 3 \in Threads
      /\ \A t \in Threads : ip[t] \in Nat \ {0} /\ Phase(t) \in Int
  BY ProgramAssumption DEF ProgramConstants, ProgramTypeOK, Phase
<1>3. /\ \A t \in Threads : ip[t] <= 3 * NUM_ITER + 1
      /\ PermitLies \/ PermitTaken => InRound(L % 3)
      /\ LinePrinted => InRound((L + 2) % 3)
  BY DEF Rounds
<1>4. ASSUME NEW t \in Threads, NEW op, At(t, op), Advance(t)
      PROVE  /\ \A u \in Threads : ip'[u] <= 3 * NUM_ITER + 1
             /\ Phase(t)' = (IF Phase(t) = 2 THEN 0 ELSE Phase(t) + 1)
             /\ RoundStart(t)' = (IF Phase(t) = 2 THEN RoundStart(t) + 3 ELSE RoundStart(t))
             /\ \A u \in Threads : u # t => /\ Phase(u)' = Phase(u)
                                            /\ RoundStart(u)' = RoundStart(u)
  <2>1. ip'[t] = ip[t] + 1 /\ \A u \in Threads : u # t => ip'[u] = ip[u]
    BY <1>4, Advances
  <2>2. ip[t] <= 3 * NUM_ITER
    BY <1>2, <1>4, ExerciseLength DEF At, Finished
  <2>3. \A u \in Threads : ip'[u] <= 3 * NUM_ITER + 1
    BY <1>2, <1>3, <2>1, <2>2
  <2>4. Phase(t)' = (IF Phase(t) = 2 THEN 0 ELSE Phase(t) + 1)
    <3>1. ip[t] \in Nat \ {0}
      BY <1>2
    <3> QED BY <2>1, <3>1 DEF Phase
  <2>5. RoundStart(t)' = (IF Phase(t) = 2 THEN RoundStart(t) + 3 ELSE RoundStart(t))
    BY <1>2, <2>1, <2>4 DEF RoundStart
  <2>6. \A u \in Threads : u # t => Phase(u)' = Phase(u) /\ RoundStart(u)' = RoundStart(u)
    BY <2>1 DEF RoundStart, Phase
  <2> QED BY <2>3, <2>4, <2>5, <2>6
<1>5. CASE Quiet
  BY <1>3, <1>5 DEF Quiet, PermitLies, PermitTaken, LinePrinted, InRound, RoundStart, Phase
<1>6. ASSUME NEW t \in Threads, Printed(t)
      PROVE  /\ \A u \in Threads : ip'[u] <= 3 * NUM_ITER + 1
             /\ ~PermitLies' /\ ~PermitTaken' /\ InRound((Len(output) + 2) % 3)'
  <2>1. At(t, "printf") /\ Phase(t) = 1 /\ output' = Append(output, t) /\ Advance(t)
    BY <1>6, ExerciseInstructions DEF Printed
  <2>2. PermitTaken /\ t = L % 3
    BY <1>1, <2>1 DEF PermitLies, PermitTaken, LinePrinted
  <2>3. Len(output)' = L + 1 /\ (L + 1 + 2) % 3 = L % 3
    BY <1>2, <2>1, LineAppended DEF ProgramTypeOK
  <2>4. Phase(t)' = 2 /\ \A u \in Threads : RoundStart(u)' = RoundStart(u)
    BY <1>4, <2>1
  <2>5. InRound((Len(output) + 2) % 3)'
    BY <1>2, <1>3, <2>2, <2>3, <2>4 DEF InRound
  <2> QED BY <1>4, <2>1, <2>4, <2>5 DEF PermitLies, PermitTaken
<1>7. ASSUME NEW t \in Threads, NEW z \in Zems, Took(t, z)
      PROVE  /\ \A u \in Threads : ip'[u] <= 3 * NUM_ITER + 1
             /\ ~LinePrinted' /\ InRound(Len(output) % 3)'
  <2>1. At(t, "down") /\ Phase(t) = 0 /\ z = Turn[t] /\ output' = output /\ Advance(t)
    BY <1>7, ExerciseInstructions DEF Took
  <2>2. PermitLies /\ t = L % 3
    BY <1>1, <1>7, <2>1 DEF PermitLies, PermitTaken, LinePrinted, Took
  <2>3. Phase(t)' = 1 /\ \A u \in Threads : RoundStart(u)' = RoundStart(u)
    BY <1>4, <2>1
  <2>4. InRound(Len(output) % 3)'
    BY <1>2, <1>3, <2>1, <2>2, <2>3 DEF InRound
  <2> QED BY <1>4, <2>1, <2>3, <2>4 DEF LinePrinted
<1>8. ASSUME NEW t \in Threads, NEW z \in Zems, Posted(t, z)
      PROVE  /\ \A u \in Threads : ip'[u] <= 3 * NUM_ITER + 1
             /\ ~LinePrinted' /\ InRound(Len(output) % 3)'
  <2>1. At(t, "up") /\ Phase(t) = 2 /\ output' = output /\ Advance(t)
    BY <1>8, ExerciseInstructions DEF Posted
  <2>2. LinePrinted /\ t = (L + 2) % 3
    BY <1>1, <2>1 DEF PermitLies, PermitTaken, LinePrinted
  <2>3. \A u \in Threads : Phase(u)' = 0
    BY <1>4, <2>1, <2>2 DEF LinePrinted
  <2>4. RoundStart(t)' = RoundStart(t) + 3 /\ \A u \in Threads : u # t => RoundStart(u)' = RoundStart(u)
    BY <1>4, <2>1
  <2>5. \A u \in Threads : RoundStart(u) = RoundStart(t) + IF u < t THEN 3 ELSE 0
    BY <1>3, <2>2 DEF InRound
  <2>6. L % 3 = IF t = 2 THEN 0 ELSE t + 1
    BY <1>2, <2>2
  <2>7. \A u \in Threads : RoundStart(u) \in Int
    BY <1>2 DEF RoundStart
  <2>8. InRound(Len(output) % 3)'
    BY <1>2, <2>1, <2>4, <2>5, <2>6, <2>7 DEF InRound
  <2>9. 0 \in Threads
    BY <1>2
  <2>10. ~LinePrinted'
    <3>1. (Len(output)' + 2) % 3 \in Threads
      BY <1>2, <2>1
    <3> QED BY <2>3, <3>1 DEF LinePrinted
  <2> QED BY <1>4, <2>1, <2>8, <2>10
<1> QED BY <1>5, <1>6, <1>7, <1>8 DEF Effect

(* test-zem.c: each instruction keeps the accounts, and the accounts say   *)
(* whose turn it is to print.                                              *)
LEMMA LedgerSteps ==
  ASSUME NEW m \in Nat, NEW c \in Nat, NEW d \in Nat,
         NEW child \in Nat, NEW parent \in Nat, NEW lines \in Nat,
         Ledger(m, c, d, child, parent, lines)
  PROVE  /\ m \in {1, 4, 7} =>
              lines + 1 \in {1, 3, 5} /\ Ledger(m + 1, c, d, child, parent, lines + 1)
         /\ c = 2 => lines + 1 \notin {1, 3, 5} /\ Ledger(m, c + 1, d, child, parent, lines + 1)
         /\ d = 2 => lines + 1 \notin {1, 3, 5} /\ Ledger(m, c, d + 1, child, parent, lines + 1)
         /\ m \in {3, 6} => Ledger(m + 1, c, d, child, parent - 1, lines)
         /\ c = 1 => Ledger(m, c + 1, d, child - 1, parent, lines)
         /\ d = 1 => Ledger(m, c, d + 1, child - 1, parent, lines)
         /\ m \in {2, 5} => Ledger(m + 1, c, d, child + 1, parent, lines)
         /\ c = 3 => Ledger(m, c + 1, d, child, parent + 1, lines)
         /\ d = 3 => Ledger(m, c, d + 1, child, parent + 1, lines)
<1> USE DEF Ledger, One
<1>1. m \in {1, 4, 7} =>
        lines + 1 \in {1, 3, 5} /\ Ledger(m + 1, c, d, child, parent, lines + 1)
  OBVIOUS
<1>2. c = 2 => lines + 1 \notin {1, 3, 5} /\ Ledger(m, c + 1, d, child, parent, lines + 1)
  OBVIOUS
<1>3. d = 2 => lines + 1 \notin {1, 3, 5} /\ Ledger(m, c, d + 1, child, parent, lines + 1)
  OBVIOUS
<1>4. m \in {3, 6} => Ledger(m + 1, c, d, child, parent - 1, lines)
  OBVIOUS
<1>5. c = 1 => Ledger(m, c + 1, d, child - 1, parent, lines)
  OBVIOUS
<1>6. d = 1 => Ledger(m, c, d + 1, child - 1, parent, lines)
  OBVIOUS
<1>7. m \in {2, 5} => Ledger(m + 1, c, d, child + 1, parent, lines)
  OBVIOUS
<1>8. c = 3 => Ledger(m, c + 1, d, child, parent + 1, lines)
  OBVIOUS
<1>9. d = 3 => Ledger(m, c, d + 1, child, parent + 1, lines)
  OBVIOUS
<1> HIDE DEF Ledger, One
<1> QED BY <1>1, <1>2, <1>3, <1>4, <1>5, <1>6, <1>7, <1>8, <1>9

LEMMA TestStep ==
  ASSUME ProgramConstants, TypeOK, ProgramTypeOK, TestInv, Effect, program = "test"
  PROVE  TestInv'
<1> DEFINE L == Len(output)
           m == ip[0]
           c == ip[1]
           d == ip[2]
           child == accesses["child"]
           parent == accesses["parent"]
<1>1. MainPrintsInTurn /\ Ledger(m, c, d, child, parent, L)
  BY DEF TestInv
<1>2. /\ Threads = {0, 1, 2} /\ "child" \in Zems /\ "parent" \in Zems
      /\ L \in Nat /\ m \in Nat /\ c \in Nat /\ d \in Nat /\ child \in Nat /\ parent \in Nat
  BY DEF ProgramConstants, ProgramTypeOK, TypeOK
<1>3. CASE Quiet
  <2>1. output' = output /\ accesses' = accesses /\ ip' = ip
    BY <1>3 DEF Quiet
  <2> QED BY <1>1, <2>1 DEF TestInv, MainPrintsInTurn
<1>4. ASSUME NEW t \in Threads, Printed(t) PROVE TestInv'
  <2>1. /\ output' = Append(output, t) /\ accesses' = accesses
        /\ ip'[t] = ip[t] + 1 /\ \A u \in Threads : u # t => ip'[u] = ip[u]
    BY <1>4, Advances DEF Printed
  <2>2. \/ t = 0 /\ m \in {1, 4, 7}
        \/ t = 1 /\ c = 2
        \/ t = 2 /\ d = 2
    BY <1>2, <1>4, TestInstructions DEF Printed
  <2>3. /\ Len(output') = L + 1 /\ output'[L + 1] = t
        /\ \A k \in 1 .. L : output'[k] = output[k]
    BY <2>1, LineAppended DEF ProgramTypeOK
  <2>4. /\ t = 0 <=> L + 1 \in {1, 3, 5}
        /\ Ledger(ip'[0], ip'[1], ip'[2], child, parent, L + 1)
    <3>1. CASE t = 0
      <4>1. ip'[0] = m + 1 /\ ip'[1] = c /\ ip'[2] = d
        BY <1>2, <2>1, <3>1
      <4> HIDE DEF L, m, c, d, child, parent
      <4>2. m \in {1, 4, 7} => L + 1 \in {1, 3, 5} /\ Ledger(m + 1, c, d, child, parent, L + 1)
        BY <1>1, <1>2, LedgerSteps, Zenon
      <4> QED BY <1>1, <1>2, <2>2, <3>1, <4>1, <4>2
    <3>2. CASE t = 1
      <4>1. ip'[0] = m /\ ip'[1] = c + 1 /\ ip'[2] = d
        BY <1>2, <2>1, <3>2
      <4> HIDE DEF L, m, c, d, child, parent
      <4>2. c = 2 => L + 1 \notin {1, 3, 5} /\ Ledger(m, c + 1, d, child, parent, L + 1)
        BY <1>1, <1>2, LedgerSteps, Zenon
      <4> QED BY <1>1, <1>2, <2>2, <3>2, <4>1, <4>2
    <3>3. CASE t = 2
      <4>1. ip'[0] = m /\ ip'[1] = c /\ ip'[2] = d + 1
        BY <1>2, <2>1, <3>3
      <4> HIDE DEF L, m, c, d, child, parent
      <4>2. d = 2 => L + 1 \notin {1, 3, 5} /\ Ledger(m, c, d + 1, child, parent, L + 1)
        BY <1>1, <1>2, LedgerSteps, Zenon
      <4> QED BY <1>1, <1>2, <2>2, <3>3, <4>1, <4>2
    <3> QED BY <1>2, <3>1, <3>2, <3>3
  <2>5. MainPrintsInTurn'
    <3>1. \A k \in 1 .. L + 1 : k \in 1 .. L \/ k = L + 1
      BY <1>2
    <3>2. \A k \in 1 .. L : output[k] = 0 <=> k \in {1, 3, 5}
      BY <1>1 DEF MainPrintsInTurn
    <3>3. \A k \in 1 .. L + 1 : output'[k] = 0 <=> k \in {1, 3, 5}
      BY <2>3, <2>4, <3>1, <3>2
    <3> QED BY <2>3, <3>3 DEF MainPrintsInTurn
  <2> QED BY <2>1, <2>3, <2>4, <2>5 DEF TestInv
<1>5. ASSUME NEW t \in Threads, NEW z \in Zems, Took(t, z) PROVE TestInv'
  <2>1. /\ output' = output /\ accesses' = [accesses EXCEPT ![z] = @ - 1]
        /\ ip'[t] = ip[t] + 1 /\ \A u \in Threads : u # t => ip'[u] = ip[u]
    BY <1>5, Advances DEF Took
  <2>2. \/ t = 0 /\ m \in {3, 6} /\ z = "parent"
        \/ t = 1 /\ c = 1 /\ z = "child"
        \/ t = 2 /\ d = 1 /\ z = "child"
    BY <1>2, <1>5, TestInstructions DEF Took
  <2>3. /\ accesses'["child"] = IF z = "child" THEN child - 1 ELSE child
        /\ accesses'["parent"] = IF z = "parent" THEN parent - 1 ELSE parent
    BY <1>2, <2>1 DEF TypeOK
  <2>4. Ledger(ip'[0], ip'[1], ip'[2], accesses'["child"], accesses'["parent"], L)
    <3>1. CASE t = 0
      <4>1. ip'[0] = m + 1 /\ ip'[1] = c /\ ip'[2] = d
        BY <1>2, <2>1, <3>1
      <4> HIDE DEF L, m, c, d, child, parent
      <4>2. m \in {3, 6} => Ledger(m + 1, c, d, child, parent - 1, L)
        BY <1>1, <1>2, LedgerSteps, Zenon
      <4> QED BY <1>1, <1>2, <2>2, <2>3, <3>1, <4>1, <4>2
    <3>2. CASE t = 1
      <4>1. ip'[0] = m /\ ip'[1] = c + 1 /\ ip'[2] = d
        BY <1>2, <2>1, <3>2
      <4> HIDE DEF L, m, c, d, child, parent
      <4>2. c = 1 => Ledger(m, c + 1, d, child - 1, parent, L)
        BY <1>1, <1>2, LedgerSteps, Zenon
      <4> QED BY <1>1, <1>2, <2>2, <2>3, <3>2, <4>1, <4>2
    <3>3. CASE t = 2
      <4>1. ip'[0] = m /\ ip'[1] = c /\ ip'[2] = d + 1
        BY <1>2, <2>1, <3>3
      <4> HIDE DEF L, m, c, d, child, parent
      <4>2. d = 1 => Ledger(m, c, d + 1, child - 1, parent, L)
        BY <1>1, <1>2, LedgerSteps, Zenon
      <4> QED BY <1>1, <1>2, <2>2, <2>3, <3>3, <4>1, <4>2
    <3> QED BY <1>2, <3>1, <3>2, <3>3
  <2> QED BY <1>1, <2>1, <2>4 DEF TestInv, MainPrintsInTurn
<1>6. ASSUME NEW t \in Threads, NEW z \in Zems, Posted(t, z) PROVE TestInv'
  <2>1. /\ output' = output /\ accesses' = [accesses EXCEPT ![z] = @ + 1]
        /\ ip'[t] = ip[t] + 1 /\ \A u \in Threads : u # t => ip'[u] = ip[u]
    BY <1>6, Advances DEF Posted
  <2>2. \/ t = 0 /\ m \in {2, 5} /\ z = "child"
        \/ t = 1 /\ c = 3 /\ z = "parent"
        \/ t = 2 /\ d = 3 /\ z = "parent"
    BY <1>2, <1>6, TestInstructions DEF Posted
  <2>3. /\ accesses'["child"] = IF z = "child" THEN child + 1 ELSE child
        /\ accesses'["parent"] = IF z = "parent" THEN parent + 1 ELSE parent
    BY <1>2, <2>1 DEF TypeOK
  <2>4. Ledger(ip'[0], ip'[1], ip'[2], accesses'["child"], accesses'["parent"], L)
    <3>1. CASE t = 0
      <4>1. ip'[0] = m + 1 /\ ip'[1] = c /\ ip'[2] = d
        BY <1>2, <2>1, <3>1
      <4> HIDE DEF L, m, c, d, child, parent
      <4>2. m \in {2, 5} => Ledger(m + 1, c, d, child + 1, parent, L)
        BY <1>1, <1>2, LedgerSteps, Zenon
      <4> QED BY <1>1, <1>2, <2>2, <2>3, <3>1, <4>1, <4>2
    <3>2. CASE t = 1
      <4>1. ip'[0] = m /\ ip'[1] = c + 1 /\ ip'[2] = d
        BY <1>2, <2>1, <3>2
      <4> HIDE DEF L, m, c, d, child, parent
      <4>2. c = 3 => Ledger(m, c + 1, d, child, parent + 1, L)
        BY <1>1, <1>2, LedgerSteps, Zenon
      <4> QED BY <1>1, <1>2, <2>2, <2>3, <3>2, <4>1, <4>2
    <3>3. CASE t = 2
      <4>1. ip'[0] = m /\ ip'[1] = c /\ ip'[2] = d + 1
        BY <1>2, <2>1, <3>3
      <4> HIDE DEF L, m, c, d, child, parent
      <4>2. d = 3 => Ledger(m, c, d + 1, child, parent + 1, L)
        BY <1>1, <1>2, LedgerSteps, Zenon
      <4> QED BY <1>1, <1>2, <2>2, <2>3, <3>3, <4>1, <4>2
    <3> QED BY <1>2, <3>1, <3>2, <3>3
  <2> QED BY <1>1, <2>1, <2>4 DEF TestInv, MainPrintsInTurn
<1> QED BY <1>3, <1>4, <1>5, <1>6 DEF Effect

LEMMA ProgramStarts == ProgramConstants /\ ProgramInit => ProgramInv
<1> SUFFICES ASSUME ProgramConstants, ProgramInit PROVE ProgramInv
  OBVIOUS
<1>1. /\ Init /\ program \in {"exercise", "test"} /\ ip = [t \in Threads |-> 1] /\ output = <<>>
  BY DEF ProgramInit
<1>2. IInv /\ accesses = InitialZems /\ \A t \in Threads : pc[t] = "idle"
  BY <1>1, InitIInv DEF Init, zem_init, ProgramConstants
<1>3. ProgramTypeOK /\ Len(output) = 0
  BY <1>1 DEF ProgramTypeOK
<1>4. ip[0] = 1 /\ ip[1] = 1 /\ ip[2] = 1
  BY <1>1 DEF ProgramConstants
<1>5. ExerciseInv
  <2>1. RoundRobin
    BY <1>3 DEF RoundRobin
  <2>2. PermitLies
    BY <1>1, <1>2, <1>3, TurnNames DEF PermitLies, Phase, ProgramConstants, InitialZems
  <2> QED BY <2>1, <2>2 DEF ExerciseInv
<1>6. TestInv
  BY <1>2, <1>3, <1>4
     DEF TestInv, MainPrintsInTurn, Ledger, One, InitialZems
<1>7. Rounds
  <2>1. Threads = {0, 1, 2} /\ \A t \in Threads : Phase(t) = 0 /\ ip[t] = 1
    BY <1>1 DEF Phase, ProgramConstants
  <2>2. Len(output) % 3 = 0 /\ ~LinePrinted
    BY <1>3, <2>1 DEF LinePrinted, ProgramConstants
  <2>3. InRound(0)
    BY <2>1 DEF InRound, RoundStart
  <2> QED BY <2>1, <2>2, <2>3, ProgramAssumption DEF Rounds
<1> QED BY <1>2, <1>3, <1>5, <1>6, <1>7 DEF ProgramInv, CallsMatch

LEMMA ProgramSteps ==
  ProgramConstants /\ ProgramInv /\ [ProgramNext]_allVars => ProgramInv'
<1> SUFFICES ASSUME ProgramConstants, ProgramInv, [ProgramNext]_allVars PROVE ProgramInv'
  OBVIOUS
<1>1. /\ IInv /\ TypeOK /\ MutexInv /\ ProgramTypeOK /\ CallsMatch /\ ExerciseInv
      /\ TestInv /\ Rounds
  BY DEF ProgramInv, IInv
<1>2. [Next]_vars /\ Effect /\ CallsMatch'
  BY <1>1, StepEffect
<1>3. IInv' /\ TypeOK'
  BY <1>1, <1>2, TypeStep, MutexStep, PermitStep DEF IInv
<1>4. program' = program
  BY <1>2 DEF Effect, Quiet, Printed, Took, Posted
<1>5. TestInv'
  <2>1. CASE program = "test"
    BY <1>1, <1>2, <2>1, TestStep
  <2>2. CASE program # "test"
    BY <1>4, <2>2 DEF TestInv
  <2> QED BY <2>1, <2>2
<1> QED BY <1>1, <1>2, <1>3, <1>4, <1>5, EffectTypes, ExerciseStep, RoundsStep DEF ProgramInv

(* Both programs print in the order of their turns, for any number of      *)
(* iterations and whatever the scheduler does (justprint and main of       *)
(* zemaphore_exercise.c and test-zem.c).                                   *)
THEOREM PrintsCorrect ==
  ASSUME ProgramConstants
  PROVE  FairProgram => []PrintsInTurn
<1>1. ProgramInit => ProgramInv
  BY ProgramStarts
<1>2. ProgramInv /\ [ProgramNext]_allVars => ProgramInv'
  BY ProgramSteps
<1>3. ProgramInv => PrintsInTurn
  BY DEF ProgramInv, ExerciseInv, TestInv, PrintsInTurn, RoundRobin, MainPrintsInTurn
<1> QED BY <1>1, <1>2, <1>3, PTL DEF FairProgram

-----------------------------------------------------------------------------
(* What Step(t) needs: the mutex of the semaphore it calls, or the end of  *)
(* its sleep; a line and the code under a mutex need nothing.              *)
Zem(t) == Instructions(t)[ip[t]].zem
CanStep(t) ==
  \/ At(t, "printf")
  \/ pc[t] = "idle" /\ At(t, "down") /\ lock[Zem(t)] = Free
  \/ pc[t] = "idle" /\ At(t, "up") /\ lock[Zem(t)] = Free /\ accesses[Zem(t)] < MaxAccesses
  \/ pc[t] \in {"test", "post"}
  \/ pc[t] = "wait" /\ t \notin wait_phase[arg[t]] /\ lock[arg[t]] = Free

ProgramNeverStuck ==
  (\E t \in Threads : ~Finished(t)) => \E t \in Threads : CanStep(t)

(* A thread that is not at its end is at a call or at a line. *)
LEMMA AtSomething ==
  ASSUME ProgramConstants, ProgramTypeOK, NEW t \in Threads, ~Finished(t)
  PROVE  At(t, "down") \/ At(t, "printf") \/ At(t, "up")
<1>1. t \in {0, 1, 2} /\ ip[t] \in Nat \ {0}
  BY DEF ProgramConstants, ProgramTypeOK
<1>2. \A z : down(z).op = "down" /\ up(z).op = "up" /\ printf.op = "printf"
  BY DEF down, up, printf
<1>3. CASE program = "exercise"
  <2>1. ip[t] \in 1 .. 3 * NUM_ITER
    BY <1>1, <1>3, ExerciseLength, ProgramAssumption DEF Finished
  <2>2. Instructions(t)[ip[t]] = Iteration(t)[1 + ((ip[t] - 1) % 3)]
    BY <1>1, <1>3, <2>1 DEF Instructions, Exercise, ExerciseThread
  <2>3. 1 + ((ip[t] - 1) % 3) \in {1, 2, 3}
    BY <1>1
  <2>4. /\ Iteration(t)[1] = down(Turn[t]) /\ Iteration(t)[2] = printf
        /\ Iteration(t)[3] = up(Turn[(t + 1) % 3])
    BY DEF Iteration, NextTurn
  <2> QED BY <1>2, <2>2, <2>3, <2>4 DEF At
<1>4. CASE program = "test"
  <2>1. Instructions(0) = TestMain /\ Instructions(1) = TestChild /\ Instructions(2) = TestChild
    BY <1>4 DEF Instructions, Test
  <2>2. CASE t = 0
    <3>1. ip[t] \in {1, 2, 3, 4, 5, 6, 7}
      BY <1>1, <1>4, <2>2, TestLength
    <3>2. /\ TestMain[1] = printf /\ TestMain[2] = up("child")
          /\ TestMain[3] = down("parent") /\ TestMain[4] = printf /\ TestMain[5] = up("child")
          /\ TestMain[6] = down("parent") /\ TestMain[7] = printf
      BY DEF TestMain
    <3> QED BY <1>2, <2>1, <2>2, <3>1, <3>2 DEF At
  <2>3. CASE t \in {1, 2}
    <3>1. ip[t] \in {1, 2, 3}
      BY <1>1, <1>4, <2>3, TestLength
    <3>2. TestChild[1] = down("child") /\ TestChild[2] = printf /\ TestChild[3] = up("parent")
      BY DEF TestChild
    <3> QED BY <1>2, <2>1, <2>3, <3>1, <3>2 DEF At
  <2> QED BY <1>1, <2>2, <2>3
<1> QED BY <1>3, <1>4 DEF ProgramTypeOK

(* Nobody posts a semaphore that still has a permit. *)
LEMMA PostsAtZero ==
  ASSUME ProgramConstants, ProgramInv, NEW t \in Threads, At(t, "up")
  PROVE  accesses[Zem(t)] = 0
<1>1. Threads = {0, 1, 2} /\ ProgramTypeOK /\ ExerciseInv /\ TestInv
  BY DEF ProgramInv, ProgramConstants
<1>2. CASE program = "exercise"
  <2>1. Phase(t) = 2 /\ Zem(t) = Turn[(t + 1) % 3] /\ (t + 1) % 3 \in Threads
    BY <1>1, <1>2, ExerciseInstructions DEF Zem
  <2>2. LinePrinted
    BY <1>1, <1>2, <2>1 DEF ExerciseInv, PermitLies, PermitTaken
  <2> QED BY <2>1, <2>2 DEF LinePrinted
<1>3. CASE program = "test"
  <2>1. Ledger(ip[0], ip[1], ip[2], accesses["child"], accesses["parent"], Len(output))
    BY <1>1, <1>3 DEF TestInv
  <2>2. accesses["child"] \in Nat /\ accesses["parent"] \in Nat
    BY DEF ProgramInv, IInv, TypeOK, ProgramConstants
  <2>3. \/ t = 0 /\ ip[0] \in {2, 5} /\ Zem(t) = "child"
        \/ t = 1 /\ ip[1] = 3 /\ Zem(t) = "parent"
        \/ t = 2 /\ ip[2] = 3 /\ Zem(t) = "parent"
    BY <1>1, <1>3, TestInstructions DEF Zem
  <2> QED BY <2>1, <2>2, <2>3 DEF Ledger, One
<1> QED BY <1>1, <1>2, <1>3 DEF ProgramTypeOK

(* When nobody can go on, whoever is not at its end waits for a permit that*)
(* is not there: no mutex is held, and a thread that sleeps beside a permit*)
(* would have an awake one on its way to it (NoLostPermit).                *)
LEMMA StuckAsleep ==
  ASSUME ProgramConstants, ProgramInv, MaxAccesses >= 1, \A t \in Threads : ~CanStep(t)
  PROVE  \A t \in Threads : ~Finished(t) => At(t, "down") /\ accesses[Zem(t)] = 0
<1>1. TypeOK /\ MutexInv /\ NoLostPermit /\ ProgramTypeOK /\ CallsMatch
  BY DEF ProgramInv, IInv
<1>2. \A t \in Threads : pc[t] \in {"idle", "wait"}
  BY <1>1 DEF CanStep, TypeOK
<1>3. \A z \in Zems : lock[z] = Free
  <2> SUFFICES ASSUME NEW z \in Zems, lock[z] # Free PROVE FALSE
    OBVIOUS
  <2>1. PICK t \in Threads : lock[z] = {t}
    BY <1>1 DEF TypeOK, MutexStates
  <2> QED BY <1>1, <1>2, <2>1 DEF MutexInv
<1> SUFFICES ASSUME NEW t \in Threads, ~Finished(t)
             PROVE  At(t, "down") /\ accesses[Zem(t)] = 0
  OBVIOUS
<1>4. CASE pc[t] = "idle"
  <2>1. At(t, "down") \/ At(t, "up")
    BY <1>1, AtSomething DEF CanStep
  <2>2. Zem(t) \in Zems
    BY <1>1, <2>1, CallZems DEF Zem
  <2>3. At(t, "up")
    BY <1>3, <1>4, <2>1, <2>2 DEF CanStep
  <2>4. accesses[Zem(t)] < MaxAccesses
    BY <2>3, PostsAtZero, ZemAssumption
  <2> QED BY <1>3, <1>4, <2>2, <2>3, <2>4 DEF CanStep
<1>5. CASE pc[t] = "wait"
  <2> DEFINE z == arg[t]
  <2>1. At(t, "down") /\ Zem(t) = z /\ z \in Zems
    BY <1>1, <1>5 DEF CallsMatch, Inside, Zem, TypeOK
  <2>2. t \in wait_phase[z]
    BY <1>3, <1>5, <2>1 DEF CanStep
  <2>3. AwakeDowners(z) = {}
    <3> SUFFICES ASSUME NEW u \in Threads, pc[u] \in {"test", "wait"}, arg[u] = z,
                        u \notin wait_phase[z]
                 PROVE  FALSE
      BY DEF AwakeDowners, Downers
    <3> QED BY <1>2, <1>3, <2>1 DEF CanStep
  <2>4. Cardinality(AwakeDowners(z)) = 0
    BY <2>3, FS_EmptySet
  <2>5. accesses[z] <= 0 /\ accesses[z] \in Nat
    BY <1>1, <2>1, <2>2, <2>4 DEF NoLostPermit, TypeOK
  <2> QED BY <2>1, <2>5
<1> QED BY <1>2, <1>4, <1>5

(* That happens only at the end of the exercise: the permit lies in the    *)
(* semaphore of a thread that does not wait for it, which is at its end,   *)
(* and no thread is in an earlier round.                                   *)
LEMMA ExerciseGoesOn ==
  ASSUME ProgramConstants, ProgramInv, program = "exercise",
         \A t \in Threads : ~Finished(t) => At(t, "down") /\ accesses[Zem(t)] = 0
  PROVE  \A t \in Threads : Finished(t)
<1> DEFINE h == Len(output) % 3
<1>1. /\ Threads = {0, 1, 2} /\ ProgramTypeOK /\ ExerciseInv /\ Rounds
      /\ Len(output) \in Nat /\ NUM_ITER \in Nat /\ \A t \in Threads : ip[t] \in Nat \ {0}
  BY ProgramAssumption DEF ProgramInv, ProgramConstants, ProgramTypeOK
<1>2. \A t \in Threads : Finished(t) <=> ip[t] > 3 * NUM_ITER
  BY <1>1, ExerciseLength DEF Finished
<1>3. \A t \in Threads : Phase(t) = 0
  <2>1. \A t \in Threads : Finished(t) => ip[t] = 3 * NUM_ITER + 1
    BY <1>1, <1>2 DEF Rounds
  <2>2. \A t \in Threads : Finished(t) => Phase(t) = 0
    BY <1>1, <2>1 DEF Phase
  <2>3. \A t \in Threads : ~Finished(t) => Phase(t) = 0
    BY <1>1, ExerciseInstructions
  <2> QED BY <2>2, <2>3
<1>4. h \in Threads /\ (Len(output) + 2) % 3 \in Threads
  BY <1>1
<1>5. PermitLies
  BY <1>1, <1>3, <1>4 DEF ExerciseInv, PermitTaken, LinePrinted
<1>6. Finished(h)
  <2>1. accesses[Turn[h]] = 1
    BY <1>4, <1>5 DEF PermitLies
  <2>2. At(h, "down") => Zem(h) = Turn[h]
    BY <1>1, <1>4, ExerciseInstructions DEF Zem
  <2> QED BY <1>4, <2>1, <2>2
<1>7. \A t \in Threads : ip[t] >= ip[h]
  <2>1. \A t \in Threads : RoundStart(t) = RoundStart(h) + IF t < h THEN 3 ELSE 0
    BY <1>1, <1>5 DEF Rounds, InRound
  <2>2. \A t \in Threads : RoundStart(t) = ip[t]
    BY <1>1, <1>3 DEF RoundStart
  <2> HIDE DEF h
  <2> QED BY <1>1, <1>4, <2>1, <2>2
<1> HIDE DEF h
<1> QED BY <1>1, <1>2, <1>4, <1>6, <1>7

(* And of test-zem.c, whose permits the ledger accounts for. *)
LEMMA TestGoesOn ==
  ASSUME ProgramConstants, ProgramInv, program = "test",
         \A t \in Threads : ~Finished(t) => At(t, "down") /\ accesses[Zem(t)] = 0
  PROVE  \A t \in Threads : Finished(t)
<1>1. /\ Threads = {0, 1, 2} /\ ProgramTypeOK
      /\ ip[0] \in Nat \ {0} /\ ip[1] \in Nat \ {0} /\ ip[2] \in Nat \ {0}
  BY DEF ProgramInv, ProgramConstants, ProgramTypeOK
<1>2. accesses["child"] \in Nat /\ accesses["parent"] \in Nat
  BY DEF ProgramInv, IInv, TypeOK, ProgramConstants
<1>3. /\ Finished(0) <=> ip[0] > 7
      /\ Finished(1) <=> ip[1] > 3
      /\ Finished(2) <=> ip[2] > 3
  BY <1>1, TestLength
<1>4. Ledger(ip[0], ip[1], ip[2], accesses["child"], accesses["parent"], Len(output))
  BY DEF ProgramInv, TestInv
<1>5. /\ ip[0] = 8 \/ (ip[0] \in {3, 6} /\ accesses["parent"] = 0)
      /\ ip[1] = 4 \/ (ip[1] = 1 /\ accesses["child"] = 0)
      /\ ip[2] = 4 \/ (ip[2] = 1 /\ accesses["child"] = 0)
  <2>1. ip[0] \in 1 .. 8 /\ ip[1] \in 1 .. 4 /\ ip[2] \in 1 .. 4
    BY <1>4 DEF Ledger
  <2>2. /\ At(0, "down") => ip[0] \in {3, 6} /\ Zem(0) = "parent"
        /\ At(1, "down") => ip[1] = 1 /\ Zem(1) = "child"
        /\ At(2, "down") => ip[2] = 1 /\ Zem(2) = "child"
    <3>1. At(0, "down") => ip[0] \in {3, 6} /\ Instructions(0)[ip[0]].zem = "parent"
      BY <1>1, TestInstructions
    <3>2. \A t \in {1, 2} :
            At(t, "down") => ip[t] = 1 /\ Instructions(t)[ip[t]].zem = "child"
      BY <1>1, TestInstructions
    <3> QED BY <3>1, <3>2 DEF Zem
  <2>3. /\ ip[0] = 8 \/ ~Finished(0)
        /\ ip[1] = 4 \/ ~Finished(1)
        /\ ip[2] = 4 \/ ~Finished(2)
    BY <1>3, <2>1
  <2> QED BY <1>1, <2>2, <2>3
<1>6. ip[0] = 8 /\ ip[1] = 4 /\ ip[2] = 4
  <2> DEFINE child == accesses["child"]
             parent == accesses["parent"]
  <2>1. /\ child = One(ip[0] > 2) + One(ip[0] > 5) - One(ip[1] > 1) - One(ip[2] > 1)
        /\ parent = One(ip[1] > 3) + One(ip[2] > 3) - One(ip[0] > 3) - One(ip[0] > 6)
    BY <1>4 DEF Ledger
  <2>2. ip[0] \in {3, 6, 8} /\ ip[1] \in {1, 4} /\ ip[2] \in {1, 4}
    BY <1>5
  <2> HIDE DEF child, parent
  <2>3. CASE ip[0] = 8
    BY <1>2, <2>1, <2>2, <2>3 DEF One, parent
  <2>4. CASE ip[0] = 6
    BY <1>2, <1>5, <2>1, <2>2, <2>4 DEF One, parent, child
  <2>5. CASE ip[0] = 3
    BY <1>2, <1>5, <2>1, <2>2, <2>5 DEF One, parent, child
  <2> QED BY <2>2, <2>3, <2>4, <2>5
<1> QED BY <1>1, <1>3, <1>6

(* While main joins the threads (zemaphore_exercise.c:66, test-zem.c:50)   *)
(* and one is not at its end, some thread can go on, for any number of     *)
(* iterations: the safety half of AllThreadsFinish.                        *)
THEOREM ProgramsNeverStuck ==
  ASSUME ProgramConstants, MaxAccesses >= 1
  PROVE  FairProgram => []ProgramNeverStuck
<1>1. ProgramInit => ProgramInv
  BY ProgramStarts
<1>2. ProgramInv /\ [ProgramNext]_allVars => ProgramInv'
  BY ProgramSteps
<1>3. ProgramInv => ProgramNeverStuck
  <2> SUFFICES ASSUME ProgramInv, \A t \in Threads : ~CanStep(t)
               PROVE  \A t \in Threads : Finished(t)
    BY DEF ProgramNeverStuck
  <2>1. \A t \in Threads : ~Finished(t) => At(t, "down") /\ accesses[Zem(t)] = 0
    BY StuckAsleep
  <2> QED BY <2>1, ExerciseGoesOn, TestGoesOn DEF ProgramInv, ProgramTypeOK
<1> QED BY <1>1, <1>2, <1>3, PTL DEF FairProgram
=============================================================================
