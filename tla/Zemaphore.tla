----------------------------- MODULE Zemaphore -----------------------------
(***************************************************************************)
(* zemaphore.c: semaphores made of a counter, a mutex and a condition      *)
(* variable.  Each thread calls zem_down and zem_up in any order.  A call  *)
(* is split where another thread can run: taking the mutex, and the code   *)
(* under the mutex up to its release.                                      *)
(***************************************************************************)
EXTENDS Pthread

CONSTANTS
  Threads,
  Zems,           \* the semaphores
  InitialValue,   \* the value zem_init gives each of them
  MaxAccesses     \* bound: no zem_up starts at this value

ASSUME ZemAssumption ==
  /\ IsFiniteSet(Threads)
  /\ Zems # {}
  /\ InitialValue \in [Zems -> Nat]
  /\ MaxAccesses \in Nat

VARIABLES
  accesses,     \* per semaphore: its value
  lock,         \* per semaphore: its mutex
  wait_phase,   \* per semaphore: the threads asleep
  pc,           \* where each thread is
  arg           \* the semaphore of each thread's current or last call

vars == <<accesses, lock, wait_phase, pc, arg>>

-----------------------------------------------------------------------------
zem_init ==
  /\ accesses = InitialValue
  /\ wait_phase = [z \in Zems |-> {}]
  /\ lock = [z \in Zems |-> Free]

Init ==
  /\ zem_init
  /\ pc = [t \in Threads |-> "idle"]
  /\ arg = [t \in Threads |-> CHOOSE z \in Zems : TRUE]

TakeMutex(t, z, from, to) ==
  /\ pc[t] = from
  /\ lock[z] = Free
  /\ lock' = [lock EXCEPT ![z] = {t}]
  /\ pc' = [pc EXCEPT ![t] = to]
  /\ UNCHANGED <<accesses, wait_phase>>

ReleaseMutex(t, to) ==
  /\ lock' = [lock EXCEPT ![arg[t]] = Free]
  /\ pc' = [pc EXCEPT ![t] = to]
  /\ UNCHANGED arg

(* zem_down: lock; while accesses is 0, wait; take one; unlock. *)
DownLock(t, z) ==
  /\ TakeMutex(t, z, "idle", "test")
  /\ arg' = [arg EXCEPT ![t] = z]

DownMustWaitNever(t) == FALSE
DownMustWait(t) == accesses[arg[t]] = 0

DownSleep(t) ==
  /\ pc[t] = "test"
  /\ DownMustWait(t)
  /\ wait_phase' = [wait_phase EXCEPT ![arg[t]] = @ \cup {t}]
  /\ ReleaseMutex(t, "wait")
  /\ UNCHANGED accesses

DownTake(t) ==
  /\ pc[t] = "test"
  /\ ~DownMustWait(t)
  /\ accesses' = [accesses EXCEPT ![arg[t]] = @ - 1]
  /\ ReleaseMutex(t, "idle")
  /\ UNCHANGED wait_phase

WaitReturns(t) ==
  /\ t \notin wait_phase[arg[t]]
  /\ TakeMutex(t, arg[t], "wait", "test")
  /\ UNCHANGED arg

(* pthread_cond_wait may wake without a signal. *)
SpuriousWakeup(t) ==
  /\ t \in wait_phase[arg[t]]
  /\ wait_phase' = [wait_phase EXCEPT ![arg[t]] = @ \ {t}]
  /\ UNCHANGED <<accesses, lock, pc, arg>>

(* zem_up: lock; add one; signal; unlock. *)
UpLock(t, z) ==
  /\ accesses[z] < MaxAccesses
  /\ TakeMutex(t, z, "idle", "post")
  /\ arg' = [arg EXCEPT ![t] = z]

UpWakesFirstOnly(z) == IF accesses[z] = 0 THEN CondSignal(wait_phase[z]) ELSE {wait_phase[z]}
UpWakes(z) == CondSignal(wait_phase[z])

UpPost(t) ==
  /\ pc[t] = "post"
  /\ accesses' = [accesses EXCEPT ![arg[t]] = @ + 1]
  /\ \E ws \in UpWakes(arg[t]) :
       wait_phase' = [wait_phase EXCEPT ![arg[t]] = ws]
  /\ ReleaseMutex(t, "idle")

-----------------------------------------------------------------------------
(* The steps of a call after its first one. *)
InCall(t) == DownSleep(t) \/ DownTake(t) \/ WaitReturns(t) \/ UpPost(t)

Call(t) == \E z \in Zems : DownLock(t, z) \/ UpLock(t, z)

Next == \E t \in Threads : Call(t) \/ InCall(t) \/ SpuriousWakeup(t)
Spec == Init /\ [][Next]_vars

-----------------------------------------------------------------------------
(* The threads inside zem_down(z), and those of them that are awake. *)
Downers(z) == {t \in Threads : pc[t] \in {"test", "wait"} /\ arg[t] = z}
AwakeDowners(z) == Downers(z) \ wait_phase[z]

TypeOK ==
  /\ accesses \in [Zems -> Nat]
  /\ lock \in [Zems -> MutexStates(Threads)]
  /\ wait_phase \in [Zems -> SUBSET Threads]
  /\ pc \in [Threads -> {"idle", "test", "wait", "post"}]
  /\ arg \in [Threads -> Zems]

(* The owner of a mutex is the one thread in the code it protects, and     *)
(* only threads inside zem_down sleep.                                     *)
MutexInv ==
  /\ \A z \in Zems : \A t \in Threads :
       lock[z] = {t} <=> pc[t] \in {"test", "post"} /\ arg[t] = z
  /\ \A z \in Zems : wait_phase[z] \subseteq {t \in Downers(z) : pc[t] = "wait"}

(* No permit is stranded: while a thread sleeps in zem_down(z), every      *)
(* permit of z is matched by a thread that is awake and on its way to take *)
(* it, though each zem_up wakes one thread and a thread that never slept   *)
(* may take the permit the wake-up was for (the while loop of zem_down).   *)
NoLostPermit == \A z \in Zems :
  wait_phase[z] # {} => accesses[z] <= Cardinality(AwakeDowners(z))

(* The code implements counting semaphores: zem_down takes a permit that   *)
(* is there, and nothing else changes the value.                           *)
Sem == INSTANCE Semaphore
  WITH value <- accesses,
       waiting <- UNION {Downers(z) \X {z} : z \in Zems}
ImplementsSemaphore == Sem!Spec
=============================================================================
