---------------------------- MODULE MasterWorker ----------------------------
(***************************************************************************)
(* master-worker.c: masters put numbered items into a ring buffer, workers *)
(* take them out, under one mutex and two condition variables.  Each loop  *)
(* reads its counter before it takes the mutex (lines 40 and 61) and       *)
(* signals after it gave the mutex back (lines 52 and 72), so these are    *)
(* steps of their own.                                                     *)
(***************************************************************************)
EXTENDS Pthread, Sequences

CONSTANTS
  Masters, Workers,            \* the threads main may create
  total_items, max_buf_size,
  Junk                         \* what malloc left in the buffer

ASSUME MWAssumption ==
  /\ IsFiniteSet(Masters) /\ Masters # {}
  /\ IsFiniteSet(Workers) /\ Workers # {}
  /\ Masters \cap Workers = {}
  /\ total_items \in Nat
  /\ max_buf_size \in Nat \ {0}
  /\ Junk \notin Nat

Threads == Masters \cup Workers
Slots == 0 .. max_buf_size - 1

VARIABLES
  created,            \* the threads the arguments of the program ask for
  item_to_produce,    \* the next item, which is also how many were produced
  item_to_consume,    \* how many items were consumed
  curr_buf_size,      \* how many items the buffer holds
  add, rem,           \* the slots of the next put and of the next take
  buffer,
  lock,               \* the mutex
  is_full, is_empty,  \* the masters and the workers asleep
  pc,                 \* where each thread is
  consumed,           \* the items print_consumed printed, in order
  freed               \* main has joined all threads and freed the buffer

counters == <<item_to_produce, item_to_consume, curr_buf_size, add, rem, buffer>>
vars == <<created, counters, lock, is_full, is_empty, pc, consumed, freed>>

-----------------------------------------------------------------------------
Init ==
  /\ created \in SUBSET Threads
  /\ created \cap Masters # {} /\ created \cap Workers # {}
  /\ item_to_produce = 0 /\ item_to_consume = 0 /\ curr_buf_size = 0
  /\ add = 0 /\ rem = 0
  /\ buffer = [i \in Slots |-> Junk]
  /\ lock = Free
  /\ is_full = {} /\ is_empty = {}
  /\ pc = [t \in Threads |-> IF t \in created THEN "check" ELSE "none"]
  /\ consumed = <<>>
  /\ freed = FALSE

Goto(t, to) == pc' = [pc EXCEPT ![t] = to]
Asleep(t) == t \in is_full \cup is_empty

(* The outer while conditions, read without the mutex. *)
MoreToProduceOneTooMany == item_to_produce <= total_items
MoreToProduce == item_to_produce < total_items
MoreToConsume == item_to_consume < total_items

GoesOn(t) == IF t \in Masters THEN MoreToProduce ELSE MoreToConsume

Check(t) ==
  /\ pc[t] = "check"
  /\ Goto(t, IF GoesOn(t) THEN "lock" ELSE "done")
  /\ UNCHANGED <<counters, lock, is_full, is_empty, consumed, freed>>

(* pthread_mutex_lock, or the return of pthread_cond_wait. *)
TakeMutex(t) ==
  /\ \/ pc[t] = "lock"
     \/ pc[t] = "wait" /\ ~Asleep(t)
  /\ lock = Free
  /\ lock' = {t}
  /\ Goto(t, "test")
  /\ UNCHANGED <<counters, is_full, is_empty, consumed, freed>>

(* pthread_cond_wait may wake without a signal. *)
SpuriousWakeup(t) ==
  /\ Asleep(t)
  /\ is_full' = is_full \ {t}
  /\ is_empty' = is_empty \ {t}
  /\ UNCHANGED <<created, counters, lock, pc, consumed, freed>>

NextSlotNoWrap(i) == i + 1
NextSlot(i) == (i + 1) % max_buf_size

(* The inner loops: a thread waits only while its counter is short. *)
MasterMustWaitAboveMax == curr_buf_size > max_buf_size /\ MoreToProduce
MasterMustWait == curr_buf_size = max_buf_size /\ MoreToProduce
WorkerMustWait == curr_buf_size = 0 /\ MoreToConsume

MasterSleep(m) ==
  /\ pc[m] = "test"
  /\ MasterMustWait
  /\ is_full' = is_full \cup {m}
  /\ lock' = Free
  /\ Goto(m, "wait")
  /\ UNCHANGED <<counters, is_empty, consumed, freed>>

WorkerSleep(w) ==
  /\ pc[w] = "test"
  /\ WorkerMustWait
  /\ is_empty' = is_empty \cup {w}
  /\ lock' = Free
  /\ Goto(w, "wait")
  /\ UNCHANGED <<counters, is_full, consumed, freed>>

(* A master stores the item even when the others produced the last one     *)
(* while it waited for the mutex or slept.                                 *)
Produce(m) ==
  /\ pc[m] = "test"
  /\ ~MasterMustWait
  /\ buffer' = [buffer EXCEPT ![add] = item_to_produce]
  /\ add' = NextSlot(add)
  /\ item_to_produce' = item_to_produce + 1
  /\ curr_buf_size' = curr_buf_size + 1
  /\ lock' = Free
  /\ Goto(m, "signal")
  /\ UNCHANGED <<item_to_consume, rem, is_full, is_empty, consumed, freed>>

(* A worker takes from the buffer even when the others took the last item  *)
(* while it waited for the mutex or slept.                                 *)
TakenItem == buffer[rem]

Consume(w) ==
  /\ pc[w] = "test"
  /\ ~WorkerMustWait
  /\ consumed' = Append(consumed, TakenItem)
  /\ rem' = NextSlot(rem)
  /\ curr_buf_size' = curr_buf_size - 1
  /\ item_to_consume' = item_to_consume + 1
  /\ lock' = Free
  /\ Goto(w, "signal")
  /\ UNCHANGED <<item_to_produce, add, buffer, is_full, is_empty, freed>>

(* The signals, sent without the mutex. *)
WokenByMasterLost == {is_empty}
WokenByMaster == CondSignal(is_empty)
WokenByWorkerLost == {is_full}
WokenByWorker == CondSignal(is_full)

MasterSignal(m) ==
  /\ pc[m] = "signal"
  /\ is_empty' \in WokenByMaster
  /\ Goto(m, "check")
  /\ UNCHANGED <<counters, lock, is_full, consumed, freed>>

WorkerSignal(w) ==
  /\ pc[w] = "signal"
  /\ is_full' \in WokenByWorker
  /\ Goto(w, "check")
  /\ UNCHANGED <<counters, lock, is_empty, consumed, freed>>

(* main joins every thread and frees what it allocated. *)
JoinAndFree ==
  /\ ~freed
  /\ \A t \in created : pc[t] = "done"
  /\ freed' = TRUE
  /\ UNCHANGED <<created, counters, lock, is_full, is_empty, pc, consumed>>

-----------------------------------------------------------------------------
MasterStep(m) == MasterSleep(m) \/ Produce(m) \/ MasterSignal(m)
WorkerStep(w) == WorkerSleep(w) \/ Consume(w) \/ WorkerSignal(w)

Step(t) ==
  /\ UNCHANGED created
  /\ \/ Check(t) \/ TakeMutex(t)
     \/ t \in Masters /\ MasterStep(t)
     \/ t \in Workers /\ WorkerStep(t)

Next == JoinAndFree \/ \E t \in Threads : Step(t) \/ SpuriousWakeup(t)
Spec == Init /\ [][Next]_vars

(* Every runnable thread is scheduled eventually and spurious wake-ups are *)
(* not endless.                                                            *)
Fair ==
  /\ WF_vars(JoinAndFree) /\ \A t \in Threads : WF_vars(Step(t))
  /\ <>[][\A t \in Threads : ~SpuriousWakeup(t)]_vars
FairSpec == Spec /\ Fair

-----------------------------------------------------------------------------
Past(S) == {t \in S : pc[t] \in {"lock", "test", "wait"}}
Awake(S) == {t \in S : ~Asleep(t) /\ pc[t] \notin {"none", "done"}}
Signalling(S) == {t \in S : pc[t] = "signal"}

TypeOK ==
  /\ created \subseteq Threads
  /\ item_to_produce \in Nat /\ item_to_consume \in Nat
  /\ curr_buf_size \in Int
  /\ add \in Slots /\ rem \in Slots
  /\ buffer \in [Slots -> Nat \cup {Junk}]
  /\ lock \in MutexStates(Threads)
  /\ is_full \in SUBSET Masters /\ is_empty \in SUBSET Workers
  /\ pc \in [Threads -> {"none", "check", "lock", "test", "wait", "signal", "done"}]
  /\ consumed \in Seq(Nat \cup {Junk})
  /\ freed \in BOOLEAN

(* The owner of the mutex is the one thread between lock and unlock, only  *)
(* threads inside pthread_cond_wait sleep, and the loops end only when     *)
(* their counter has reached total_items.                                  *)
ControlInv ==
  /\ \A t \in Threads : lock = {t} <=> pc[t] = "test"
  /\ \A t \in is_full \cup is_empty : pc[t] = "wait"
  /\ \A m \in Masters : pc[m] = "done" => ~MoreToProduce
  /\ \A w \in Workers : pc[w] = "done" => ~MoreToConsume

(* The three counters and the two positions always agree, whatever the     *)
(* number of threads.                                                      *)
CountersAgree ==
  /\ curr_buf_size = item_to_produce - item_to_consume
  /\ add = item_to_produce % max_buf_size
  /\ rem = item_to_consume % max_buf_size
  /\ Len(consumed) = item_to_consume

(* How far the unlocked checks let the loops run too far: every master but *)
(* the one that makes the last item may make one more, every worker but    *)
(* one may take one more, and the buffer holds at most that many items too *)
(* many or too few; the counters agree even then.                          *)
OverrunBounded ==
  /\ CountersAgree
  /\ item_to_produce <= total_items + Cardinality(created \cap Masters) - 1
  /\ item_to_consume <= total_items + Cardinality(created \cap Workers) - 1
  /\ curr_buf_size <= max_buf_size + Cardinality(created \cap Masters) - 1
  /\ curr_buf_size >= 1 - Cardinality(created \cap Workers)

(* Until a master overruns, the buffer holds the items not yet consumed,   *)
(* in order, and those consumed were printed in order, each once.          *)
ItemsInOrder ==
  item_to_produce <= total_items =>
    /\ \A k \in 0 .. curr_buf_size - 1 :
         buffer[(rem + k) % max_buf_size] = item_to_consume + k
    /\ \A k \in 1 .. Len(consumed) : k <= total_items => consumed[k] = k - 1

(* No wake-up is lost although the signals are sent after the unlock: when *)
(* there is an item to take some worker is awake or will be signalled, and *)
(* when there is room for one some master is awake or will be signalled.   *)
NoStall ==
  /\ MoreToConsume /\ curr_buf_size > 0
       => Awake(Workers) # {} \/ Signalling(Masters) # {}
  /\ MoreToProduce /\ curr_buf_size < max_buf_size
       => Awake(Masters) # {} \/ Signalling(Workers) # {}

(* Every item is printed by some worker in the end, unless a master put    *)
(* one more into a full buffer, over an item that nobody had taken.  (The  *)
(* hang of this program comes after that.)                                 *)
ItemsPrinted == \A item \in 0 .. total_items - 1 :
  \E k \in 1 .. Len(consumed) : consumed[k] = item
AllItemsConsumed == <>(ItemsPrinted \/ curr_buf_size > max_buf_size)

(* "wait for all threads to complete" (master-worker.c:126): every loop    *)
(* ends, main joins the threads and frees the buffer.                      *)
Termination == <>freed

(* One worker takes every item itself, so it never sleeps after the last   *)
(* one, and while it empties the buffer its signals wake the masters that  *)
(* still sleep: the program ends unless there are more masters than that.  *)
OneWorkerTerminates ==
  /\ Cardinality(created \cap Workers) = 1
  /\ Cardinality(created \cap Masters) <= max_buf_size + 1
  => Termination
=============================================================================
