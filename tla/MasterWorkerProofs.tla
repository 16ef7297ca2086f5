------------------------- MODULE MasterWorkerProofs -------------------------
(***************************************************************************)
(* Proofs about MasterWorker, for any finite sets of masters and workers,  *)
(* any number of items and any size of the buffer.  Because each loop      *)
(* tests its counter before it takes the mutex, the threads already past   *)
(* the test when the last item is made are what bounds the overrun: the    *)
(* inductive invariant counts them.  Whether the program can stop follows  *)
(* from it, and for the end of the program from a count of the sleepers.   *)
(***************************************************************************)
EXTENDS MasterWorker, FiniteSetTheorems, SequenceTheorems, TLAPS

M == created \cap Masters
W == created \cap Workers

(* The threads main created, and no others, run. *)
CreatedInv ==
  /\ M # {} /\ W # {}
  /\ \A t \in Threads : pc[t] = "none" <=> t \notin created

(* From the last item on, every thread past the test of its loop may make  *)
(* or take one item more, and no other thread will.                        *)
Overruns ==
  /\ item_to_produce >= total_items =>
       item_to_produce + Cardinality(Past(Masters)) <= total_items + Cardinality(M) - 1
  /\ item_to_consume >= total_items =>
       item_to_consume + Cardinality(Past(Workers)) <= total_items + Cardinality(W) - 1

(* The buffer overflows and underflows only by items beyond the last one.  *)
BufferBounds ==
  /\ item_to_produce <= total_items => curr_buf_size <= max_buf_size
  /\ item_to_produce > total_items =>
       curr_buf_size <= max_buf_size + item_to_produce - total_items
  /\ item_to_consume <= total_items => curr_buf_size >= 0
  /\ item_to_consume > total_items => curr_buf_size >= total_items - item_to_consume

(* Item j lies in slot j % max_buf_size from the moment it is made until   *)
(* it is taken, unless a master overran.                                   *)
SlotOf(n) == n % max_buf_size
Stored ==
  item_to_produce <= total_items =>
    /\ \A j \in item_to_consume .. item_to_produce - 1 : buffer[SlotOf(j)] = j
    /\ \A k \in 1 .. Len(consumed) : k <= total_items => consumed[k] = k - 1

IInv == /\ TypeOK /\ ControlInv /\ CreatedInv /\ CountersAgree
        /\ Overruns /\ BufferBounds /\ Stored /\ NoStall

-----------------------------------------------------------------------------
(* Division with rest, and what follows for the slots of the ring.         *)
LEMMA Division ==
  ASSUME NEW m \in Nat \ {0}, NEW n \in Int
  PROVE  /\ n \div m \in Int
         /\ n % m \in 0 .. m - 1
         /\ n = (n \div m) * m + (n % m)
BY SMTT(30)

LEMMA UniqueRest ==
  ASSUME NEW m \in Nat \ {0}, NEW q \in Int, NEW r \in 0 .. m - 1
  PROVE  (q * m + r) % m = r
OBVIOUS

(* The slot k after that of item n is the slot of item n + k. *)
LEMMA AddRest ==
  ASSUME NEW m \in Nat \ {0}, NEW n \in Int, NEW k \in Int
  PROVE  ((n % m) + k) % m = (n + k) % m
<1> DEFINE q == n \div m
           r == n % m
           p == (r + k) \div m
           s == (r + k) % m
<1>1. n = q * m + r /\ q \in Int /\ r \in 0 .. m - 1
  BY Division
<1>2. r + k \in Int
  BY <1>1
<1>3. r + k = p * m + s /\ p \in Int /\ s \in 0 .. m - 1
  BY <1>2, Division
<1> HIDE DEF q, p, r, s
<1>4. n + k = (q + p) * m + s
  BY <1>1, <1>3
<1>5. (n + k) % m = s
  <2>1. q + p \in Int
    BY <1>1, <1>3
  <2>2. ((q + p) * m + s) % m = s
    BY <1>3, <2>1, UniqueRest
  <2> QED BY <1>4, <2>2
<1>6. s = ((n % m) + k) % m
  BY Zenon DEF s, r
<1> QED BY <1>5, <1>6, Zenon

(* Items less than the size of the buffer apart lie in different slots. *)
LEMMA RestsDiffer ==
  ASSUME NEW m \in Nat \ {0}, NEW i \in Int, NEW j \in Int, i < j, j - i < m
  PROVE  i % m # j % m
<1> DEFINE q == i \div m
           p == j \div m
           r == i % m
           s == j % m
<1>1. i = q * m + r /\ q \in Int /\ r \in 0 .. m - 1
  BY Division
<1>2. j = p * m + s /\ p \in Int /\ s \in 0 .. m - 1
  BY Division
<1> HIDE DEF q, p, r, s
<1>3. ASSUME r = s PROVE FALSE
  <2>1. j - i = (p - q) * m
    BY <1>1, <1>2, <1>3
  <2>2. CASE p - q <= 0
    <3>1. (p - q) * m <= 0
      BY <1>1, <1>2, <2>2
    <3> QED BY <2>1, <3>1
  <2>3. CASE p - q >= 1
    <3>1. (p - q) * m >= m
      BY <1>1, <1>2, <2>3
    <3> QED BY <2>1, <3>1
  <2> QED BY <1>1, <1>2, <2>2, <2>3
<1>4. r # s
  BY <1>3
<1> QED BY <1>4, Zenon DEF r, s

(* The same, for the slots of this buffer. *)
LEMMA SlotsOfItems ==
  /\ \A n \in Int : SlotOf(n) \in Slots
  /\ \A n \in Int : NextSlot(SlotOf(n)) = SlotOf(n + 1)
  /\ \A n, k \in Int : (SlotOf(n) + k) % max_buf_size = SlotOf(n + k)
  /\ \A i, j \in Int : i < j /\ j - i < max_buf_size => SlotOf(i) # SlotOf(j)
<1> USE MWAssumption
<1>1. \A n \in Int : SlotOf(n) \in Slots
  BY Division DEF SlotOf, Slots
<1>2. \A n, k \in Int : (SlotOf(n) + k) % max_buf_size = SlotOf(n + k)
  BY AddRest DEF SlotOf
<1>3. \A n \in Int : NextSlot(SlotOf(n)) = SlotOf(n + 1)
  BY <1>2 DEF NextSlot
<1>4. \A i, j \in Int : i < j /\ j - i < max_buf_size => SlotOf(i) # SlotOf(j)
  BY RestsDiffer DEF SlotOf
<1> QED BY <1>1, <1>2, <1>3, <1>4

(* A slot follows every slot. *)
LEMMA NextSlotType == \A i \in Slots : NextSlot(i) \in Slots
<1> SUFFICES ASSUME NEW i \in Slots PROVE NextSlot(i) \in Slots
  OBVIOUS
<1>1. i + 1 \in Int
  BY DEF Slots
<1> QED BY <1>1, Division, MWAssumption DEF NextSlot, Slots

(* Waking at most one sleeper leaves a subset, and the one woken is awake. *)
LEMMA SignalWakes ==
  ASSUME NEW S, NEW T \in CondSignal(S)
  PROVE  /\ T \subseteq S
         /\ S # {} => \E w \in S : T = S \ {w}
BY DEF CondSignal

(* The number of threads past their test, and how it changes. *)
LEMMA PastCounts ==
  ASSUME NEW S \in SUBSET Threads
  PROVE  /\ Cardinality(Past(S)) \in Nat
         /\ \A t \in S \ Past(S) :
              Cardinality(Past(S) \cup {t}) = Cardinality(Past(S)) + 1
         /\ \A t \in Past(S) : Cardinality(Past(S) \ {t}) = Cardinality(Past(S)) - 1
<1>1. IsFiniteSet(Threads)
  BY MWAssumption, FS_Union DEF Threads
<1>2. IsFiniteSet(Past(S))
  BY <1>1, FS_Subset DEF Past
<1>3. Cardinality(Past(S)) \in Nat
  BY <1>2, FS_CardinalityType
<1>4. \A t \in S \ Past(S) : Cardinality(Past(S) \cup {t}) = Cardinality(Past(S)) + 1
  BY <1>2, FS_AddElement
<1>5. \A t \in Past(S) : Cardinality(Past(S) \ {t}) = Cardinality(Past(S)) - 1
  BY <1>2, FS_RemoveElement
<1> QED BY <1>3, <1>4, <1>5

(* Only created threads are past their test. *)
LEMMA PastCreated ==
  ASSUME CreatedInv
  PROVE  /\ Past(Masters) \subseteq M /\ Cardinality(Past(Masters)) <= Cardinality(M)
         /\ Past(Workers) \subseteq W /\ Cardinality(Past(Workers)) <= Cardinality(W)
         /\ Cardinality(M) \in Nat \ {0} /\ Cardinality(W) \in Nat \ {0}
<1>1. Past(Masters) \subseteq M /\ Past(Workers) \subseteq W
  BY DEF CreatedInv, Past, M, W, Threads
<1>2. IsFiniteSet(M) /\ IsFiniteSet(W)
  BY MWAssumption, FS_Subset DEF M, W
<1>3. Cardinality(M) \in Nat /\ Cardinality(W) \in Nat
  BY <1>2, FS_CardinalityType
<1>4. Cardinality(M) # 0 /\ Cardinality(W) # 0
  BY <1>2, FS_EmptySet DEF CreatedInv
<1>5. Cardinality(Past(Masters)) <= Cardinality(M) /\ Cardinality(Past(Workers)) <= Cardinality(W)
  BY <1>1, <1>2, FS_Subset
<1> QED BY <1>1, <1>3, <1>4, <1>5

-----------------------------------------------------------------------------
(* The type invariant. *)
LEMMA TypeStep == TypeOK /\ [Next]_vars => TypeOK'
<1> SUFFICES ASSUME TypeOK, [Next]_vars PROVE TypeOK'
  OBVIOUS
<1> USE MWAssumption DEF Free, MutexStates
<1>1. CASE UNCHANGED vars
  BY <1>1 DEF TypeOK, vars, counters
<1>2. CASE JoinAndFree
  BY <1>2 DEF JoinAndFree, TypeOK, counters
<1>3. ASSUME NEW t \in Threads, UNCHANGED created, Check(t) PROVE TypeOK'
  BY <1>3 DEF Check, TypeOK, Goto, counters
<1>4. ASSUME NEW t \in Threads, UNCHANGED created, TakeMutex(t) PROVE TypeOK'
  BY <1>4 DEF TakeMutex, TypeOK, Goto, counters
<1>5. ASSUME NEW t \in Threads, SpuriousWakeup(t) PROVE TypeOK'
  BY <1>5 DEF SpuriousWakeup, TypeOK, counters
<1>6. ASSUME NEW m \in Masters, UNCHANGED created, MasterSleep(m) PROVE TypeOK'
  BY <1>6 DEF MasterSleep, TypeOK, Goto, counters, Threads
<1>7. ASSUME NEW w \in Workers, UNCHANGED created, WorkerSleep(w) PROVE TypeOK'
  BY <1>7 DEF WorkerSleep, TypeOK, Goto, counters, Threads
<1>8. ASSUME NEW m \in Masters, UNCHANGED created, Produce(m) PROVE TypeOK'
  BY <1>8, NextSlotType DEF Produce, TypeOK, Goto, Threads
<1>9. ASSUME NEW w \in Workers, UNCHANGED created, Consume(w) PROVE TypeOK'
  <2>1. TakenItem \in Nat \cup {Junk}
    BY DEF TakenItem, TypeOK
  <2>2. consumed' \in Seq(Nat \cup {Junk})
    BY <1>9, <2>1, AppendProperties DEF Consume, TypeOK
  <2> QED BY <1>9, <2>2, NextSlotType DEF Consume, TypeOK, Goto, Threads
<1>10. ASSUME NEW m \in Masters, UNCHANGED created, MasterSignal(m) PROVE TypeOK'
  <2>1. is_empty' \subseteq is_empty
    BY <1>10, SignalWakes DEF MasterSignal, WokenByMaster
  <2> QED BY <1>10, <2>1 DEF MasterSignal, TypeOK, Goto, counters, Threads
<1>11. ASSUME NEW w \in Workers, UNCHANGED created, WorkerSignal(w) PROVE TypeOK'
  <2>1. is_full' \subseteq is_full
    BY <1>11, SignalWakes DEF WorkerSignal, WokenByWorker
  <2> QED BY <1>11, <2>1 DEF WorkerSignal, TypeOK, Goto, counters, Threads
<1> QED
  BY <1>1, <1>2, <1>3, <1>4, <1>5, <1>6, <1>7, <1>8, <1>9, <1>10, <1>11
  DEF Next, Step, MasterStep, WorkerStep

(* The mutex, the sleepers, and the threads that ended their loop. *)
LEMMA ControlStep == TypeOK /\ ControlInv /\ [Next]_vars => ControlInv'
<1> SUFFICES ASSUME TypeOK, ControlInv, [Next]_vars PROVE ControlInv'
  OBVIOUS
<1> USE MWAssumption DEF Free
<1>1. CASE UNCHANGED vars
  BY <1>1 DEF ControlInv, vars, counters, MoreToProduce, MoreToConsume
<1>2. CASE JoinAndFree
  BY <1>2 DEF JoinAndFree, ControlInv, counters, MoreToProduce, MoreToConsume
<1>3. ASSUME NEW t \in Threads, Check(t) PROVE ControlInv'
  BY <1>3
  DEF Check, GoesOn, TypeOK, ControlInv, Goto, counters, MoreToProduce, MoreToConsume, Threads
<1>4. ASSUME NEW t \in Threads, TakeMutex(t) PROVE ControlInv'
  <2>1. /\ lock = {} /\ lock' = {t} /\ pc' = [pc EXCEPT ![t] = "test"]
        /\ UNCHANGED <<counters, is_full, is_empty>>
        /\ t \notin is_full \cup is_empty
    BY <1>4 DEF TakeMutex, Goto, Asleep, ControlInv
  <2>2. \A u \in Threads : lock' = {u} <=> pc'[u] = "test"
    BY <2>1 DEF TypeOK, ControlInv
  <2> QED BY <2>1, <2>2 DEF TypeOK, ControlInv, counters, MoreToProduce, MoreToConsume, Threads
<1>5. ASSUME NEW t \in Threads, SpuriousWakeup(t) PROVE ControlInv'
  BY <1>5 DEF SpuriousWakeup, ControlInv, counters, MoreToProduce, MoreToConsume
<1>6. ASSUME NEW m \in Masters, MasterSleep(m) PROVE ControlInv'
  BY <1>6 DEF MasterSleep, TypeOK, ControlInv, Goto, counters, MoreToProduce, MoreToConsume,
    Threads
<1>7. ASSUME NEW w \in Workers, WorkerSleep(w) PROVE ControlInv'
  BY <1>7 DEF WorkerSleep, TypeOK, ControlInv, Goto, counters, MoreToProduce, MoreToConsume,
    Threads
<1>8. ASSUME NEW m \in Masters, Produce(m) PROVE ControlInv'
  BY <1>8 DEF Produce, TypeOK, ControlInv, Goto, MoreToProduce, MoreToConsume, Threads
<1>9. ASSUME NEW w \in Workers, Consume(w) PROVE ControlInv'
  <2>1. /\ lock' = {} /\ pc[w] = "test" /\ pc' = [pc EXCEPT ![w] = "signal"]
        /\ item_to_consume' = item_to_consume + 1
        /\ UNCHANGED <<item_to_produce, is_full, is_empty>>
    BY <1>9 DEF Consume, Goto
  <2>2. item_to_consume \in Nat
    BY DEF TypeOK
  <2>3. \A u \in Threads : pc'[u] = IF u = w THEN "signal" ELSE pc[u]
    BY <2>1 DEF TypeOK
  <2> QED BY <2>1, <2>2, <2>3 DEF ControlInv, MoreToProduce, MoreToConsume, Threads
<1>10. ASSUME NEW m \in Masters, MasterSignal(m) PROVE ControlInv'
  <2>1. is_empty' \subseteq is_empty
    BY <1>10, SignalWakes DEF MasterSignal, WokenByMaster
  <2> QED BY <1>10, <2>1 DEF MasterSignal, TypeOK, ControlInv, Goto, counters, MoreToProduce,
    MoreToConsume, Threads
<1>11. ASSUME NEW w \in Workers, WorkerSignal(w) PROVE ControlInv'
  <2>1. is_full' \subseteq is_full
    BY <1>11, SignalWakes DEF WorkerSignal, WokenByWorker
  <2> QED BY <1>11, <2>1 DEF WorkerSignal, TypeOK, ControlInv, Goto, counters, MoreToProduce,
    MoreToConsume, Threads
<1> QED
  BY <1>1, <1>2, <1>3, <1>4, <1>5, <1>6, <1>7, <1>8, <1>9, <1>10, <1>11
  DEF Next, Step, MasterStep, WorkerStep

(* A step moves at most one thread, and never to or from "none".           *)
LEMMA Moves ==
  ASSUME TypeOK, [Next]_vars
  PROVE  /\ UNCHANGED created
         /\ \/ UNCHANGED pc
            \/ \E t \in Threads, to \in {"check", "lock", "test", "wait", "signal", "done"} :
                 pc[t] # "none" /\ Goto(t, to)
<1>1. CASE UNCHANGED vars
  BY <1>1 DEF vars
<1>2. CASE JoinAndFree
  BY <1>2 DEF JoinAndFree
<1>3. ASSUME NEW t \in Threads, SpuriousWakeup(t)
      PROVE  UNCHANGED <<created, pc>>
  BY <1>3 DEF SpuriousWakeup
<1>4. ASSUME NEW t \in Threads, Step(t)
      PROVE  /\ UNCHANGED created /\ pc[t] # "none"
             /\ \E to \in {"check", "lock", "test", "wait", "signal", "done"} : Goto(t, to)
  BY <1>4 DEF Step, Check, TakeMutex, MasterStep, MasterSleep, Produce, MasterSignal,
    WorkerStep, WorkerSleep, Consume, WorkerSignal
<1> QED BY <1>1, <1>2, <1>3, <1>4 DEF Next

LEMMA CreatedStep == TypeOK /\ CreatedInv /\ [Next]_vars => CreatedInv'
<1> SUFFICES ASSUME TypeOK, CreatedInv, [Next]_vars PROVE CreatedInv'
  OBVIOUS
<1>1. UNCHANGED created /\ \A t \in Threads : pc'[t] = "none" <=> pc[t] = "none"
  BY Moves DEF Goto, TypeOK
<1> QED BY <1>1 DEF CreatedInv, M, W

-----------------------------------------------------------------------------
(* All steps but Produce and Consume leave the counters alone. *)
LEMMA CountersChange ==
  ASSUME [Next]_vars
  PROVE  \/ UNCHANGED <<counters, consumed>>
         \/ \E m \in Masters : Produce(m) /\ UNCHANGED created
         \/ \E w \in Workers : Consume(w) /\ UNCHANGED created
BY DEF vars, Next, JoinAndFree, SpuriousWakeup, Step, Check, TakeMutex, MasterStep,
  MasterSleep, MasterSignal, WorkerStep, WorkerSleep, WorkerSignal

(* The counters and the positions agree. *)
LEMMA CountersStep == TypeOK /\ CountersAgree /\ [Next]_vars => CountersAgree'
<1> SUFFICES ASSUME TypeOK, CountersAgree, [Next]_vars PROVE CountersAgree'
  OBVIOUS
<1>1. /\ curr_buf_size = item_to_produce - item_to_consume
      /\ add = SlotOf(item_to_produce) /\ rem = SlotOf(item_to_consume)
      /\ Len(consumed) = item_to_consume
      /\ item_to_produce \in Nat /\ item_to_consume \in Nat
  BY DEF CountersAgree, SlotOf, TypeOK
<1>2. CASE UNCHANGED <<counters, consumed>>
  BY <1>2 DEF counters, CountersAgree
<1>3. ASSUME NEW m \in Masters, Produce(m) PROVE CountersAgree'
  <2>1. /\ item_to_produce' = item_to_produce + 1 /\ curr_buf_size' = curr_buf_size + 1
        /\ add' = NextSlot(add) /\ UNCHANGED <<item_to_consume, rem, consumed>>
    BY <1>3 DEF Produce
  <2>2. add' = SlotOf(item_to_produce + 1)
    BY <1>1, <2>1, SlotsOfItems
  <2>3. curr_buf_size' = item_to_produce' - item_to_consume'
    BY <1>1, <2>1
  <2> QED BY <1>1, <2>1, <2>2, <2>3, Zenon DEF CountersAgree, SlotOf
<1>4. ASSUME NEW w \in Workers, Consume(w) PROVE CountersAgree'
  <2>1. /\ item_to_consume' = item_to_consume + 1 /\ curr_buf_size' = curr_buf_size - 1
        /\ rem' = NextSlot(rem) /\ UNCHANGED <<item_to_produce, add>>
    BY <1>4 DEF Consume
  <2>2. rem' = SlotOf(item_to_consume + 1)
    BY <1>1, <2>1, SlotsOfItems
  <2>3. curr_buf_size' = item_to_produce' - item_to_consume'
    BY <1>1, <2>1
  <2>4. Len(consumed') = item_to_consume'
    <3>1. TakenItem \in Nat \cup {Junk}
      BY DEF TakenItem, TypeOK
    <3>2. consumed \in Seq(Nat \cup {Junk}) /\ consumed' = Append(consumed, TakenItem)
      BY <1>4 DEF Consume, TypeOK
    <3>3. Len(consumed') = Len(consumed) + 1
      BY <3>1, <3>2, AppendProperties
    <3> QED BY <1>1, <2>1, <3>3
  <2> QED BY <1>1, <2>1, <2>2, <2>3, <2>4, Zenon DEF CountersAgree, SlotOf
<1> QED BY <1>2, <1>3, <1>4, CountersChange

(* The buffer overflows and underflows only by items beyond the last. *)
LEMMA BoundsStep == TypeOK /\ BufferBounds /\ [Next]_vars => BufferBounds'
<1> SUFFICES ASSUME TypeOK, BufferBounds, [Next]_vars PROVE BufferBounds'
  OBVIOUS
<1> USE MWAssumption
<1>1. CASE UNCHANGED <<counters, consumed>>
  BY <1>1 DEF counters, BufferBounds
<1>2. ASSUME NEW m \in Masters, Produce(m) PROVE BufferBounds'
  BY <1>2 DEF Produce, MasterMustWait, MoreToProduce, BufferBounds, TypeOK
<1>3. ASSUME NEW w \in Workers, Consume(w) PROVE BufferBounds'
  BY <1>3 DEF Consume, WorkerMustWait, MoreToConsume, BufferBounds, TypeOK
<1> QED BY <1>1, <1>2, <1>3, CountersChange

-----------------------------------------------------------------------------
(* Who gets past the test of its loop: only a thread that sees more to do, *)
(* and it is counted until it made or took an item.                        *)
LEMMA PastChange ==
  ASSUME TypeOK, [Next]_vars
  PROVE  \/ /\ UNCHANGED <<item_to_produce, item_to_consume>>
            /\ Past(Masters)' = Past(Masters) /\ Past(Workers)' = Past(Workers)
         \/ /\ UNCHANGED <<item_to_produce, item_to_consume>>
            /\ item_to_produce < total_items /\ Past(Workers)' = Past(Workers)
         \/ /\ UNCHANGED <<item_to_produce, item_to_consume>>
            /\ item_to_consume < total_items /\ Past(Masters)' = Past(Masters)
         \/ /\ item_to_produce' = item_to_produce + 1 /\ UNCHANGED item_to_consume
            /\ \E m \in Past(Masters) : Past(Masters)' = Past(Masters) \ {m}
            /\ Past(Workers)' = Past(Workers)
         \/ /\ item_to_consume' = item_to_consume + 1 /\ UNCHANGED item_to_produce
            /\ \E w \in Past(Workers) : Past(Workers)' = Past(Workers) \ {w}
            /\ Past(Masters)' = Past(Masters)
<1> USE MWAssumption
<1>0. pc \in [Threads -> {"none", "check", "lock", "test", "wait", "signal", "done"}]
  BY DEF TypeOK
<1>1. CASE UNCHANGED vars
  BY <1>1 DEF vars, counters, Past
<1>2. CASE JoinAndFree
  BY <1>2 DEF JoinAndFree, counters, Past
<1>3. ASSUME NEW t \in Threads,
             \/ TakeMutex(t) \/ SpuriousWakeup(t) \/ MasterSleep(t) \/ WorkerSleep(t)
             \/ MasterSignal(t) \/ WorkerSignal(t)
      PROVE  /\ UNCHANGED <<item_to_produce, item_to_consume>>
             /\ Past(Masters)' = Past(Masters) /\ Past(Workers)' = Past(Workers)
  <2>1. \A u \in Threads :
          pc'[u] \in {"lock", "test", "wait"} <=> pc[u] \in {"lock", "test", "wait"}
    BY <1>0, <1>3 DEF TakeMutex, SpuriousWakeup, MasterSleep, WorkerSleep, MasterSignal,
      WorkerSignal, Goto
  <2>2. UNCHANGED counters
    BY <1>3 DEF TakeMutex, SpuriousWakeup, MasterSleep, WorkerSleep, MasterSignal, WorkerSignal
  <2> QED BY <2>1, <2>2 DEF Past, counters, Threads
<1>4. ASSUME NEW m \in Masters, Check(m)
      PROVE  /\ UNCHANGED <<item_to_produce, item_to_consume>>
             /\ Past(Workers)' = Past(Workers)
             /\ item_to_produce < total_items \/ Past(Masters)' = Past(Masters)
  <2>1. UNCHANGED <<item_to_produce, item_to_consume>> /\ pc[m] = "check"
        /\ pc' = [pc EXCEPT ![m] = IF item_to_produce < total_items THEN "lock" ELSE "done"]
    BY <1>4 DEF Check, GoesOn, MoreToProduce, Goto, counters
  <2> QED BY <1>0, <2>1 DEF Past, Threads
<1>5. ASSUME NEW w \in Workers, Check(w)
      PROVE  /\ UNCHANGED <<item_to_produce, item_to_consume>>
             /\ Past(Masters)' = Past(Masters)
             /\ item_to_consume < total_items \/ Past(Workers)' = Past(Workers)
  <2>1. UNCHANGED <<item_to_produce, item_to_consume>> /\ pc[w] = "check"
        /\ pc' = [pc EXCEPT ![w] = IF item_to_consume < total_items THEN "lock" ELSE "done"]
    BY <1>5 DEF Check, GoesOn, MoreToConsume, Goto, counters
  <2> QED BY <1>0, <2>1 DEF Past, Threads
<1>6. ASSUME NEW m \in Masters, Produce(m)
      PROVE  /\ item_to_produce' = item_to_produce + 1 /\ UNCHANGED item_to_consume
             /\ m \in Past(Masters) /\ Past(Masters)' = Past(Masters) \ {m}
             /\ Past(Workers)' = Past(Workers)
  BY <1>0, <1>6 DEF Produce, Goto, Past, Threads
<1>7. ASSUME NEW w \in Workers, Consume(w)
      PROVE  /\ item_to_consume' = item_to_consume + 1 /\ UNCHANGED item_to_produce
             /\ w \in Past(Workers) /\ Past(Workers)' = Past(Workers) \ {w}
             /\ Past(Masters)' = Past(Masters)
  BY <1>0, <1>7 DEF Consume, Goto, Past, Threads
<1>8. CASE JoinAndFree \/ UNCHANGED vars
  BY <1>1, <1>2, <1>8
<1>9. CASE \E t \in Threads : Step(t)
  <2>1. PICK t \in Threads : Step(t)
    BY <1>9
  <2>2. CASE Check(t)
    BY <1>4, <1>5, <2>2 DEF Threads
  <2>3. CASE TakeMutex(t)
    BY <1>3, <2>3
  <2>4. CASE t \in Masters /\ MasterStep(t)
    BY <1>3, <1>6, <2>4 DEF MasterStep, Threads
  <2>5. CASE t \in Workers /\ WorkerStep(t)
    BY <1>3, <1>7, <2>5 DEF WorkerStep, Threads
  <2> QED BY <2>1, <2>2, <2>3, <2>4, <2>5 DEF Step
<1>10. CASE \E t \in Threads : SpuriousWakeup(t)
  BY <1>3, <1>10
<1> QED BY <1>8, <1>9, <1>10 DEF Next

(* How far the loops run too far. *)
LEMMA OverrunsStep == TypeOK /\ CreatedInv /\ Overruns /\ [Next]_vars => Overruns'
<1> SUFFICES ASSUME TypeOK, CreatedInv, Overruns, [Next]_vars PROVE Overruns'
  OBVIOUS
<1> USE MWAssumption
<1>0. item_to_produce \in Nat /\ item_to_consume \in Nat /\ total_items \in Nat
  BY DEF TypeOK
<1>a. Cardinality(M)' = Cardinality(M) /\ Cardinality(W)' = Cardinality(W)
  BY Moves DEF M, W
<1>b. /\ Cardinality(Past(Masters)) \in Nat /\ Cardinality(Past(Workers)) \in Nat
      /\ Cardinality(Past(Masters)) <= Cardinality(M) /\ Cardinality(M) \in Nat
      /\ Cardinality(Past(Workers)) <= Cardinality(W) /\ Cardinality(W) \in Nat
  BY PastCounts, PastCreated DEF Threads
<1>c. /\ \A m \in Past(Masters) :
           Cardinality(Past(Masters) \ {m}) = Cardinality(Past(Masters)) - 1
      /\ \A w \in Past(Workers) :
           Cardinality(Past(Workers) \ {w}) = Cardinality(Past(Workers)) - 1
  BY PastCounts DEF Threads
<1>1. ASSUME UNCHANGED <<item_to_produce, item_to_consume>>,
             item_to_produce < total_items \/ Past(Masters)' = Past(Masters),
             item_to_consume < total_items \/ Past(Workers)' = Past(Workers)
      PROVE  Overruns'
  BY <1>0, <1>1, <1>a DEF Overruns
<1>2. ASSUME item_to_produce' = item_to_produce + 1, UNCHANGED item_to_consume,
             NEW m \in Past(Masters), Past(Masters)' = Past(Masters) \ {m},
             Past(Workers)' = Past(Workers)
      PROVE  Overruns'
  BY <1>0, <1>2, <1>a, <1>b, <1>c DEF Overruns
<1>3. ASSUME item_to_consume' = item_to_consume + 1, UNCHANGED item_to_produce,
             NEW w \in Past(Workers), Past(Workers)' = Past(Workers) \ {w},
             Past(Masters)' = Past(Masters)
      PROVE  Overruns'
  BY <1>0, <1>3, <1>a, <1>b, <1>c DEF Overruns
<1> QED BY <1>1, <1>2, <1>3, PastChange

-----------------------------------------------------------------------------
(* Items lie in their slots until they are taken, in order. *)
LEMMA StoredStep ==
  TypeOK /\ CountersAgree /\ BufferBounds /\ Stored /\ [Next]_vars => Stored'
<1> SUFFICES ASSUME TypeOK, CountersAgree, BufferBounds, Stored, [Next]_vars,
                    item_to_produce' <= total_items
             PROVE  /\ \A j \in item_to_consume' .. item_to_produce' - 1 : buffer'[SlotOf(j)] = j
                    /\ \A k \in 1 .. Len(consumed') : k <= total_items => consumed'[k] = k - 1
  BY Zenon DEF Stored, SlotOf
<1> USE MWAssumption
<1>0. /\ item_to_produce \in Nat /\ item_to_consume \in Nat /\ curr_buf_size \in Int
      /\ buffer \in [Slots -> Nat \cup {Junk}] /\ consumed \in Seq(Nat \cup {Junk})
      /\ curr_buf_size = item_to_produce - item_to_consume
      /\ add = SlotOf(item_to_produce) /\ rem = SlotOf(item_to_consume)
      /\ Len(consumed) = item_to_consume
  BY DEF TypeOK, CountersAgree, SlotOf
<1>1. CASE UNCHANGED <<counters, consumed>>
  BY <1>1 DEF counters, Stored
<1>2. ASSUME NEW m \in Masters, Produce(m)
      PROVE  /\ \A j \in item_to_consume' .. item_to_produce' - 1 : buffer'[SlotOf(j)] = j
             /\ \A k \in 1 .. Len(consumed') : k <= total_items => consumed'[k] = k - 1
  <2>1. /\ buffer' = [buffer EXCEPT ![SlotOf(item_to_produce)] = item_to_produce]
        /\ item_to_produce' = item_to_produce + 1 /\ UNCHANGED <<item_to_consume, consumed>>
    BY <1>0, <1>2 DEF Produce
  <2>2. item_to_produce < total_items
    BY <1>0, <2>1
  <2>3. curr_buf_size < max_buf_size
    BY <1>0, <1>2, <2>2 DEF Produce, MasterMustWait, MoreToProduce, BufferBounds
  <2>4. SlotOf(item_to_produce) \in Slots
    BY <1>0, SlotsOfItems
  <2>5. ASSUME NEW j \in item_to_consume .. item_to_produce PROVE buffer'[SlotOf(j)] = j
    <3>1. CASE j = item_to_produce
      BY <1>0, <2>1, <2>4, <3>1
    <3>2. CASE j < item_to_produce
      <4>1. j \in Int /\ item_to_produce - j < max_buf_size
        BY <1>0, <2>3
      <4>2. SlotOf(j) # SlotOf(item_to_produce) /\ SlotOf(j) \in Slots
        <5>1. item_to_produce \in Int
          BY <1>0
        <5> QED BY <3>2, <4>1, <5>1, SlotsOfItems
      <4>3. buffer[SlotOf(j)] = j
        BY <1>0, <2>2, <3>2, <4>1 DEF Stored
      <4> QED BY <1>0, <2>1, <4>2, <4>3
    <3> QED BY <1>0, <3>1, <3>2
  <2>6. \A k \in 1 .. Len(consumed) : k <= total_items => consumed[k] = k - 1
    BY <1>0, <2>2 DEF Stored
  <2> QED BY <1>0, <2>1, <2>5, <2>6
<1>3. ASSUME NEW w \in Workers, Consume(w)
      PROVE  /\ \A j \in item_to_consume' .. item_to_produce' - 1 : buffer'[SlotOf(j)] = j
             /\ \A k \in 1 .. Len(consumed') : k <= total_items => consumed'[k] = k - 1
  <2>1. /\ consumed' = Append(consumed, buffer[SlotOf(item_to_consume)])
        /\ item_to_consume' = item_to_consume + 1 /\ UNCHANGED <<item_to_produce, buffer>>
    BY <1>0, <1>3 DEF Consume, TakenItem
  <2>2. item_to_produce <= total_items
    BY <2>1
  <2>3. buffer[SlotOf(item_to_consume)] \in Nat \cup {Junk}
    <3>1. item_to_consume \in Int
      BY <1>0
    <3>2. SlotOf(item_to_consume) \in Slots
      BY <3>1, SlotsOfItems
    <3> QED BY <1>0, <3>2
  <2>4. /\ Len(consumed') = item_to_consume + 1
        /\ \A k \in 1 .. Len(consumed) : consumed'[k] = consumed[k]
        /\ consumed'[item_to_consume + 1] = buffer[SlotOf(item_to_consume)]
    BY <1>0, <2>1, <2>3, AppendProperties
  <2>5. \A j \in item_to_consume + 1 .. item_to_produce - 1 : buffer[SlotOf(j)] = j
    BY <1>0, <2>2 DEF Stored
  <2>6. ASSUME NEW k \in 1 .. item_to_consume + 1, k <= total_items
        PROVE  consumed'[k] = k - 1
    <3>1. CASE k <= item_to_consume
      <4>1. k \in 1 .. Len(consumed)
        BY <1>0, <3>1
      <4> QED BY <2>2, <2>4, <2>6, <4>1 DEF Stored
    <3>2. CASE k = item_to_consume + 1
      <4>1. item_to_consume < total_items
        BY <1>0, <2>6, <3>2
      <4>2. curr_buf_size > 0
        BY <1>0, <1>3, <4>1 DEF Consume, WorkerMustWait, MoreToConsume, BufferBounds
      <4>3. item_to_consume \in item_to_consume .. item_to_produce - 1
        BY <1>0, <4>2
      <4>4. buffer[SlotOf(item_to_consume)] = item_to_consume
        BY <2>2, <4>3 DEF Stored
      <4> QED BY <1>0, <2>4, <3>2, <4>4
    <3> QED BY <1>0, <3>1, <3>2
  <2> QED BY <1>0, <2>1, <2>4, <2>5, <2>6
<1> QED BY <1>1, <1>2, <1>3, CountersChange

(* What the program prints, in terms of the buffer's positions. *)
LEMMA StoredInOrder == TypeOK /\ CountersAgree /\ Stored => ItemsInOrder
<1> SUFFICES ASSUME TypeOK, CountersAgree, Stored, item_to_produce <= total_items
             PROVE  /\ \A k \in 0 .. curr_buf_size - 1 :
                         buffer[(rem + k) % max_buf_size] = item_to_consume + k
                    /\ \A k \in 1 .. Len(consumed) : k <= total_items => consumed[k] = k - 1
  BY Zenon DEF ItemsInOrder
<1>1. /\ item_to_produce \in Nat /\ item_to_consume \in Nat
      /\ curr_buf_size = item_to_produce - item_to_consume
      /\ rem = SlotOf(item_to_consume)
  BY DEF TypeOK, CountersAgree, SlotOf
<1>2. ASSUME NEW k \in 0 .. curr_buf_size - 1
      PROVE  buffer[(rem + k) % max_buf_size] = item_to_consume + k
  <2>1. k \in Int /\ item_to_consume + k \in item_to_consume .. item_to_produce - 1
    BY <1>1
  <2>2. (rem + k) % max_buf_size = SlotOf(item_to_consume + k)
    BY <1>1, <2>1, SlotsOfItems
  <2>3. buffer[SlotOf(item_to_consume + k)] = item_to_consume + k
    BY <2>1 DEF Stored
  <2> QED BY <2>2, <2>3
<1> QED BY <1>2 DEF Stored

-----------------------------------------------------------------------------
(* The two halves of NoStall. *)
WorkersGoOn ==
  MoreToConsume /\ curr_buf_size > 0 => Awake(Workers) # {} \/ Signalling(Masters) # {}
MastersGoOn ==
  MoreToProduce /\ curr_buf_size < max_buf_size
    => Awake(Masters) # {} \/ Signalling(Workers) # {}

(* Masters sleep on is_full alone and workers on is_empty alone. *)
LEMMA SleepersOf ==
  ASSUME TypeOK
  PROVE  /\ \A m \in Masters : Asleep(m) <=> m \in is_full
         /\ \A w \in Workers : Asleep(w) <=> w \in is_empty
BY MWAssumption DEF TypeOK, Asleep

(* The moves that neither wake, nor put to sleep, nor end any thread of a  *)
(* kind, nor keep one of the other kind from signalling.                   *)
LEMMA StallFrame ==
  ASSUME NEW S, NEW R,
         \A t \in S : ~Asleep(t) /\ pc[t] \notin {"none", "done"} =>
                       ~Asleep(t)' /\ pc'[t] \notin {"none", "done"},
         \A t \in R : pc[t] = "signal" => pc'[t] = "signal",
         Awake(S) # {} \/ Signalling(R) # {}
  PROVE  Awake(S)' # {} \/ Signalling(R)' # {}
<1>1. Awake(S) \subseteq Awake(S)' /\ Signalling(R) \subseteq Signalling(R)'
  BY DEF Awake, Signalling
<1> QED BY <1>1

(* The steps of the library and of the loops' tests. *)
LEMMA QuietSteps ==
  ASSUME TypeOK, ControlInv, NEW S, NEW R, S \subseteq Threads, R \subseteq Threads,
         NEW t \in Threads,
         \/ TakeMutex(t) \/ SpuriousWakeup(t)
         \/ Check(t) /\ (t \in S => GoesOn(t)),
         Awake(S) # {} \/ Signalling(R) # {}
  PROVE  Awake(S)' # {} \/ Signalling(R)' # {}
<1>0. pc \in [Threads -> {"none", "check", "lock", "test", "wait", "signal", "done"}]
  BY DEF TypeOK
<1>1. is_full' \subseteq is_full /\ is_empty' \subseteq is_empty
  BY DEF TakeMutex, SpuriousWakeup, Check
<1>2. \A u \in Threads : ~Asleep(u) => ~Asleep(u)'
  BY <1>1 DEF Asleep
<1>3. \A u \in S : pc[u] \notin {"none", "done"} => pc'[u] \notin {"none", "done"}
  BY <1>0 DEF TakeMutex, SpuriousWakeup, Check, Goto
<1>4. \A u \in R : pc[u] = "signal" => pc'[u] = "signal"
  BY <1>0 DEF TakeMutex, SpuriousWakeup, Check, Goto
<1> QED BY <1>2, <1>3, <1>4, StallFrame

(* No wake-up of a worker is lost. *)
LEMMA WorkersStep ==
  TypeOK /\ ControlInv /\ CreatedInv /\ WorkersGoOn /\ [Next]_vars => WorkersGoOn'
<1> SUFFICES ASSUME TypeOK, ControlInv, CreatedInv, WorkersGoOn, [Next]_vars,
                    item_to_consume' < total_items, curr_buf_size' > 0
             PROVE  Awake(Workers)' # {} \/ Signalling(Masters)' # {}
  BY DEF WorkersGoOn, MoreToConsume
<1> USE MWAssumption
<1>0. /\ pc \in [Threads -> {"none", "check", "lock", "test", "wait", "signal", "done"}]
      /\ is_full \subseteq Masters /\ is_empty \subseteq Workers
      /\ item_to_consume \in Nat /\ curr_buf_size \in Int
  BY DEF TypeOK
<1>a. item_to_consume < total_items /\ curr_buf_size > 0 =>
        Awake(Workers) # {} \/ Signalling(Masters) # {}
  BY DEF WorkersGoOn, MoreToConsume
<1>1. CASE UNCHANGED vars \/ JoinAndFree
  <2>1. UNCHANGED <<counters, is_full, is_empty, pc>>
    BY <1>1 DEF vars, JoinAndFree
  <2>2. Awake(Workers)' = Awake(Workers) /\ Signalling(Masters)' = Signalling(Masters)
    BY <2>1 DEF Awake, Asleep, Signalling
  <2> QED BY <1>a, <2>1, <2>2 DEF counters
<1>2. ASSUME NEW t \in Threads, Check(t) \/ TakeMutex(t) \/ SpuriousWakeup(t)
      PROVE  Awake(Workers)' # {} \/ Signalling(Masters)' # {}
  <2>1. item_to_consume < total_items /\ curr_buf_size > 0
    BY <1>2 DEF Check, TakeMutex, SpuriousWakeup, counters
  <2>2. Check(t) /\ t \in Workers => GoesOn(t)
    BY <2>1 DEF GoesOn, MoreToConsume
  <2> QED BY <1>2, <1>a, <2>1, <2>2, QuietSteps DEF Threads
<1>3. ASSUME NEW m \in Masters, MasterSleep(m)
      PROVE  Awake(Workers)' # {} \/ Signalling(Masters)' # {}
  <2>1. /\ item_to_consume < total_items /\ curr_buf_size > 0
        /\ pc[m] = "test" /\ pc' = [pc EXCEPT ![m] = "wait"]
        /\ is_full' = is_full \cup {m} /\ UNCHANGED is_empty
    BY <1>3 DEF MasterSleep, Goto, counters
  <2>2. \A w \in Workers : (Asleep(w)' <=> Asleep(w)) /\ pc'[w] = pc[w]
    BY <1>0, <2>1 DEF Asleep, Threads
  <2>3. \A u \in Masters : pc[u] = "signal" => pc'[u] = "signal"
    BY <1>0, <2>1 DEF Threads
  <2> QED BY <1>a, <2>1, <2>2, <2>3, StallFrame
<1>4. ASSUME NEW m \in Masters, Produce(m)
      PROVE  Signalling(Masters)' # {}
  <2>1. pc'[m] = "signal"
    BY <1>0, <1>4 DEF Produce, Goto, Threads
  <2> QED BY <2>1 DEF Signalling
<1>5. ASSUME NEW m \in Masters, MasterSignal(m)
      PROVE  Awake(Workers)' # {}
  <2>1. /\ item_to_consume < total_items /\ curr_buf_size > 0 /\ UNCHANGED is_full
        /\ pc[m] = "signal" /\ pc' = [pc EXCEPT ![m] = "check"]
        /\ is_empty' \in CondSignal(is_empty)
    BY <1>5 DEF MasterSignal, WokenByMaster, Goto, counters
  <2>2. \A w \in Workers : pc'[w] = pc[w] /\ w \notin is_full'
    BY <1>0, <2>1 DEF Threads
  <2>3. CASE is_empty = {}
    <3>1. PICK w \in Workers : w \in created
      BY DEF CreatedInv, W
    <3>2. pc[w] # "none" /\ pc[w] # "done"
      BY <2>1, <3>1 DEF CreatedInv, ControlInv, MoreToConsume, Threads
    <3>3. is_empty' = {}
      BY <2>1, <2>3, SignalWakes
    <3> QED BY <2>2, <3>1, <3>2, <3>3 DEF Awake, Asleep
  <2>4. CASE is_empty # {}
    <3>1. PICK w \in is_empty : is_empty' = is_empty \ {w}
      BY <2>1, <2>4, SignalWakes
    <3>2. w \in Workers /\ pc[w] = "wait"
      BY <1>0, <3>1 DEF ControlInv
    <3> QED BY <2>2, <3>1, <3>2 DEF Awake, Asleep
  <2> QED BY <2>3, <2>4
<1>6. ASSUME NEW w \in Workers, WorkerSleep(w) PROVE FALSE
  BY <1>6 DEF WorkerSleep, WorkerMustWait, counters
<1>7. ASSUME NEW w \in Workers, Consume(w) \/ WorkerSignal(w)
      PROVE  Awake(Workers)' # {}
  <2>1. /\ pc[w] \in {"test", "signal"} /\ UNCHANGED is_empty
        /\ pc' = [pc EXCEPT ![w] = "signal"] \/ pc' = [pc EXCEPT ![w] = "check"]
    BY <1>7 DEF Consume, WorkerSignal, Goto
  <2>2. w \notin is_empty /\ pc'[w] \in {"signal", "check"}
    BY <1>0, <2>1 DEF ControlInv, Threads
  <2>3. is_full' \subseteq is_full
    BY <1>7, SignalWakes DEF Consume, WorkerSignal, WokenByWorker
  <2> QED BY <1>0, <2>1, <2>2, <2>3 DEF Awake, Asleep
<1> QED
  BY <1>1, <1>2, <1>3, <1>4, <1>5, <1>6, <1>7 DEF Next, Step, MasterStep, WorkerStep

(* Nor of a master. *)
LEMMA MastersStep ==
  TypeOK /\ ControlInv /\ CreatedInv /\ MastersGoOn /\ [Next]_vars => MastersGoOn'
<1> SUFFICES ASSUME TypeOK, ControlInv, CreatedInv, MastersGoOn, [Next]_vars,
                    item_to_produce' < total_items, curr_buf_size' < max_buf_size
             PROVE  Awake(Masters)' # {} \/ Signalling(Workers)' # {}
  BY DEF MastersGoOn, MoreToProduce
<1> USE MWAssumption
<1>0. /\ pc \in [Threads -> {"none", "check", "lock", "test", "wait", "signal", "done"}]
      /\ is_full \subseteq Masters /\ is_empty \subseteq Workers
      /\ item_to_produce \in Nat /\ curr_buf_size \in Int
  BY DEF TypeOK
<1>a. item_to_produce < total_items /\ curr_buf_size < max_buf_size =>
        Awake(Masters) # {} \/ Signalling(Workers) # {}
  BY DEF MastersGoOn, MoreToProduce
<1>1. CASE UNCHANGED vars \/ JoinAndFree
  <2>1. UNCHANGED <<counters, is_full, is_empty, pc>>
    BY <1>1 DEF vars, JoinAndFree
  <2>2. Awake(Masters)' = Awake(Masters) /\ Signalling(Workers)' = Signalling(Workers)
    BY <2>1 DEF Awake, Asleep, Signalling
  <2> QED BY <1>a, <2>1, <2>2 DEF counters
<1>2. ASSUME NEW t \in Threads, Check(t) \/ TakeMutex(t) \/ SpuriousWakeup(t)
      PROVE  Awake(Masters)' # {} \/ Signalling(Workers)' # {}
  <2>1. item_to_produce < total_items /\ curr_buf_size < max_buf_size
    BY <1>2 DEF Check, TakeMutex, SpuriousWakeup, counters
  <2>2. Check(t) /\ t \in Masters => GoesOn(t)
    BY <2>1 DEF GoesOn, MoreToProduce
  <2> QED BY <1>2, <1>a, <2>1, <2>2, QuietSteps DEF Threads
<1>3. ASSUME NEW w \in Workers, WorkerSleep(w)
      PROVE  Awake(Masters)' # {} \/ Signalling(Workers)' # {}
  <2>1. /\ item_to_produce < total_items /\ curr_buf_size < max_buf_size
        /\ pc[w] = "test" /\ pc' = [pc EXCEPT ![w] = "wait"]
        /\ is_empty' = is_empty \cup {w} /\ UNCHANGED is_full
    BY <1>3 DEF WorkerSleep, Goto, counters
  <2>2. \A m \in Masters : (Asleep(m)' <=> Asleep(m)) /\ pc'[m] = pc[m]
    BY <1>0, <2>1 DEF Asleep, Threads
  <2>3. \A u \in Workers : pc[u] = "signal" => pc'[u] = "signal"
    BY <1>0, <2>1 DEF Threads
  <2> QED BY <1>a, <2>1, <2>2, <2>3, StallFrame
<1>4. ASSUME NEW w \in Workers, Consume(w)
      PROVE  Signalling(Workers)' # {}
  <2>1. pc'[w] = "signal"
    BY <1>0, <1>4 DEF Consume, Goto, Threads
  <2> QED BY <2>1 DEF Signalling
<1>5. ASSUME NEW w \in Workers, WorkerSignal(w)
      PROVE  Awake(Masters)' # {}
  <2>1. /\ item_to_produce < total_items /\ UNCHANGED is_empty
        /\ pc[w] = "signal" /\ pc' = [pc EXCEPT ![w] = "check"]
        /\ is_full' \in CondSignal(is_full)
    BY <1>5 DEF WorkerSignal, WokenByWorker, Goto, counters
  <2>2. \A m \in Masters : pc'[m] = pc[m] /\ m \notin is_empty'
    BY <1>0, <2>1 DEF Threads
  <2>3. CASE is_full = {}
    <3>1. PICK m \in Masters : m \in created
      BY DEF CreatedInv, M
    <3>2. pc[m] # "none" /\ pc[m] # "done"
      BY <2>1, <3>1 DEF CreatedInv, ControlInv, MoreToProduce, Threads
    <3>3. is_full' = {}
      BY <2>1, <2>3, SignalWakes
    <3> QED BY <2>2, <3>1, <3>2, <3>3 DEF Awake, Asleep
  <2>4. CASE is_full # {}
    <3>1. PICK m \in is_full : is_full' = is_full \ {m}
      BY <2>1, <2>4, SignalWakes
    <3>2. m \in Masters /\ pc[m] = "wait"
      BY <1>0, <3>1 DEF ControlInv
    <3> QED BY <2>2, <3>1, <3>2 DEF Awake, Asleep
  <2> QED BY <2>3, <2>4
<1>6. ASSUME NEW m \in Masters, MasterSleep(m) PROVE FALSE
  BY <1>6 DEF MasterSleep, MasterMustWait, counters
<1>7. ASSUME NEW m \in Masters, Produce(m) \/ MasterSignal(m)
      PROVE  Awake(Masters)' # {}
  <2>1. /\ pc[m] \in {"test", "signal"} /\ UNCHANGED is_full
        /\ pc' = [pc EXCEPT ![m] = "signal"] \/ pc' = [pc EXCEPT ![m] = "check"]
    BY <1>7 DEF Produce, MasterSignal, Goto
  <2>2. m \notin is_full /\ pc'[m] \in {"signal", "check"}
    BY <1>0, <2>1 DEF ControlInv, Threads
  <2>3. is_empty' \subseteq is_empty
    BY <1>7, SignalWakes DEF Produce, MasterSignal, WokenByMaster
  <2> QED BY <1>0, <2>1, <2>2, <2>3 DEF Awake, Asleep
<1> QED
  BY <1>1, <1>2, <1>3, <1>4, <1>5, <1>6, <1>7 DEF Next, Step, MasterStep, WorkerStep

-----------------------------------------------------------------------------
(* The initial state satisfies the invariant. *)
LEMMA InitIInv == Init => IInv
<1> SUFFICES ASSUME Init PROVE IInv
  OBVIOUS
<1> USE MWAssumption
<1>1. created \subseteq Threads /\ CreatedInv
  BY DEF Init, CreatedInv, M, W
<1>2. TypeOK
  <2>1. pc \in [Threads -> {"none", "check", "lock", "test", "wait", "signal", "done"}]
    BY DEF Init
  <2>2. add \in Slots /\ rem \in Slots /\ buffer \in [Slots -> Nat \cup {Junk}]
    BY DEF Init, Slots
  <2>3. consumed \in Seq(Nat \cup {Junk})
    BY DEF Init
  <2> QED BY <1>1, <2>1, <2>2, <2>3 DEF Init, TypeOK, MutexStates, Free
<1>3. ControlInv
  <2>1. \A t \in Threads : pc[t] \in {"check", "none"}
    BY DEF Init
  <2>2. lock = {} /\ is_full = {} /\ is_empty = {}
    BY DEF Init, Free
  <2> QED BY <2>1, <2>2 DEF ControlInv, Threads
<1>4. CountersAgree
  <2>1. 0 % max_buf_size = 0
    BY Division
  <2> QED BY <2>1 DEF Init, CountersAgree
<1>5. Past(Masters) = {} /\ Past(Workers) = {}
  BY DEF Init, Past, Threads
<1>6. Cardinality(Past(Masters)) = 0 /\ Cardinality(Past(Workers)) = 0
  BY <1>5, FS_EmptySet
<1>7. Overruns
  BY <1>1, <1>6, PastCreated DEF Init, Overruns
<1>8. BufferBounds /\ Stored
  BY DEF Init, BufferBounds, Stored
<1>9. NoStall
  <2>1. \A t \in created : pc[t] = "check" /\ ~Asleep(t)
    BY DEF Init, Asleep, Threads
  <2>2. Awake(Masters) # {} /\ Awake(Workers) # {}
    BY <1>1, <2>1 DEF CreatedInv, M, W, Awake
  <2> QED BY <2>2 DEF NoStall
<1> QED BY <1>1, <1>2, <1>3, <1>4, <1>7, <1>8, <1>9 DEF IInv

LEMMA NextIInv == IInv /\ [Next]_vars => IInv'
<1> SUFFICES ASSUME IInv, [Next]_vars PROVE IInv'
  OBVIOUS
<1>1. NoStall' <=> WorkersGoOn' /\ MastersGoOn'
  BY DEF NoStall, WorkersGoOn, MastersGoOn
<1>2. WorkersGoOn /\ MastersGoOn
  BY DEF IInv, NoStall, WorkersGoOn, MastersGoOn
<1> QED
  BY <1>1, <1>2, TypeStep, ControlStep, CreatedStep, CountersStep, OverrunsStep, BoundsStep,
     StoredStep, WorkersStep, MastersStep
  DEF IInv

LEMMA Inductive == Spec => []IInv
BY InitIInv, NextIInv, PTL DEF Spec

(* Every variable keeps its type; above all the two positions stay inside  *)
(* the buffer, however far the loops overrun.                              *)
THEOREM TypeCorrect == Spec => []TypeOK
<1>1. IInv => TypeOK
  BY DEF IInv
<1> QED BY <1>1, Inductive, PTL

(* master-worker.c:40 and :61 test the counters without the mutex: the     *)
(* masters make at most one item too many each but for one of them, the    *)
(* workers likewise, and the counters agree even then.                     *)
THEOREM OverrunCorrect == Spec => []OverrunBounded
<1>1. IInv => OverrunBounded
  <2> SUFFICES ASSUME IInv PROVE OverrunBounded
    OBVIOUS
  <2>1. /\ item_to_produce \in Nat /\ item_to_consume \in Nat /\ curr_buf_size \in Int
        /\ total_items \in Nat /\ max_buf_size \in Nat
    BY MWAssumption DEF IInv, TypeOK
  <2>2. /\ Cardinality(M) \in Nat \ {0} /\ Cardinality(W) \in Nat \ {0}
        /\ Cardinality(Past(Masters)) \in Nat /\ Cardinality(Past(Workers)) \in Nat
    BY PastCounts, PastCreated DEF IInv, Threads
  <2>3. /\ item_to_produce <= total_items + Cardinality(M) - 1
        /\ item_to_consume <= total_items + Cardinality(W) - 1
    BY <2>1, <2>2 DEF IInv, Overruns
  <2>4. /\ curr_buf_size <= max_buf_size + Cardinality(M) - 1
        /\ curr_buf_size >= 1 - Cardinality(W)
    BY <2>1, <2>2, <2>3 DEF IInv, BufferBounds
  <2> QED BY <2>3, <2>4 DEF IInv, OverrunBounded, M, W
<1> QED BY <1>1, Inductive, PTL

(* Until a master overruns, the buffer is a queue: what the workers print  *)
(* is 0, 1, 2, ... each once, and the items made and not yet printed lie   *)
(* in the ring in order.                                                   *)
THEOREM OrderCorrect == Spec => []ItemsInOrder
<1>1. IInv => ItemsInOrder
  BY StoredInOrder DEF IInv
<1> QED BY <1>1, Inductive, PTL

(* Although the signals are sent after the mutex was given back            *)
(* (master-worker.c:52 and :72), a worker is awake or about to be signalled*)
(* while there is an item to take, and a master while there is room.       *)
THEOREM StallsNever == Spec => []NoStall
<1>1. IInv => NoStall
  BY DEF IInv
<1> QED BY <1>1, Inductive, PTL

-----------------------------------------------------------------------------
(* What Step(t) needs: a free mutex if the thread is about to take it, and *)
(* a signal if it sleeps; nothing else makes a thread wait.                *)
CanStep(t) ==
  \/ pc[t] \in {"check", "test", "signal"}
  \/ lock = Free /\ pc[t] = "lock"
  \/ lock = Free /\ pc[t] = "wait" /\ ~Asleep(t)

(* While there are items to consume some thread can go on. *)
NoDeadlockBeforeLastItem == MoreToConsume => \E t \in created : CanStep(t)

(* A thread that is awake and not done can go on, or the mutex has an      *)
(* owner, who can.                                                         *)
LEMMA AwakeGoesOn ==
  ASSUME TypeOK, ControlInv, CreatedInv, NEW u \in Threads,
         ~Asleep(u), pc[u] \notin {"none", "done"}
  PROVE  \E t \in created : CanStep(t)
<1>1. CASE lock = Free
  <2>1. pc[u] \in {"check", "lock", "test", "wait", "signal"}
    BY DEF TypeOK
  <2>2. CanStep(u)
    BY <1>1, <2>1 DEF CanStep
  <2> QED BY <2>2 DEF CreatedInv
<1>2. CASE lock # Free
  <2>1. PICK t \in Threads : lock = {t}
    BY <1>2 DEF TypeOK, MutexStates
  <2>2. pc[t] = "test"
    BY <2>1 DEF ControlInv
  <2> QED BY <2>2 DEF CreatedInv, CanStep
<1> QED BY <1>1, <1>2

(* Either the buffer holds an item for a worker, or it has room and a      *)
(* master has an item to make; no signal for it was lost.                  *)
LEMMA ItemKeepsGoing == IInv => NoDeadlockBeforeLastItem
<1> SUFFICES ASSUME IInv, MoreToConsume PROVE \E t \in created : CanStep(t)
  BY DEF NoDeadlockBeforeLastItem
<1> USE MWAssumption
<1>0. /\ TypeOK /\ ControlInv /\ CreatedInv
      /\ item_to_produce \in Nat /\ item_to_consume \in Nat /\ curr_buf_size \in Int
      /\ total_items \in Nat /\ max_buf_size \in Nat \ {0}
  BY DEF IInv, TypeOK
<1>1. curr_buf_size > 0 \/ (MoreToProduce /\ curr_buf_size < max_buf_size)
  BY <1>0 DEF IInv, CountersAgree, MoreToConsume, MoreToProduce
<1>2. \/ Awake(Workers) # {} \/ Signalling(Masters) # {}
      \/ Awake(Masters) # {} \/ Signalling(Workers) # {}
  BY <1>1 DEF IInv, NoStall
<1>3. ASSUME NEW u \in Threads, u \in Awake(Workers) \cup Awake(Masters)
      PROVE  \E t \in created : CanStep(t)
  BY <1>0, <1>3, AwakeGoesOn DEF Awake
<1>4. ASSUME NEW u \in Threads, u \in Signalling(Workers) \cup Signalling(Masters)
      PROVE  \E t \in created : CanStep(t)
  BY <1>0, <1>4 DEF Signalling, CreatedInv, CanStep
<1> QED BY <1>2, <1>3, <1>4 DEF Awake, Signalling, Threads

(* Whatever the number of threads, the program never stops before as many  *)
(* items were taken as are to be made.  The safety half of                 *)
(* AllItemsConsumed, which also says that the items taken are the ones     *)
(* made, as long as no master stores into a full buffer.                   *)
THEOREM ItemsNeverStuck == Spec => []NoDeadlockBeforeLastItem
BY ItemKeepsGoing, Inductive, PTL

-----------------------------------------------------------------------------
(* With one worker, and no more masters than it can wake while it empties  *)
(* the buffer, the whole program never stops before main has joined all.   *)
OneWorker == Cardinality(W) = 1 /\ Cardinality(M) <= max_buf_size + 1
NoDeadlockOneWorker ==
  OneWorker /\ (\E t \in created : pc[t] # "done") => \E t \in created : CanStep(t)

(* Every item the worker has yet to take, and the signal it has yet to     *)
(* send, wakes one of the masters asleep; there are never more of them.    *)
SleepersSignalled ==
  OneWorker =>
    /\ is_empty # {} => MoreToConsume
    /\ Cardinality(is_full) <=
         total_items - item_to_consume + Cardinality(Signalling(Workers))

(* Sets of threads are finite, and the sleepers are created threads. *)
SleepersFinite ==
  /\ is_full \subseteq M /\ is_empty \subseteq W
  /\ IsFiniteSet(is_full) /\ Cardinality(is_full) \in Nat
  /\ Cardinality(is_full) <= Cardinality(M)
  /\ Cardinality(Signalling(Workers)) \in Nat
  /\ Cardinality(M) \in Nat /\ Cardinality(W) \in Nat

LEMMA FullCounts == IInv => SleepersFinite
<1> SUFFICES ASSUME IInv PROVE SleepersFinite
  OBVIOUS
<1> USE MWAssumption
<1>1. is_full \subseteq M /\ is_empty \subseteq W
  BY DEF IInv, TypeOK, ControlInv, CreatedInv, M, W, Threads
<1>2. IsFiniteSet(M)
  BY FS_Subset DEF M
<1>3. IsFiniteSet(is_full) /\ Cardinality(is_full) <= Cardinality(M)
  BY <1>1, <1>2, FS_Subset
<1>4. IsFiniteSet(Signalling(Workers))
  BY FS_Subset DEF Signalling
<1>5. Cardinality(M) \in Nat /\ Cardinality(W) \in Nat
  BY PastCreated DEF IInv
<1> QED BY <1>1, <1>3, <1>4, <1>5, FS_CardinalityType DEF SleepersFinite

(* A thread that starts or ends signalling is one more or one less. *)
LEMMA SignallingCounts ==
  ASSUME NEW w \in Workers
  PROVE  /\ w \notin Signalling(Workers) =>
              Cardinality(Signalling(Workers) \cup {w}) = Cardinality(Signalling(Workers)) + 1
         /\ w \in Signalling(Workers) =>
              Cardinality(Signalling(Workers) \ {w}) = Cardinality(Signalling(Workers)) - 1
<1>1. IsFiniteSet(Signalling(Workers))
  BY MWAssumption, FS_Subset DEF Signalling
<1> QED BY <1>1, FS_AddElement, FS_RemoveElement

(* One worker: nobody else is one. *)
LEMMA OnlyWorker ==
  ASSUME CreatedInv, Cardinality(W) = 1, NEW w \in W
  PROVE  W = {w}
<1>1. IsFiniteSet(W)
  BY MWAssumption, FS_Subset DEF W
<1>2. PICK x : W = {x}
  BY <1>1, FS_Singleton
<1> QED BY <1>2

LEMMA SleepersStep == IInv /\ SleepersSignalled /\ [Next]_vars => SleepersSignalled'
<1> SUFFICES ASSUME IInv, SleepersSignalled, [Next]_vars PROVE SleepersSignalled'
  OBVIOUS
<1> USE MWAssumption
<1> DEFINE Sig == Signalling(Workers)
<1>0. /\ pc \in [Threads -> {"none", "check", "lock", "test", "wait", "signal", "done"}]
      /\ is_full \subseteq Masters /\ is_empty \subseteq Workers
      /\ item_to_produce \in Nat /\ item_to_consume \in Nat /\ curr_buf_size \in Int
      /\ total_items \in Nat /\ max_buf_size \in Nat
      /\ TypeOK /\ ControlInv /\ CreatedInv
  BY DEF IInv, TypeOK
<1>1. /\ UNCHANGED created /\ (OneWorker' <=> OneWorker)
  BY <1>0, Moves DEF OneWorker, M, W
<1>p. SleepersFinite'
  <2>1. IInv'
    BY NextIInv
  <2> QED BY <2>1, FullCounts, PTL
<1>c. /\ is_full \subseteq M /\ is_empty \subseteq W
      /\ IsFiniteSet(is_full) /\ Cardinality(is_full) \in Nat
      /\ Cardinality(is_full) <= Cardinality(M)
      /\ Cardinality(Sig) \in Nat
      /\ Cardinality(M) \in Nat /\ Cardinality(W) \in Nat
  BY FullCounts DEF SleepersFinite
<1>d. /\ Cardinality(is_full') \in Nat
      /\ Cardinality(is_full') <= Cardinality(M)
      /\ Cardinality(Sig') \in Nat
  BY <1>1, <1>p DEF SleepersFinite, M
<1> SUFFICES ASSUME OneWorker
             PROVE  /\ is_empty' # {} => item_to_consume' < total_items
                    /\ Cardinality(is_full') <=
                         total_items - item_to_consume' + Cardinality(Sig')
  BY <1>1 DEF SleepersSignalled, MoreToConsume
<1>a. /\ is_empty # {} => item_to_consume < total_items
      /\ Cardinality(is_full) <= total_items - item_to_consume + Cardinality(Sig)
  BY DEF SleepersSignalled, MoreToConsume
<1>2. ASSUME is_full' \subseteq is_full, is_empty' \subseteq is_empty,
             UNCHANGED item_to_consume, Sig' = Sig
      PROVE  /\ is_empty' # {} => item_to_consume' < total_items
             /\ Cardinality(is_full') <=
                  total_items - item_to_consume' + Cardinality(Sig')
  <2>1. Cardinality(is_full') <= Cardinality(is_full)
    BY <1>2, <1>c, FS_Subset
  <2>2. Cardinality(Sig') = Cardinality(Sig)
    BY <1>2
  <2> HIDE DEF Sig
  <2> QED BY <1>0, <1>a, <1>c, <1>d, <1>2, <2>1, <2>2
<1>3. CASE UNCHANGED vars \/ JoinAndFree
  <2>1. UNCHANGED <<counters, is_full, is_empty, pc>>
    BY <1>3 DEF vars, JoinAndFree
  <2>2. Sig' = Sig
    BY <2>1 DEF Signalling
  <2> QED BY <1>2, <2>1, <2>2 DEF counters
<1>4. ASSUME NEW t \in Threads, Check(t) \/ TakeMutex(t) \/ SpuriousWakeup(t)
      PROVE  /\ is_empty' # {} => item_to_consume' < total_items
             /\ Cardinality(is_full') <=
                  total_items - item_to_consume' + Cardinality(Sig')
  <2>1. is_full' \subseteq is_full /\ is_empty' \subseteq is_empty /\ UNCHANGED item_to_consume
    BY <1>4 DEF Check, TakeMutex, SpuriousWakeup, counters
  <2>2. \A u \in Threads : pc'[u] = "signal" <=> pc[u] = "signal"
    BY <1>0, <1>4 DEF Check, TakeMutex, SpuriousWakeup, Goto
  <2>3. Sig' = Sig
    BY <2>2 DEF Signalling, Threads
  <2> QED BY <1>2, <2>1, <2>3
<1>5. ASSUME NEW m \in Masters, MasterSleep(m)
      PROVE  /\ is_empty' # {} => item_to_consume' < total_items
             /\ Cardinality(is_full') <=
                  total_items - item_to_consume' + Cardinality(Sig')
  <2>1. /\ curr_buf_size = max_buf_size /\ item_to_produce < total_items
        /\ UNCHANGED <<item_to_consume, is_empty>>
    BY <1>5 DEF MasterSleep, MasterMustWait, MoreToProduce, counters
  <2>2. total_items - item_to_consume >= max_buf_size + 1
    BY <1>0, <2>1 DEF IInv, CountersAgree
  <2>4. Cardinality(is_full') <= max_buf_size + 1
    BY <1>c, <1>d, <1>0 DEF OneWorker
  <2> HIDE DEF Sig
  <2> QED BY <1>0, <1>a, <1>d, <2>1, <2>2, <2>4
<1>6. ASSUME NEW w \in Workers, WorkerSleep(w)
      PROVE  /\ is_empty' # {} => item_to_consume' < total_items
             /\ Cardinality(is_full') <=
                  total_items - item_to_consume' + Cardinality(Sig')
  <2>1. item_to_consume < total_items /\ UNCHANGED <<item_to_consume, is_full>>
    BY <1>6 DEF WorkerSleep, WorkerMustWait, MoreToConsume, counters
  <2>2. \A u \in Threads : pc'[u] = "signal" <=> pc[u] = "signal"
    BY <1>0, <1>6 DEF WorkerSleep, Goto
  <2>3. Sig' = Sig
    BY <2>2 DEF Signalling, Threads
  <2> QED BY <1>a, <2>1, <2>3
<1>7. ASSUME NEW m \in Masters, Produce(m) \/ MasterSignal(m)
      PROVE  /\ is_empty' # {} => item_to_consume' < total_items
             /\ Cardinality(is_full') <=
                  total_items - item_to_consume' + Cardinality(Sig')
  <2>1. is_full' = is_full /\ is_empty' \subseteq is_empty /\ UNCHANGED item_to_consume
    BY <1>7, SignalWakes DEF Produce, MasterSignal, WokenByMaster, counters
  <2>2. \A w \in Workers : pc'[w] = pc[w]
    BY <1>0, <1>7 DEF Produce, MasterSignal, Goto, Threads
  <2>3. Sig' = Sig
    BY <2>2 DEF Signalling
  <2> QED BY <1>2, <2>1, <2>3
<1>8. ASSUME NEW w \in Workers, Consume(w)
      PROVE  /\ is_empty' # {} => item_to_consume' < total_items
             /\ Cardinality(is_full') <=
                  total_items - item_to_consume' + Cardinality(Sig')
  <2>1. /\ pc[w] = "test" /\ pc' = [pc EXCEPT ![w] = "signal"]
        /\ item_to_consume' = item_to_consume + 1 /\ UNCHANGED <<is_full, is_empty>>
    BY <1>8 DEF Consume, Goto
  <2>2. w \notin Sig /\ Sig' = Sig \cup {w}
    BY <1>0, <2>1 DEF Signalling, Threads
  <2>3. Cardinality(Sig') = Cardinality(Sig) + 1
    BY <2>2, SignallingCounts
  <2>4. W = {w}
    BY <1>0, <2>1, OnlyWorker DEF OneWorker, CreatedInv, W, Threads
  <2>5. is_empty = {}
    BY <1>0, <1>c, <2>1, <2>4 DEF ControlInv
  <2> HIDE DEF Sig
  <2> QED BY <1>0, <1>a, <1>c, <2>1, <2>3, <2>5
<1>9. ASSUME NEW w \in Workers, WorkerSignal(w)
      PROVE  /\ is_empty' # {} => item_to_consume' < total_items
             /\ Cardinality(is_full') <=
                  total_items - item_to_consume' + Cardinality(Sig')
  <2>1. /\ pc[w] = "signal" /\ pc' = [pc EXCEPT ![w] = "check"]
        /\ is_full' \in CondSignal(is_full) /\ UNCHANGED <<item_to_consume, is_empty>>
    BY <1>9 DEF WorkerSignal, WokenByWorker, Goto, counters
  <2>2. w \in Sig /\ Sig' = Sig \ {w}
    BY <1>0, <2>1 DEF Signalling, Threads
  <2>3. Cardinality(Sig') = Cardinality(Sig) - 1 /\ Cardinality(Sig') \in Nat
    <3>1. Cardinality(Sig') = Cardinality(Sig) - 1
      BY <2>2, SignallingCounts
    <3> QED BY <1>d, <3>1
  <2>4. CASE is_full = {}
    <3>1. Cardinality(is_full') = 0
      BY <2>1, <2>4, SignalWakes, FS_EmptySet
    <3>2. item_to_consume <= total_items
      <4>1. Cardinality(Past(Workers)) \in Nat
        BY PastCounts DEF Threads
      <4> QED BY <1>0, <4>1 DEF IInv, Overruns, OneWorker
    <3> HIDE DEF Sig
    <3> QED BY <1>0, <1>a, <2>1, <2>3, <3>1, <3>2
  <2>5. CASE is_full # {}
    <3>1. PICK m \in is_full : is_full' = is_full \ {m}
      BY <2>1, <2>5, SignalWakes
    <3>2. Cardinality(is_full') = Cardinality(is_full) - 1
      BY <1>c, <3>1, FS_RemoveElement
    <3> HIDE DEF Sig
    <3> QED BY <1>0, <1>a, <1>c, <2>1, <2>3, <3>2
  <2> QED BY <2>4, <2>5
<1> QED
  BY <1>3, <1>4, <1>5, <1>6, <1>7, <1>8, <1>9 DEF Next, Step, MasterStep, WorkerStep

(* At the start nobody sleeps. *)
LEMMA SleepersInit == Init => SleepersSignalled
<1> SUFFICES ASSUME Init PROVE SleepersSignalled
  OBVIOUS
<1>1. /\ is_empty = {} /\ is_full = {} /\ item_to_consume = 0
      /\ total_items \in Nat
  BY MWAssumption DEF Init
<1>2. Cardinality(is_full) = 0
  BY <1>1, FS_EmptySet
<1>3. Cardinality(Signalling(Workers)) \in Nat
  BY InitIInv, FullCounts DEF SleepersFinite
<1> QED BY <1>1, <1>2, <1>3 DEF SleepersSignalled

(* Nobody can go on only when all are done: the worker sleeps only while   *)
(* there is an item to take, and when it is done no master is asleep.      *)
LEMMA OneWorkerGoesOn == IInv /\ SleepersSignalled => NoDeadlockOneWorker
<1> SUFFICES ASSUME IInv, SleepersSignalled, OneWorker,
                    NEW u \in created, pc[u] # "done",
                    \A t \in created : ~CanStep(t)
             PROVE  FALSE
  BY DEF NoDeadlockOneWorker
<1> USE MWAssumption
<1>0. /\ TypeOK /\ ControlInv /\ CreatedInv /\ created \subseteq Threads
      /\ item_to_consume \in Nat /\ total_items \in Nat
  BY DEF IInv, TypeOK
<1>1. ~MoreToConsume
  BY ItemKeepsGoing DEF NoDeadlockBeforeLastItem
<1>2. is_empty = {}
  BY <1>1 DEF SleepersSignalled
<1>3. Signalling(Workers) = {}
  BY <1>0 DEF Signalling, CreatedInv, CanStep, Threads
<1>4. is_full = {}
  <2>1. Cardinality(Signalling(Workers)) = 0
    BY <1>3, FS_EmptySet
  <2>2. Cardinality(is_full) <= 0
    <3>1. Cardinality(is_full) \in Nat
      BY FullCounts DEF SleepersFinite
    <3> QED BY <1>0, <1>1, <2>1, <3>1 DEF SleepersSignalled, MoreToConsume
  <2>3. IsFiniteSet(is_full) /\ Cardinality(is_full) \in Nat
    BY FullCounts DEF SleepersFinite
  <2> QED BY <2>2, <2>3, FS_EmptySet
<1>5. ~Asleep(u) /\ pc[u] \notin {"none", "done"}
  BY <1>0, <1>2, <1>4 DEF Asleep, CreatedInv
<1> QED BY <1>0, <1>5, AwakeGoesOn

(* master-worker.c:126, "wait for all threads to complete": with one worker*)
(* and at most max_buf_size + 1 masters no thread is ever left asleep with *)
(* nobody to signal it (with two workers the program can hang).            *)
THEOREM OneWorkerNeverStuck == Spec => []NoDeadlockOneWorker
<1>1. Init => IInv /\ SleepersSignalled
  BY InitIInv, SleepersInit
<1>2. (IInv /\ SleepersSignalled) /\ [Next]_vars => (IInv /\ SleepersSignalled)'
  BY NextIInv, SleepersStep
<1> QED BY <1>1, <1>2, OneWorkerGoesOn, PTL DEF Spec
=============================================================================
