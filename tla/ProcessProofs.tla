--------------------------- MODULE ProcessProofs ----------------------------
(***************************************************************************)
(* Proofs about the two programs made of processes, ShmRing and Shell; the *)
(* variables of the one have nothing to do with those of the other.        *)
(*                                                                         *)
(* ShmRing, for any number of slots and of items up to two rounds of the   *)
(* ring: the inductive invariant follows each item.  The items sent and    *)
(* not yet read are in the fifo in order and lie in their slots, one may   *)
(* be in the consumer's hand and one in the producer's, and every other    *)
(* slot is free, which is what the producer's spinning tests.              *)
(*                                                                         *)
(* Shell, for any process numbers, any size of the table and any lines: to *)
(* know that the table's index counts the background children, one needs   *)
(* that no other child is a zombie when the table is reaped, and to know   *)
(* that exit kills them all, what is left of the table while it does so.   *)
(***************************************************************************)
EXTENDS ShmRing, Shell, FiniteSetTheorems, SequenceTheorems, TLAPS

Contents == 0 .. ITEMS - 1 \cup {Free, Zeros}

(* The slot of an item; the ring is used at most twice. *)
SlotOf(j) == IF j < SLOTS THEN j ELSE j - SLOTS

(* What is true before the two processes meet in the fifo. *)
Phases ==
  /\ producer \in {"start", "fill", "open"} =>
       /\ produced = 0 /\ put = 0
       /\ consumer \in {"start", "open", "killed"}
  /\ consumer \in {"start", "open"} =>
       consumed = 0 /\ printed = <<>> /\ got = -1 /\ fifo = <<>>
  /\ producer \notin {"start", "killed"} => shm_size = SLOTS
  /\ consumer \in {"loop", "free"} => shm_size = SLOTS
  /\ producer = "open" => \A s \in Slots : slot[s] = Free

(* Where the producer puts its next item. *)
PutInv ==
  /\ producer = "loop" => put = IF produced <= SLOTS THEN produced ELSE produced - SLOTS
  /\ producer = "send" => produced < ITEMS /\ put = SlotOf(produced)
  /\ producer = "done" => produced = ITEMS

(* The consumer took a number out of the fifo for each item it printed,    *)
(* until the fifo of a killed producer was empty.                          *)
Counting ==
  /\ printed \in Seq(Contents)
  /\ consumer = "loop" => Len(printed) = consumed
  /\ consumer = "free" => Len(printed) = consumed + 1 /\ consumed < ITEMS /\ got \in Slots
  /\ Len(printed) <= produced => Len(fifo) = produced - Len(printed)
  /\ Len(printed) > produced => fifo = <<>> /\ producer = "killed"
  /\ \A k \in 1 .. Len(fifo) : fifo[k] = SlotOf(Len(printed) + k - 1)

(* Whose item lies in each slot while the consumer runs. *)
Unread == Len(printed) .. produced - 1
ReadLast(s) == consumer = "free" /\ s = got
Unsent(s) ==
  /\ producer \in {"send", "killed"} /\ produced < ITEMS
  /\ s = SlotOf(produced) /\ slot[s] = produced

SlotInv == consumer \in {"loop", "free"} =>
  /\ \A j \in Unread : slot[SlotOf(j)] = j
  /\ producer = "send" => slot[put] = produced
  /\ consumer = "free" /\ Len(printed) <= produced => slot[got] = Len(printed) - 1
  /\ \A s \in Slots : \/ slot[s] = Free
                      \/ \E j \in Unread : s = SlotOf(j)
                      \/ ReadLast(s) \/ Unsent(s)

PrintedInv == \A k \in 1 .. Len(printed) :
  IF k <= produced THEN printed[k] = k - 1 ELSE printed[k] \in {Free, produced}

RingIInv == TypeOK /\ Phases /\ PutInv /\ Counting /\ SlotInv /\ PrintedInv

-----------------------------------------------------------------------------
(* The slots of the items of two rounds. *)
LEMMA SlotOfType ==
  /\ \A j \in 0 .. ITEMS - 1 : SlotOf(j) \in Slots
  /\ SLOTS \in Nat \ {0} /\ ITEMS \in Nat
BY RingAssumption DEF SlotOf, Slots

(* itr of the producer names the slot of the next item. *)
LEMMA NextPutSlot ==
  ASSUME TypeOK, PutInv, producer = "loop", MoreToPut
  PROVE  NextPut = SlotOf(produced) /\ produced \in 0 .. ITEMS - 1
BY RingAssumption DEF TypeOK, PutInv, MoreToPut, NextPut, SlotOf

(* Appending to a sequence. *)
LEMMA Appending ==
  ASSUME NEW S, NEW q \in Seq(S), NEW x \in S
  PROVE  /\ Append(q, x) \in Seq(S)
         /\ Len(Append(q, x)) = Len(q) + 1
         /\ \A k \in 1 .. Len(q) : Append(q, x)[k] = q[k]
         /\ Append(q, x)[Len(q) + 1] = x
BY AppendProperties

(* Taking the first element off a sequence. *)
LEMMA Taking ==
  ASSUME NEW S, NEW q \in Seq(S), q # <<>>
  PROVE  /\ Tail(q) \in Seq(S) /\ Head(q) = q[1]
         /\ Len(q) >= 1 /\ Len(Tail(q)) = Len(q) - 1
         /\ \A k \in 1 .. Len(q) - 1 : Tail(q)[k] = q[k + 1]
<1>1. Len(q) \in Nat /\ Len(q) # 0
  BY EmptySeq, LenProperties
<1>2. Len(Tail(q)) = Len(q) - 1 /\ Tail(q) \in Seq(S) /\ Head(q) = q[1]
  BY <1>1, HeadTailProperties
<1>3. \A k \in 1 .. Len(q) - 1 : Tail(q)[k] = q[k + 1]
  BY <1>1, <1>2, HeadTailProperties
<1> QED BY <1>1, <1>2, <1>3

(* The numbers of the variables. *)
LEMMA Sizes ==
  ASSUME TypeOK, Counting
  PROVE  /\ produced \in Nat /\ consumed \in Nat /\ Len(printed) \in Nat
         /\ Len(fifo) \in Nat /\ produced <= ITEMS /\ Len(printed) <= ITEMS
         /\ fifo # <<>> <=> Len(fifo) # 0
BY SlotOfType, LenProperties, EmptySeq DEF TypeOK, Counting

(* What the consumer takes: the next item, or when the producer was killed *)
(* and nothing is left, whatever lies in the slot it read last.            *)
LEMMA TakeCases ==
  ASSUME RingIInv, TakeNumber
  PROVE  \/ /\ fifo # <<>> /\ Len(printed) < produced
            /\ got' = SlotOf(Len(printed)) /\ got' \in Slots
            /\ slot[got'] = Len(printed)
            /\ fifo' = Tail(fifo) /\ consumer' = "free"
            /\ printed' = Append(printed, slot[got'])
         \/ /\ fifo = <<>> /\ producer = "killed" /\ Len(printed) >= produced
            /\ got' \in Slots /\ slot[got'] \in {Free, produced} /\ slot[got'] \in Contents
            /\ fifo' = fifo /\ consumer' = "free"
            /\ printed' = Append(printed, slot[got'])
         \/ /\ fifo = <<>> /\ producer = "killed" /\ Len(printed) >= produced
            /\ got' = -1 /\ fifo' = fifo /\ consumer' = "crashed" /\ printed' = printed
<1> USE SlotOfType DEF RingIInv
<1>0. consumer = "loop" /\ consumed < ITEMS /\ Len(printed) = consumed
  BY DEF TakeNumber, Counting
<1>1. CASE fifo # <<>>
  <2>1. Len(printed) < produced /\ Len(fifo) >= 1
    BY <1>1, Sizes DEF Counting
  <2>2. Head(fifo) = fifo[1]
    BY <1>1, Taking DEF TypeOK
  <2>3. fifo[1] = SlotOf(Len(printed))
    BY <2>1, Sizes DEF Counting
  <2>4. got' = SlotOf(Len(printed))
    BY <1>1, <2>2, <2>3 DEF TakeNumber
  <2>5. Len(printed) \in 0 .. ITEMS - 1 /\ Len(printed) \in Unread
    BY <2>1, Sizes DEF Unread
  <2>6. got' \in Slots /\ slot[got'] = Len(printed)
    BY <1>0, <2>4, <2>5 DEF SlotInv
  <2>7. got' # -1
    BY <2>6 DEF Slots
  <2> QED BY <1>1, <2>1, <2>4, <2>6, <2>7 DEF TakeNumber
<1>2. CASE fifo = <<>>
  <2>1. producer \in {"done", "killed"} /\ fifo' = fifo
    BY <1>2 DEF TakeNumber, EndOfFifo
  <2>2. Len(fifo) = 0
    BY <1>2
  <2>3. Len(printed) >= produced
    BY <2>2, Sizes DEF Counting
  <2>4. producer = "killed"
    BY <1>0, <2>1, <2>3, Sizes DEF PutInv
  <2>5. got' \in Slots \cup {-1}
    BY <1>2 DEF TakeNumber, TypeOK
  <2>6. ASSUME NEW s \in Slots PROVE slot[s] \in {Free, produced} /\ slot[s] \in Contents
    <3>1. Unread = {} /\ ~ReadLast(s)
      BY <1>0, <2>3, Sizes DEF Unread, ReadLast
    <3> QED BY <1>0, <3>1 DEF SlotInv, Unsent, TypeOK, Contents
  <2>7. CASE got' = -1
    BY <1>2, <2>1, <2>3, <2>4, <2>7 DEF TakeNumber
  <2>8. CASE got' \in Slots
    <3>1. got' # -1
      BY <2>8 DEF Slots
    <3> QED BY <1>2, <2>1, <2>3, <2>4, <2>6, <2>8, <3>1 DEF TakeNumber
  <2> QED BY <2>5, <2>7, <2>8
<1> QED BY <1>1, <1>2

-----------------------------------------------------------------------------
(* The type invariant. *)
LEMMA TypeStep == RingIInv /\ [Next]_vars => TypeOK'
<1> SUFFICES ASSUME RingIInv, [Next]_vars PROVE TypeOK'
  OBVIOUS
<1> USE SlotOfType DEF RingIInv
<1>1. CASE UNCHANGED vars
  BY <1>1 DEF TypeOK, vars, memory, prod, cons
<1>2. CASE SizeMemory \/ ProducerDone \/ KillProducer
  BY <1>2 DEF SizeMemory, ProducerDone, KillProducer, TypeOK, memory, prod, cons
<1>3. CASE ConsumerMaps \/ ConsumerDone \/ KillConsumer \/ OpenFifo
  BY <1>3 DEF ConsumerMaps, ConsumerDone, KillConsumer, OpenFifo, TypeOK, memory, prod, cons
<1>4. CASE FillSlots
  BY <1>4 DEF FillSlots, TypeOK, memory, prod, cons
<1>5. CASE Put
  <2>1. NextPut = SlotOf(produced) /\ produced \in 0 .. ITEMS - 1
    BY <1>5, NextPutSlot DEF Put
  <2>2. NextPut \in 0 .. SLOTS
    BY <2>1 DEF Slots
  <2>3. slot' \in [Slots -> 0 .. ITEMS - 1 \cup {Free, Zeros}]
    BY <1>5, <2>1 DEF Put, TypeOK
  <2> QED BY <1>5, <2>2, <2>3 DEF Put, TypeOK, cons
<1>6. CASE SendSlot
  <2>1. CASE consumer \in {"loop", "free"}
    <3>1. put = SlotOf(produced) /\ produced \in 0 .. ITEMS - 1
      BY <1>6, Sizes DEF SendSlot, PutInv
    <3>2. put \in Slots /\ put + 1 \in 0 .. SLOTS
      BY <3>1 DEF Slots
    <3>3. fifo' = Append(fifo, put) /\ produced' = produced + 1
      BY <1>6, <2>1 DEF SendSlot
    <3>4. Len(printed) <= produced
      BY <1>6, Sizes DEF SendSlot, Counting
    <3>5. Len(fifo) <= produced
      BY <3>4, Sizes DEF Counting
    <3>6. fifo' \in Seq(Slots) /\ Len(fifo') = Len(fifo) + 1
      BY <3>2, <3>3, Appending DEF TypeOK
    <3>7. Len(fifo') <= ITEMS
      BY <3>1, <3>5, <3>6, Sizes
    <3> QED BY <1>6, <2>1, <3>1, <3>2, <3>3, <3>6, <3>7 DEF SendSlot, TypeOK, memory, cons
  <2>2. CASE consumer \notin {"loop", "free"}
    BY <1>6, <2>2 DEF SendSlot, TypeOK, memory, cons
  <2> QED BY <2>1, <2>2
<1>7. CASE TakeNumber
  <2>0. UNCHANGED <<memory, prod, consumed>> /\ consumed < ITEMS /\ Len(printed) = consumed
    BY <1>7 DEF TakeNumber, Counting
  <2>1. fifo' \in Seq(Slots) /\ Len(fifo') <= ITEMS
    <3>1. CASE fifo' = fifo
      BY <3>1 DEF TypeOK
    <3>2. CASE fifo # <<>> /\ fifo' = Tail(fifo)
      BY <3>2, Taking, Sizes DEF TypeOK
    <3> QED BY <1>7, <3>1, <3>2, TakeCases
  <2>2. Len(printed') <= ITEMS
    <3>1. CASE printed' = printed
      BY <3>1 DEF TypeOK
    <3>2. CASE printed' = Append(printed, slot[got']) /\ got' \in Slots
      <4>1. slot[got'] \in Contents /\ printed \in Seq(Contents)
        BY <3>2 DEF TypeOK, Contents, Counting
      <4>2. Len(printed') = Len(printed) + 1
        BY <3>2, <4>1, Appending
      <4> QED BY <2>0, <4>2, Sizes
    <3> QED BY <1>7, <3>1, <3>2, TakeCases
  <2>3. got' \in Slots \cup {-1} /\ consumer' \in {"free", "crashed"}
    BY <1>7, TakeCases
  <2> QED BY <2>0, <2>1, <2>2, <2>3 DEF TypeOK, memory, prod
<1>8. CASE FreeSlot
  <2>1. consumed' \in 0 .. ITEMS
    BY <1>8, Sizes DEF FreeSlot, Counting
  <2>2. slot' \in [Slots -> 0 .. ITEMS - 1 \cup {Free, Zeros}]
    BY <1>8 DEF FreeSlot, TypeOK
  <2> QED BY <1>8, <2>1, <2>2 DEF FreeSlot, TypeOK, prod
<1> QED
  BY <1>1, <1>2, <1>3, <1>4, <1>5, <1>6, <1>7, <1>8 DEF Next, Producer, Consumer

(* Before and after the processes meet. *)
LEMMA PhasesStep == RingIInv /\ [Next]_vars => Phases'
<1> SUFFICES ASSUME RingIInv, [Next]_vars PROVE Phases'
  OBVIOUS
<1> USE DEF RingIInv
<1>1. CASE UNCHANGED vars
  BY <1>1 DEF Phases, vars, memory, prod, cons
<1>2. CASE SizeMemory \/ ProducerDone \/ KillProducer
  BY <1>2 DEF SizeMemory, ProducerDone, KillProducer, Phases, memory, prod, cons
<1>3. CASE ConsumerMaps \/ ConsumerDone \/ KillConsumer \/ OpenFifo
  BY <1>3 DEF ConsumerMaps, ConsumerDone, KillConsumer, OpenFifo, Phases, memory, prod, cons
<1>4. CASE FillSlots
  BY <1>4 DEF FillSlots, Phases, memory, prod, cons
<1>5. CASE Put
  BY <1>5 DEF Put, Phases, cons
<1>6. CASE SendSlot
  BY <1>6 DEF SendSlot, Phases, memory, cons
<1>7. CASE TakeNumber
  <2>1. consumer' \in {"free", "crashed"}
    BY <1>7, TakeCases
  <2>2. UNCHANGED <<memory, prod>> /\ consumer = "loop"
    BY <1>7 DEF TakeNumber
  <2> QED BY <2>1, <2>2 DEF Phases, memory, prod
<1>8. CASE FreeSlot
  BY <1>8 DEF FreeSlot, Phases, prod
<1> QED
  BY <1>1, <1>2, <1>3, <1>4, <1>5, <1>6, <1>7, <1>8 DEF Next, Producer, Consumer

(* The producer's position. *)
LEMMA PutStep == RingIInv /\ [Next]_vars => PutInv'
<1> SUFFICES ASSUME RingIInv, [Next]_vars PROVE PutInv'
  OBVIOUS
<1> USE RingAssumption DEF RingIInv
<1>0. produced \in 0 .. ITEMS /\ ITEMS \in Nat
  BY SlotOfType DEF TypeOK
<1>1. CASE UNCHANGED prod
  BY <1>1 DEF PutInv, prod, SlotOf
<1>2. CASE UNCHANGED <<produced, put>> /\ producer' \in {"fill", "open", "killed"}
  BY <1>2 DEF PutInv
<1>3. CASE ProducerDone
  BY <1>0, <1>3 DEF ProducerDone, MoreToPut, PutInv
<1>4. CASE OpenFifo
  BY <1>4, SlotOfType DEF OpenFifo, PutInv, Phases
<1>5. CASE Put
  <2>1. NextPut = SlotOf(produced) /\ produced \in 0 .. ITEMS - 1
    BY <1>5, NextPutSlot DEF Put
  <2>2. put' = SlotOf(produced) /\ UNCHANGED produced /\ producer' = "send"
    BY <1>5, <2>1 DEF Put
  <2> QED BY <1>0, <2>1, <2>2 DEF PutInv, SlotOf
<1>6. CASE SendSlot
  <2>1. CASE consumer \in {"loop", "free"}
    <3>1. produced < ITEMS /\ put = SlotOf(produced)
      BY <1>6 DEF SendSlot, PutInv
    <3>2. produced' = produced + 1 /\ put' = put + 1 /\ producer' = "loop"
      BY <1>6, <2>1 DEF SendSlot
    <3> QED BY <1>0, <3>1, <3>2 DEF PutInv, SlotOf
  <2>2. CASE consumer \notin {"loop", "free"}
    BY <1>2, <1>6, <2>2 DEF SendSlot
  <2> QED BY <2>1, <2>2
<1>7. CASE SizeMemory \/ FillSlots \/ KillProducer
  BY <1>2, <1>7 DEF SizeMemory, FillSlots, KillProducer
<1>8. CASE ConsumerMaps \/ TakeNumber \/ FreeSlot \/ ConsumerDone \/ KillConsumer \/ UNCHANGED vars
  BY <1>1, <1>8 DEF ConsumerMaps, TakeNumber, FreeSlot, ConsumerDone, KillConsumer, vars
<1> QED
  BY <1>3, <1>4, <1>5, <1>6, <1>7, <1>8 DEF Next, Producer, Consumer

-----------------------------------------------------------------------------
(* Every number in the fifo is taken once, for one item. *)
LEMMA CountingStep == RingIInv /\ [Next]_vars => Counting'
<1> SUFFICES ASSUME RingIInv, [Next]_vars PROVE Counting'
  OBVIOUS
<1> USE SlotOfType DEF RingIInv
(* The moves that change neither the fifo nor what was printed. *)
<1>1. ASSUME UNCHANGED <<fifo, produced, printed>>,
             producer = "killed" => producer' = "killed",
             consumer' = "loop" => Len(printed) = consumed',
             consumer' = "free" =>
               Len(printed) = consumed' + 1 /\ consumed' < ITEMS /\ got' \in Slots
      PROVE  Counting'
  BY <1>1 DEF Counting, SlotOf
<1>2. CASE UNCHANGED vars
  BY <1>1, <1>2 DEF vars, prod, cons, Counting
<1>3. CASE SizeMemory \/ FillSlots \/ Put \/ ProducerDone \/ KillProducer
  BY <1>1, <1>3
  DEF SizeMemory, FillSlots, Put, ProducerDone, KillProducer, cons, Counting
<1>4. CASE ConsumerMaps \/ ConsumerDone \/ KillConsumer
  BY <1>1, <1>4 DEF ConsumerMaps, ConsumerDone, KillConsumer, prod
<1>5. CASE OpenFifo
  <2>1. Len(printed) = 0 /\ consumed = 0
    BY <1>5 DEF OpenFifo, Phases
  <2> QED BY <1>1, <1>5, <2>1 DEF OpenFifo
<1>6. CASE SendSlot
  <2>1. CASE consumer \in {"loop", "free"}
    <3>1. Len(printed) <= produced /\ put = SlotOf(produced) /\ produced \in 0 .. ITEMS - 1
      BY <1>6, Sizes DEF SendSlot, Counting, PutInv
    <3>2. Len(fifo) = produced - Len(printed)
      BY <3>1 DEF Counting
    <3>3. /\ fifo' = Append(fifo, put) /\ produced' = produced + 1 /\ UNCHANGED cons
          /\ put \in Slots
      BY <1>6, <2>1, <3>1 DEF SendSlot
    <3>4. /\ Len(fifo') = Len(fifo) + 1 /\ fifo'[Len(fifo) + 1] = put
          /\ \A k \in 1 .. Len(fifo) : fifo'[k] = fifo[k]
      BY <3>3, Appending DEF TypeOK
    <3>5. ASSUME NEW k \in 1 .. Len(fifo') PROVE fifo'[k] = SlotOf(Len(printed) + k - 1)
      <4>1. CASE k \in 1 .. Len(fifo)
        BY <3>4, <4>1 DEF Counting
      <4>2. CASE k = Len(fifo) + 1
        <5>1. Len(printed) + k - 1 = produced
          BY <3>2, <4>2, Sizes
        <5> QED BY <3>1, <3>4, <4>2, <5>1
      <4> QED BY <3>4, <4>1, <4>2, Sizes
    <3>6. Len(fifo') = produced' - Len(printed) /\ Len(printed) <= produced'
      BY <3>1, <3>2, <3>3, <3>4, Sizes
    <3> QED BY <2>1, <3>1, <3>3, <3>5, <3>6, Sizes DEF Counting, cons, SlotOf
  <2>2. CASE consumer \notin {"loop", "free"}
    BY <1>1, <1>6, <2>2 DEF SendSlot, cons
  <2> QED BY <2>1, <2>2
<1>7. CASE TakeNumber
  <2>0. UNCHANGED <<producer, produced, consumed>> /\ consumed < ITEMS /\ Len(printed) = consumed
    BY <1>7 DEF TakeNumber, Counting, prod
  <2>1. CASE printed' = printed /\ fifo' = fifo /\ consumer' = "crashed"
    BY <1>1, <2>0, <2>1
  <2>2. CASE printed' = Append(printed, slot[got']) /\ got' \in Slots /\ consumer' = "free"
    <3>1. slot[got'] \in Contents /\ printed \in Seq(Contents)
      BY <2>2 DEF TypeOK, Contents, Counting
    <3>2. printed' \in Seq(Contents) /\ Len(printed') = Len(printed) + 1
      BY <2>2, <3>1, Appending
    <3>3. CASE fifo # <<>> /\ fifo' = Tail(fifo) /\ Len(printed) < produced
      <4>1. /\ Len(fifo') = Len(fifo) - 1
            /\ \A k \in 1 .. Len(fifo) - 1 : fifo'[k] = fifo[k + 1]
        BY <3>3, Taking DEF TypeOK
      <4>2. Len(fifo) = produced - Len(printed)
        BY <3>3, Sizes DEF Counting
      <4>3. ASSUME NEW k \in 1 .. Len(fifo') PROVE fifo'[k] = SlotOf(Len(printed') + k - 1)
        <5>1. k + 1 \in 1 .. Len(fifo) /\ k \in 1 .. Len(fifo) - 1
          BY <4>1, Sizes
        <5>2. fifo[k + 1] = SlotOf(Len(printed) + (k + 1) - 1)
          BY <5>1 DEF Counting
        <5>3. Len(printed) + (k + 1) - 1 = Len(printed') + k - 1
          BY <3>2, <5>1, Sizes
        <5> QED BY <4>1, <5>1, <5>2, <5>3
      <4>4. Len(printed') <= produced /\ Len(fifo') = produced - Len(printed')
        BY <3>2, <3>3, <4>1, <4>2, Sizes
      <4> QED BY <2>0, <2>2, <3>2, <4>3, <4>4, Sizes DEF Counting, SlotOf
    <3>4. CASE fifo = <<>> /\ producer = "killed" /\ Len(printed) >= produced /\ fifo' = fifo
      <4>1. Len(printed') > produced /\ Len(fifo') = 0
        BY <3>2, <3>4, Sizes
      <4> QED BY <2>0, <2>2, <3>2, <3>4, <4>1, Sizes DEF Counting, SlotOf
    <3> QED BY <1>7, <2>2, <3>3, <3>4, TakeCases
  <2> QED BY <1>7, <2>1, <2>2, TakeCases
<1>8. CASE FreeSlot
  BY <1>1, <1>8, Sizes DEF FreeSlot, prod, Counting
<1> QED
  BY <1>2, <1>3, <1>4, <1>5, <1>6, <1>7, <1>8 DEF Next, Producer, Consumer

(* No slot is refilled before its item was read, nor freed while its item  *)
(* is unread. *)
LEMMA SlotStep == RingIInv /\ [Next]_vars => SlotInv'
<1> SUFFICES ASSUME RingIInv, [Next]_vars, consumer' \in {"loop", "free"}
             PROVE  /\ \A j \in Unread' : slot'[SlotOf(j)] = j
                    /\ producer' = "send" => slot'[put'] = produced'
                    /\ consumer' = "free" /\ Len(printed') <= produced' =>
                         slot'[got'] = Len(printed') - 1
                    /\ \A s \in Slots : \/ slot'[s] = Free
                                        \/ \E j \in Unread' : s = SlotOf(j)
                                        \/ ReadLast(s)' \/ Unsent(s)'
  BY DEF SlotInv, SlotOf
<1> DEFINE Good ==
      /\ \A j \in Unread' : slot'[SlotOf(j)] = j
      /\ producer' = "send" => slot'[put'] = produced'
      /\ consumer' = "free" /\ Len(printed') <= produced' => slot'[got'] = Len(printed') - 1
      /\ \A s \in Slots : \/ slot'[s] = Free
                          \/ \E j \in Unread' : s = SlotOf(j)
                          \/ ReadLast(s)' \/ Unsent(s)'
<1> USE SlotOfType DEF RingIInv
(* The moves that touch neither the slots, nor the fifo, nor the counts.   *)
<1>1. ASSUME UNCHANGED <<slot, fifo, produced, put, consumer, got, printed>>,
             producer' \notin {"killed"} => producer \notin {"send"} /\ producer' # "send",
             producer \in {"send", "killed"} => producer' = "killed"
      PROVE  Good
  BY <1>1 DEF SlotInv, Unread, ReadLast, Unsent, SlotOf
<1>2. CASE UNCHANGED vars
  BY <1>2 DEF vars, memory, prod, cons, SlotInv, Unread, ReadLast, Unsent, SlotOf
<1>3. CASE SizeMemory \/ FillSlots
  BY <1>3 DEF SizeMemory, FillSlots, Phases, cons
<1>4. CASE ProducerDone \/ KillProducer
  BY <1>1, <1>4 DEF ProducerDone, KillProducer, memory, cons
<1>5. CASE ConsumerMaps \/ ConsumerDone \/ KillConsumer
  BY <1>5 DEF ConsumerMaps, ConsumerDone, KillConsumer
<1>6. CASE OpenFifo
  <2>1. /\ UNCHANGED <<slot, produced, printed>> /\ producer' = "loop" /\ consumer' = "loop"
        /\ printed = <<>> /\ produced = 0 /\ \A s \in Slots : slot[s] = Free
    BY <1>6 DEF OpenFifo, Phases, memory
  <2>2. Unread' = {}
    BY <2>1 DEF Unread
  <2> QED BY <2>1, <2>2
<1>7. CASE Put
  <2>1. NextPut = SlotOf(produced) /\ produced \in 0 .. ITEMS - 1 /\ SlotOf(produced) \in Slots
    BY <1>7, NextPutSlot DEF Put
  <2>2. /\ slot' = [slot EXCEPT ![SlotOf(produced)] = produced] /\ put' = SlotOf(produced)
        /\ producer' = "send" /\ producer = "loop"
        /\ UNCHANGED <<fifo, produced, consumer, consumed, got, printed>>
        /\ slot[SlotOf(produced)] = Free
    BY <1>7, <2>1 DEF Put, SlotIsFree, cons
  <2>3. Unread' = Unread /\ consumer \in {"loop", "free"}
    BY <2>2 DEF Unread
  <2>4. ASSUME NEW j \in Unread PROVE slot'[SlotOf(j)] = j
    <3>1. slot[SlotOf(j)] = j /\ j # Free
      BY <2>3, RingAssumption, Sizes DEF SlotInv, Unread
    <3>2. SlotOf(j) # SlotOf(produced) /\ SlotOf(j) \in Slots
      BY <2>2, <3>1, Sizes DEF Unread
    <3> QED BY <2>2, <3>1, <3>2 DEF TypeOK
  <2>5. slot'[put'] = produced'
    BY <2>1, <2>2 DEF TypeOK
  <2>6. consumer' = "free" /\ Len(printed') <= produced' => slot'[got'] = Len(printed') - 1
    <3> SUFFICES ASSUME consumer = "free", Len(printed) <= produced
                 PROVE  slot'[got] = Len(printed) - 1
      BY <2>2
    <3>1. slot[got] = Len(printed) - 1 /\ got \in Slots
      BY <2>3 DEF SlotInv, Counting
    <3>2. got # SlotOf(produced)
      BY <2>2, <3>1, RingAssumption, Sizes
    <3> QED BY <2>2, <3>1, <3>2 DEF TypeOK
  <2>7. ASSUME NEW s \in Slots
        PROVE  \/ slot'[s] = Free \/ (\E j \in Unread' : s = SlotOf(j))
               \/ ReadLast(s)' \/ Unsent(s)'
    <3>1. CASE s = SlotOf(produced)
      BY <2>1, <2>2, <3>1 DEF Unsent, TypeOK, SlotOf
    <3>2. CASE s # SlotOf(produced)
      <4>1. slot'[s] = slot[s]
        BY <2>2, <3>2 DEF TypeOK
      <4>2. \/ slot[s] = Free \/ (\E j \in Unread : s = SlotOf(j)) \/ ReadLast(s)
        BY <2>2, <2>3 DEF SlotInv, Unsent
      <4> QED BY <2>2, <2>3, <4>1, <4>2 DEF ReadLast
    <3> QED BY <3>1, <3>2
  <2> QED BY <2>3, <2>4, <2>5, <2>6, <2>7
<1>8. CASE SendSlot
  <2>1. consumer \in {"loop", "free"} /\ producer = "send"
    BY <1>8 DEF SendSlot, cons
  <2>2. /\ produced' = produced + 1 /\ producer' = "loop"
        /\ UNCHANGED <<slot, consumer, consumed, got, printed>>
    BY <1>8, <2>1 DEF SendSlot, memory, cons
  <2>3. /\ Len(printed) <= produced /\ put = SlotOf(produced) /\ slot[put] = produced
        /\ produced < ITEMS
    BY <2>1, Sizes DEF Counting, PutInv, SlotInv
  <2>4. Unread' = Unread \cup {produced}
    BY <2>2, <2>3, Sizes DEF Unread
  <2>5. \A j \in Unread' : slot'[SlotOf(j)] = j
    BY <2>1, <2>2, <2>3, <2>4 DEF SlotInv
  <2>6. consumer' = "free" /\ Len(printed') <= produced' => slot'[got'] = Len(printed') - 1
    BY <2>1, <2>2, <2>3 DEF SlotInv
  <2>7. ASSUME NEW s \in Slots
        PROVE  slot'[s] = Free \/ (\E j \in Unread' : s = SlotOf(j)) \/ ReadLast(s)'
    BY <2>1, <2>2, <2>4 DEF SlotInv, ReadLast, Unsent
  <2> QED BY <2>2, <2>5, <2>6, <2>7
<1>9. CASE TakeNumber
  <2>0. /\ consumer = "loop" /\ UNCHANGED <<slot, producer, produced, put>>
        /\ printed \in Seq(Contents)
    BY <1>9 DEF TakeNumber, memory, prod, Counting
  <2>1. got' \in Slots /\ printed' = Append(printed, slot[got']) /\ consumer' = "free"
    BY <1>9, TakeCases
  <2>2. Len(printed') = Len(printed) + 1
    BY <2>0, <2>1, Appending DEF TypeOK, Contents
  <2>3. Unread' = Unread \ {Len(printed)}
    BY <2>0, <2>2, Sizes DEF Unread
  <2>4. \A j \in Unread' : slot'[SlotOf(j)] = j
    BY <2>0, <2>3 DEF SlotInv
  <2>5. producer' = "send" => slot'[put'] = produced'
    BY <2>0 DEF SlotInv
  <2>6. Len(printed') <= produced' =>
          slot'[got'] = Len(printed') - 1 /\ got' = SlotOf(Len(printed))
    <3> SUFFICES ASSUME Len(printed') <= produced'
                 PROVE  slot'[got'] = Len(printed') - 1 /\ got' = SlotOf(Len(printed))
      OBVIOUS
    <3>1. Len(printed) < produced
      BY <2>0, <2>2, Sizes
    <3>2. slot[got'] = Len(printed) /\ got' = SlotOf(Len(printed))
      BY <1>9, <3>1, TakeCases, Sizes
    <3> QED BY <2>0, <2>2, <3>2, Sizes
  <2>7. ASSUME NEW s \in Slots
        PROVE  \/ slot'[s] = Free \/ (\E j \in Unread' : s = SlotOf(j))
               \/ ReadLast(s)' \/ Unsent(s)'
    <3>1. \/ slot[s] = Free \/ (\E j \in Unread : s = SlotOf(j)) \/ Unsent(s)
      BY <2>0 DEF SlotInv, ReadLast
    <3>2. CASE \E j \in Unread : s = SlotOf(j)
      <4>1. PICK j \in Unread : s = SlotOf(j)
        BY <3>2
      <4>2. CASE j = Len(printed)
        <5>1. Len(printed') <= produced'
          BY <2>0, <2>2, <4>1, <4>2, Sizes DEF Unread
        <5> QED BY <2>1, <2>6, <4>1, <4>2, <5>1 DEF ReadLast
      <4>3. CASE j # Len(printed)
        BY <2>3, <4>1, <4>3
      <4> QED BY <4>2, <4>3
    <3>3. CASE slot[s] = Free \/ Unsent(s)
      BY <2>0, <3>3 DEF Unsent, SlotOf
    <3> QED BY <3>1, <3>2, <3>3
  <2> QED BY <2>1, <2>4, <2>5, <2>6, <2>7
<1>10. CASE FreeSlot
  <2>1. /\ consumer = "free" /\ slot' = [slot EXCEPT ![got] = Free] /\ consumer' = "loop"
        /\ UNCHANGED <<fifo, producer, produced, put, got, printed>> /\ got \in Slots
    BY <1>10 DEF FreeSlot, FreedSlot, prod, Counting
  <2>2. Unread' = Unread
    BY <2>1 DEF Unread
  <2>3. ASSUME NEW j \in Unread PROVE slot'[SlotOf(j)] = j
    <3>1. slot[SlotOf(j)] = j /\ Len(printed) <= produced /\ SlotOf(j) \in Slots
      BY <2>1, Sizes DEF SlotInv, Unread
    <3>2. slot[got] = Len(printed) - 1 /\ j >= Len(printed)
      BY <2>1, <3>1 DEF SlotInv, Unread
    <3>3. SlotOf(j) # got
      BY <3>1, <3>2, Sizes DEF Unread
    <3> QED BY <2>1, <3>1, <3>3 DEF TypeOK
  <2>4. producer' = "send" => slot'[put'] = produced'
    <3> SUFFICES ASSUME producer = "send" PROVE slot'[put] = produced
      BY <2>1
    <3>1. slot[put] = produced /\ put \in Slots /\ Len(printed) <= produced
      BY <2>1, Sizes DEF SlotInv, PutInv, Counting
    <3>2. slot[got] = Len(printed) - 1
      BY <2>1, <3>1 DEF SlotInv
    <3>3. put # got
      BY <3>1, <3>2, Sizes
    <3> QED BY <2>1, <3>1, <3>3 DEF TypeOK
  <2>5. ASSUME NEW s \in Slots
        PROVE  slot'[s] = Free \/ (\E j \in Unread' : s = SlotOf(j)) \/ Unsent(s)'
    <3>1. CASE s = got
      BY <2>1, <3>1 DEF TypeOK
    <3>2. CASE s # got
      <4>1. slot'[s] = slot[s]
        BY <2>1, <3>2 DEF TypeOK
      <4>2. slot[s] = Free \/ (\E j \in Unread : s = SlotOf(j)) \/ Unsent(s)
        BY <2>1, <3>2 DEF SlotInv, ReadLast
      <4> QED BY <2>1, <2>2, <4>1, <4>2 DEF Unsent, SlotOf
    <3> QED BY <3>1, <3>2
  <2> QED BY <2>1, <2>2, <2>3, <2>4, <2>5
<1> QED
  BY <1>2, <1>3, <1>4, <1>5, <1>6, <1>7, <1>8, <1>9, <1>10 DEF Next, Producer, Consumer

(* What the consumer found in the slots. *)
LEMMA PrintedStep == RingIInv /\ [Next]_vars => PrintedInv'
<1> SUFFICES ASSUME RingIInv, [Next]_vars PROVE PrintedInv'
  OBVIOUS
<1> USE DEF RingIInv
<1>1. CASE UNCHANGED <<printed, produced>>
  BY <1>1 DEF PrintedInv
<1>2. CASE SendSlot
  <2>1. CASE consumer \in {"loop", "free"}
    <3>1. Len(printed) <= produced /\ produced' = produced + 1 /\ UNCHANGED printed
      BY <1>2, <2>1, Sizes DEF SendSlot, Counting, cons
    <3> QED BY <3>1, Sizes DEF PrintedInv
  <2>2. CASE consumer \notin {"loop", "free"}
    BY <1>1, <1>2, <2>2 DEF SendSlot, cons
  <2> QED BY <2>1, <2>2
<1>3. CASE TakeNumber
  <2>1. UNCHANGED produced /\ printed \in Seq(Contents)
    BY <1>3 DEF TakeNumber, prod, Counting
  <2>2. CASE printed' = printed
    BY <1>1, <2>1, <2>2
  <2>3. CASE printed' = Append(printed, slot[got']) /\ got' \in Slots
    <3>1. /\ Len(printed') = Len(printed) + 1
          /\ printed'[Len(printed) + 1] = slot[got']
          /\ \A k \in 1 .. Len(printed) : printed'[k] = printed[k]
      BY <2>1, <2>3, Appending DEF TypeOK, Contents
    <3>2. IF Len(printed) + 1 <= produced THEN slot[got'] = Len(printed)
          ELSE slot[got'] \in {Free, produced}
      <4>1. CASE Len(printed) < produced /\ slot[got'] = Len(printed)
        BY <4>1, Sizes
      <4>2. CASE Len(printed) >= produced /\ slot[got'] \in {Free, produced}
        BY <4>2, Sizes
      <4> QED BY <1>3, <2>3, <4>1, <4>2, TakeCases
    <3>3. ASSUME NEW k \in 1 .. Len(printed')
          PROVE  IF k <= produced THEN printed'[k] = k - 1 ELSE printed'[k] \in {Free, produced}
      <4>1. CASE k \in 1 .. Len(printed)
        BY <3>1, <4>1 DEF PrintedInv
      <4>2. CASE k = Len(printed) + 1
        BY <3>1, <3>2, <4>2, Sizes
      <4> QED BY <3>1, <4>1, <4>2, Sizes
    <3> QED BY <2>1, <3>3 DEF PrintedInv
  <2> QED BY <1>3, <2>2, <2>3, TakeCases
<1> QED
  BY <1>1, <1>2, <1>3
  DEF Next, Producer, Consumer, SizeMemory, FillSlots, Put, ProducerDone, ConsumerMaps, FreeSlot,
    ConsumerDone, OpenFifo, KillProducer, KillConsumer, vars, prod, cons

-----------------------------------------------------------------------------
(* The initial state satisfies the invariant. *)
LEMMA InitIInv == Init => RingIInv
<1> SUFFICES ASSUME Init PROVE RingIInv
  OBVIOUS
<1>1. Len(printed) = 0 /\ Len(fifo) = 0 /\ printed \in Seq(Contents) /\ fifo \in Seq(Slots)
  BY DEF Init
<1>2. TypeOK
  <2>1. slot \in [Slots -> 0 .. ITEMS - 1 \cup {Free, Zeros}]
    BY DEF Init
  <2>2. 0 \in 0 .. ITEMS /\ 0 \in 0 .. SLOTS
    BY SlotOfType
  <2> QED BY <1>1, <2>1, <2>2, SlotOfType DEF Init, TypeOK
<1>3. Phases /\ PutInv
  BY DEF Init, Phases, PutInv
<1>4. Counting /\ SlotInv /\ PrintedInv
  <2>1. 1 .. Len(printed) = {} /\ 1 .. Len(fifo) = {}
    BY <1>1
  <2>2. consumer = "start" /\ produced = 0
    BY DEF Init
  <2>3. Counting
    BY <1>1, <2>1, <2>2 DEF Counting
  <2> QED BY <2>1, <2>2, <2>3 DEF SlotInv, PrintedInv
<1> QED BY <1>2, <1>3, <1>4 DEF RingIInv

LEMMA NextIInv == RingIInv /\ [Next]_vars => RingIInv'
BY TypeStep, PhasesStep, PutStep, CountingStep, SlotStep, PrintedStep DEF RingIInv

LEMMA Inductive == Spec => []RingIInv
BY InitIInv, NextIInv, PTL DEF Spec

(* Every variable keeps its type; the numbers that go through the fifo are *)
(* those of slots, and no count runs past the number of items.             *)
THEOREM TypeCorrect == Spec => []TypeOK
<1>1. RingIInv => TypeOK
  BY DEF RingIInv
<1> QED BY <1>1, Inductive, PTL

(* While both processes are at work the slots named in the fifo hold the   *)
(* unread items in order and all others are free, but for the one in       *)
(* either hand; the consumer touches the memory only when it was sized.    *)
THEOREM RingCorrect == Spec => []RingInv
<1>1. RingIInv => RingInv
  <2> SUFFICES ASSUME RingIInv PROVE RingInv
    OBVIOUS
  <2> USE DEF RingIInv
  <2>1. MemorySizedWhenUsed
    BY DEF Phases, MemorySizedWhenUsed
  <2>2. ASSUME producer \in {"loop", "send"}, consumer \in {"loop", "free"}
        PROVE  /\ \A k \in DOMAIN fifo : slot[fifo[k]] = produced - Len(fifo) + k - 1
               /\ \A s \in Slots :
                    slot[s] = Free \/ s \in InHand \/ \E k \in DOMAIN fifo : fifo[k] = s
    <3>1. /\ Len(printed) <= produced /\ Len(fifo) = produced - Len(printed)
          /\ DOMAIN fifo = 1 .. Len(fifo)
      BY <2>2, Sizes, LenProperties DEF Counting, TypeOK
    <3>2. ASSUME NEW k \in 1 .. Len(fifo)
          PROVE  slot[fifo[k]] = produced - Len(fifo) + k - 1
      <4>1. Len(printed) + k - 1 \in Unread
        BY <3>1, Sizes DEF Unread
      <4>2. fifo[k] = SlotOf(Len(printed) + k - 1)
        BY DEF Counting
      <4>3. slot[fifo[k]] = Len(printed) + k - 1
        BY <2>2, <4>1, <4>2 DEF SlotInv
      <4> QED BY <3>1, <4>3, Sizes
    <3>3. ASSUME NEW s \in Slots, slot[s] # Free, s \notin InHand
          PROVE  \E k \in 1 .. Len(fifo) : fifo[k] = s
      <4>1. ~ReadLast(s)
        BY <3>3 DEF ReadLast, InHand
      <4>2. ~Unsent(s)
        BY <2>2, <3>3 DEF Unsent, InHand, PutInv
      <4>3. PICK j \in Unread : s = SlotOf(j)
        BY <2>2, <3>3, <4>1, <4>2 DEF SlotInv
      <4>4. j - Len(printed) + 1 \in 1 .. Len(fifo)
        BY <3>1, Sizes DEF Unread
      <4>5. fifo[j - Len(printed) + 1] = SlotOf(Len(printed) + (j - Len(printed) + 1) - 1)
        BY <4>4 DEF Counting
      <4>6. Len(printed) + (j - Len(printed) + 1) - 1 = j
        BY Sizes DEF Unread
      <4> QED BY <4>3, <4>4, <4>5, <4>6
    <3> QED BY <3>1, <3>2, <3>3
  <2>3. FifoMatchesMemory
    BY <2>2 DEF FifoMatchesMemory
  <2> QED BY <2>1, <2>3 DEF RingInv
<1> QED BY <1>1, Inductive, PTL

(* The consumer finds the items in order, each once, although the producer *)
(* reuses the memory and learns that a slot is free only by looking        *)
(* (my_shm_posix_prod.c:54); only behind a killed producer does it go on   *)
(* with the slot it read last, which is free or holds the unsent item.     *)
THEOREM OrderCorrect == Spec => []ItemsInOrder
<1>1. RingIInv => ItemsInOrder
  <2> SUFFICES ASSUME RingIInv, NEW k \in DOMAIN printed
               PROVE  IF k <= produced \/ producer # "killed" THEN printed[k] = k - 1
                      ELSE printed[k] \in {Free, produced}
    BY DEF ItemsInOrder
  <2>1. k \in 1 .. Len(printed)
    BY LenProperties DEF RingIInv, Counting
  <2>2. producer # "killed" => k <= produced
    BY <2>1, Sizes DEF RingIInv, Counting
  <2> QED BY <2>1, <2>2 DEF RingIInv, PrintedInv
<1> QED BY <1>1, Inductive, PTL

-----------------------------------------------------------------------------
(* How the two programs end: they leave the open of the fifo together, and *)
(* the consumer is done only when it printed every item.                   *)
Ends ==
  /\ consumer \in {"start", "open"} => producer \in {"start", "fill", "open", "killed"}
  /\ consumer = "done" => Len(printed) = ITEMS
  /\ consumer = "crashed" => producer = "killed"

(* What the processes need for a step: the producer a free slot, the       *)
(* consumer a number or the end of the fifo, and its open both of them.    *)
ProducerCanStep ==
  \/ producer \in {"start", "fill", "send"}
  \/ producer = "loop" /\ (MoreToPut => SlotIsFree)
ConsumerCanStep ==
  \/ consumer \in {"start", "free"}
  \/ consumer = "loop" /\ (consumed < ITEMS => fifo # <<>> \/ EndOfFifo)
BothOpen == producer = "open" /\ consumer = "open"

(* Unless one of them is killed, one of the two can go on until both are   *)
(* done; and the consumer, once in its loop, always can when the producer  *)
(* was killed.                                                             *)
RingNeverStuck ==
  /\ /\ producer # "killed" /\ consumer # "killed"
     /\ producer # "done" \/ consumer # "done"
     => ProducerCanStep \/ ConsumerCanStep \/ BothOpen
  /\ producer = "killed" /\ consumer \in {"loop", "free"} => ConsumerCanStep

LEMMA EndsStep == RingIInv /\ Ends /\ [Next]_vars => Ends'
<1> SUFFICES ASSUME RingIInv, Ends, [Next]_vars PROVE Ends'
  OBVIOUS
<1> USE DEF Ends
<1>1. CASE UNCHANGED vars
  BY <1>1 DEF vars, prod, cons
<1>2. CASE SizeMemory \/ FillSlots \/ Put \/ SendSlot \/ ProducerDone \/ KillProducer
  BY <1>2 DEF SizeMemory, FillSlots, Put, SendSlot, ProducerDone, KillProducer, cons
<1>3. CASE ConsumerMaps \/ OpenFifo \/ FreeSlot \/ KillConsumer
  BY <1>3 DEF ConsumerMaps, OpenFifo, FreeSlot, KillConsumer, prod, RingIInv, Phases
<1>4. CASE TakeNumber
  BY <1>4, TakeCases DEF TakeNumber, prod
<1>5. CASE ConsumerDone
  BY <1>5 DEF ConsumerDone, prod, RingIInv, Counting
<1> QED BY <1>1, <1>2, <1>3, <1>4, <1>5 DEF Next, Producer, Consumer

(* The producer waits for a slot only while the consumer has a number to   *)
(* take: with nothing in the fifo and nothing in a hand all slots are free.*)
LEMMA RingGoesOn == RingIInv /\ Ends => RingNeverStuck
<1> SUFFICES ASSUME RingIInv, Ends PROVE RingNeverStuck
  OBVIOUS
<1> USE DEF RingIInv
<1>1. /\ producer \in {"start", "fill", "open", "loop", "send", "done", "killed"}
      /\ consumer \in {"start", "open", "loop", "free", "done", "killed", "crashed"}
  BY DEF TypeOK
<1>2. ASSUME producer = "killed", consumer = "loop" PROVE ConsumerCanStep
  BY <1>2 DEF ConsumerCanStep, EndOfFifo
<1>3. ASSUME producer # "killed", consumer # "killed", producer # "done" \/ consumer # "done",
             ~ProducerCanStep, ~ConsumerCanStep, ~BothOpen
      PROVE  FALSE
  <2>1. producer \in {"open", "loop", "done"} /\ consumer \in {"open", "loop", "done"}
    BY <1>1, <1>3 DEF ProducerCanStep, ConsumerCanStep, Ends
  <2>2. Len(printed) <= produced /\ Len(fifo) = produced - Len(printed)
    BY <1>3, Sizes DEF Counting
  <2>3. CASE consumer = "done"
    <3>1. produced = ITEMS
      BY <2>2, <2>3, Sizes DEF Ends
    <3>2. producer = "loop"
      BY <1>3, <2>1, <2>3 DEF Phases
    <3> QED BY <1>3, <3>1, <3>2, SlotOfType DEF ProducerCanStep, MoreToPut
  <2>4. CASE consumer = "open"
    BY <1>3, <2>1, <2>4 DEF Ends, BothOpen
  <2>5. CASE consumer = "loop"
    <3>1. fifo = <<>> /\ producer # "done"
      BY <1>3, <2>5 DEF ConsumerCanStep, EndOfFifo
    <3>2. producer = "loop" /\ MoreToPut /\ ~SlotIsFree
      BY <1>3, <2>1, <2>5, <3>1 DEF ProducerCanStep, Phases
    <3>3. Len(printed) = produced
      BY <2>2, <3>1, Sizes
    <3>4. NextPut \in Slots
      BY <3>2, NextPutSlot, SlotOfType
    <3>5. Unread = {}
      BY <3>3, Sizes DEF Unread
    <3>6. slot[NextPut] = Free
      BY <2>5, <3>2, <3>4, <3>5 DEF SlotInv, ReadLast, Unsent
    <3> QED BY <3>2, <3>6 DEF SlotIsFree
  <2> QED BY <2>1, <2>3, <2>4, <2>5
<1>4. consumer = "free" => ConsumerCanStep
  BY DEF ConsumerCanStep
<1> QED BY <1>2, <1>3, <1>4 DEF RingNeverStuck

(* The spinning of my_shm_posix_prod.c and the blocking read of its        *)
(* consumer never wait for each other: the safety half of BothEnd.         *)
THEOREM RingNeverStops == Spec => []RingNeverStuck
<1>1. Init => RingIInv /\ Ends
  BY InitIInv DEF Init, Ends
<1>2. (RingIInv /\ Ends) /\ [Next]_vars => (RingIInv /\ Ends)'
  BY NextIInv, EndsStep
<1> QED BY <1>1, <1>2, RingGoesOn, PTL DEF Spec

-----------------------------------------------------------------------------
(* The shell waits for its only foreground child, exit is a command of the *)
(* line, and after it neither is the table reaped nor does a line begin.   *)
OneForeground ==
  /\ Alive /\ shell # "wait" => Children \subseteq background
  /\ shell = "wait" => \A p, q \in Children \ background : p = q
ExitLast ==
  /\ shell \in {"prompt", "reap"} => ~is_exited
  /\ shell = "kill" => cmds # <<>>

(* Until two background children are unreaped at a time there is at most   *)
(* one, and it is in the part of the table that exit has still to look at. *)
OneBackground == ~crowded => \A p, q \in BackgroundChildren : p = q
ToKill == (IF shell = "kill" THEN i ELSE 0) .. bg_procs_idx - 1
InTable == Alive /\ ~crowded => BackgroundChildren \subseteq {bg_procs[k] : k \in ToKill}

ShellIInv == /\ ShellTypeOK /\ TableCounts /\ OneForeground /\ ExitLast
            /\ OneBackground /\ InTable

-----------------------------------------------------------------------------
(* The assumption on the constants, and that no child has Junk's number.   *)
LEMMA ShellConstants ==
  /\ IsFiniteSet(Pids) /\ BG_CHUNK \in Nat \ {0} /\ Junk \notin Pids
BY ShellAssumption DEF Junk

(* A nonempty set of natural numbers has a least one, and Min is it.       *)
LEMMA MinIsLeast ==
  ASSUME NEW S \in SUBSET Nat, S # {}
  PROVE  Min(S) \in S /\ \A y \in S : Min(S) <= y
<1> DEFINE R == StrictSubsetOrdering(Nat)
           F == FiniteSubsetsOf(Nat)
           T == {0 .. x : x \in S}
<1>1. IsWellFoundedOn(R, F)
  BY FS_StrictSubsetOrderingWellFounded
<1>2. T \subseteq F
  <2>1. \A x \in S : 0 .. x \in SUBSET Nat /\ IsFiniteSet(0 .. x)
    BY FS_Interval
  <2> QED BY <2>1, Zenon DEF FiniteSubsetsOf
<1>3. T # {}
  OBVIOUS
<1>4. PICK U \in T : \A V \in T : ~ (<<V, U>> \in R)
  <2> HIDE DEF T, R, F
  <2> QED BY <1>1, <1>2, <1>3, WFMin, Zenon
<1>5. PICK m \in S : U = 0 .. m
  BY <1>4
<1>6. ASSUME NEW y \in S, y < m PROVE FALSE
  <2>1. /\ 0 .. y \in SUBSET Nat /\ 0 .. m \in SUBSET Nat
        /\ 0 .. y \subseteq 0 .. m /\ m \in 0 .. m /\ m \notin 0 .. y
    BY <1>6
  <2>2. <<0 .. y, 0 .. m>> \in R
    BY <2>1, Zenon DEF StrictSubsetOrdering
  <2>3. 0 .. y \in T
    OBVIOUS
  <2> QED BY <1>4, <1>5, <2>2, <2>3, Zenon
<1>7. \A y \in S : m <= y
  BY <1>6
<1> QED BY <1>7 DEF Min

(* Every command of a line has the words of some command of it: the one    *)
(* that ends the array they share.                                         *)
LEMMA CommandsOfLine ==
  ASSUME NEW l \in Lines
  PROVE  make_cmds(l) \in Seq(Kinds) /\ InBackground(l) \in BOOLEAN
<1>1. l.words \in Seq(Kinds) /\ Len(l.words) \in Nat
  BY ShellAssumption, LenProperties
<1>2. ASSUME NEW k \in 1 .. Len(l.words)
      PROVE  l.words[SharedArray(l, k)] \in Kinds
  <2> DEFINE S == {n \in k .. Len(l.words) : n = Len(l.words) \/ l.ops[n] # "&"}
  <2>1. S \in SUBSET Nat /\ Len(l.words) \in S
    BY <1>1
  <2>2. Min(S) \in S
    BY <2>1, MinIsLeast
  <2>3. SharedArray(l, k) \in 1 .. Len(l.words)
    BY <1>1, <2>2 DEF SharedArray
  <2> QED BY <1>1, <2>3, ElementOfSeq
<1>3. DOMAIN l.words = 1 .. Len(l.words)
  BY <1>1, LenProperties
<1>4. make_cmds(l) \in [1 .. Len(l.words) -> Kinds]
  BY <1>2, <1>3 DEF make_cmds
<1>5. make_cmds(l) \in Seq(Kinds)
  BY <1>1, <1>4
<1> QED BY <1>5 DEF InBackground

(* Taking the first command off a line.                                    *)
LEMMA NextCommand ==
  ASSUME ShellTypeOK, cmds # <<>>
  PROVE  Tail(cmds) \in Seq(Kinds)
BY HeadTailProperties DEF ShellTypeOK

(* How the number of elements of a finite set changes.                     *)
LEMMA CountOfChildren ==
  ASSUME ShellTypeOK
  PROVE  /\ IsFiniteSet(BackgroundChildren) /\ Cardinality(BackgroundChildren) \in Nat
         /\ \A p \in Pids \ BackgroundChildren :
              Cardinality(BackgroundChildren \cup {p}) = Cardinality(BackgroundChildren) + 1
         /\ \A p \in BackgroundChildren :
              /\ Cardinality(BackgroundChildren) >= 1
              /\ Cardinality(BackgroundChildren \ {p}) = Cardinality(BackgroundChildren) - 1
<1>1. IsFiniteSet(BackgroundChildren)
  BY ShellConstants, FS_Subset DEF BackgroundChildren, Children
<1>2. Cardinality(BackgroundChildren) \in Nat
  BY <1>1, FS_CardinalityType
<1>3. \A p \in Pids \ BackgroundChildren :
        Cardinality(BackgroundChildren \cup {p}) = Cardinality(BackgroundChildren) + 1
  BY <1>1, FS_AddElement
<1>4. ASSUME NEW p \in BackgroundChildren
      PROVE  /\ Cardinality(BackgroundChildren) >= 1
             /\ Cardinality(BackgroundChildren \ {p}) = Cardinality(BackgroundChildren) - 1
  <2>1. Cardinality(BackgroundChildren \ {p}) = Cardinality(BackgroundChildren) - 1
    BY <1>1, FS_RemoveElement
  <2>2. Cardinality(BackgroundChildren) # 0
    BY <1>1, FS_EmptySet
  <2> QED BY <1>2, <2>1, <2>2
<1> QED BY <1>1, <1>2, <1>3, <1>4

(* The children after one of them starts to be one, ends to be one, or     *)
(* goes on as one.                                                         *)
LEMMA ChildrenChange ==
  ASSUME ShellTypeOK, NEW p \in Pids
  PROVE  /\ status' = [status EXCEPT ![p] = "forked"] => Children' = Children \cup {p}
         /\ status' = [status EXCEPT ![p] = "none"] => Children' = Children \ {p}
         /\ Child(p) => Children' = Children
<1>1. ASSUME NEW to, status' = [status EXCEPT ![p] = to]
      PROVE  \A q \in Pids : status'[q] = IF q = p THEN to ELSE status[q]
  BY <1>1 DEF ShellTypeOK
<1>2. status' = [status EXCEPT ![p] = "forked"] => Children' = Children \cup {p}
  BY <1>1 DEF Children
<1>3. status' = [status EXCEPT ![p] = "none"] => Children' = Children \ {p}
  BY <1>1 DEF Children
<1>4. Child(p) => Children' = Children
  <2>1. CASE ChildStarts(p)
    BY <2>1, <1>1 DEF ChildStarts, ChildStep, Children
  <2>2. CASE ChildEnds(p)
    BY <2>2, <1>1 DEF ChildEnds, ChildStep, Children
  <2> QED BY <2>1, <2>2 DEF Child
<1> QED BY <1>2, <1>3, <1>4

(* The steps that change neither the table nor the children. *)
Quiet == ExecuteNothing \/ ExecuteCd \/ ExecuteExit \/ KillDone \/ EndLine \/ ReapDone \/ User

(* The actions, one per case of the proofs below. *)
LEMMA ShellSteps ==
  ASSUME [ShellNext]_shellVars
  PROVE  \/ Quiet \/ (\E p \in Pids : ExecuteForeground(p))
         \/ (\E p \in Pids : ExecuteBackground(p))
         \/ EndWait \/ KillNext \/ ReapNext \/ Interrupt
         \/ (\E p \in Pids : Child(p)) \/ UNCHANGED shellVars
BY DEF ShellNext, ShellStep, Quiet

(* The quiet steps leave the background children alone. *)
LEMMA QuietSteps ==
  ASSUME Quiet
  PROVE  /\ UNCHANGED <<table, children>>
         /\ Children' = Children /\ BackgroundChildren' = BackgroundChildren
<1>1. UNCHANGED <<table, children>>
  BY DEF Quiet, ExecuteNothing, ExecuteCd, ExecuteExit, KillDone, EndLine, ReapDone, User, ReadLine
<1> QED BY <1>1 DEF children, Children, BackgroundChildren

(* What reap_bg_procs reaps is a background child, which the index counts. *)
LEMMA ReapedChild ==
  ASSUME ShellIInv, ReapNext, Reapable
  PROVE  /\ bg_procs[i] \in BackgroundChildren /\ bg_procs[i] \in Pids
         /\ i \in 0 .. BG_CHUNK
         /\ bg_procs_idx = Cardinality(BackgroundChildren) /\ bg_procs_idx >= 1
<1> USE DEF ShellIInv
<1>1. shell = "reap" /\ Alive /\ i \in 0 .. BG_CHUNK
  BY ShellConstants DEF ReapNext, ReapMore, Alive, ShellTypeOK
<1>2. bg_procs[i] \in BackgroundChildren
  BY <1>1 DEF Reapable, OneForeground, BackgroundChildren
<1>3. bg_procs_idx = Cardinality(BackgroundChildren)
  BY <1>1 DEF ExitLast, Settled, TableCounts
<1> QED BY <1>1, <1>2, <1>3, CountOfChildren DEF BackgroundChildren, Children

(* Killing the group takes children away and stops the shell. *)
LEMMA GroupKilled ==
  ASSUME ShellTypeOK, NEW how \in {"killed", "interrupted"}, KillGroup(how)
  PROVE  /\ status' \in [Pids -> {"none", "forked", "running", "zombie"}]
         /\ BackgroundChildren' \subseteq BackgroundChildren
         /\ ~Alive' /\ shell' = how
         /\ UNCHANGED <<line, i, table, background, crowded>>
BY DEF KillGroup, ShellTypeOK, BackgroundChildren, Children, Alive

-----------------------------------------------------------------------------
(* The type invariant; that the index never becomes negative needs         *)
(* TableCounts.                                                            *)
LEMMA ShellTypeStep == ShellIInv /\ [ShellNext]_shellVars => ShellTypeOK'
<1> SUFFICES ASSUME ShellIInv, [ShellNext]_shellVars PROVE ShellTypeOK'
  OBVIOUS
<1> USE DEF ShellIInv
<1>0. BG_CHUNK \in Nat \ {0} /\ bg_procs_idx \in 0 .. BG_CHUNK
  BY ShellConstants DEF ShellTypeOK
<1>1. CASE Quiet
  <2>1. CASE ExecuteNothing \/ KillDone \/ EndLine \/ ReapDone \/ ExecuteExit \/ ExecuteCd
    <3>1. cmds' \in Seq(Kinds)
      BY <2>1, NextCommand DEF ExecuteNothing, KillDone, EndLine, ReapDone, ExecuteExit,
         ExecuteCd, Executes, line, ShellTypeOK, ExitLast
    <3>2. is_exited' \in BOOLEAN /\ i' \in Nat /\ UNCHANGED is_background
      <4>1. CASE ExecuteCd
        BY <4>1 DEF ExecuteCd, ShellTypeOK
      <4>2. CASE KillDone
        BY <4>2 DEF KillDone, ShellTypeOK
      <4>3. CASE ExecuteNothing \/ EndLine \/ ReapDone \/ ExecuteExit
        <5>1. UNCHANGED line /\ (i' = i \/ i' = 0)
          BY <4>3 DEF ExecuteNothing, EndLine, ReapDone, ExecuteExit
        <5> QED BY <5>1 DEF line, ShellTypeOK
      <4> QED BY <2>1, <4>1, <4>2, <4>3
    <3>3. shell' \in {"crashed", "execute", "exited", "reap", "prompt", "kill"}
      BY <2>1 DEF ExecuteNothing, KillDone, EndLine, ReapDone, ExecuteExit,
         ExecuteCd, Executes
    <3> QED BY <1>1, <3>1, <3>2, <3>3, QuietSteps DEF table, children, ShellTypeOK
  <2>2. CASE User
    BY <2>2, CommandsOfLine DEF User, ReadLine, table, children, ShellTypeOK
  <2> QED BY <1>1, <2>1, <2>2 DEF Quiet
<1>2. ASSUME NEW p \in Pids, ExecuteForeground(p) PROVE ShellTypeOK'
  BY <1>2, NextCommand DEF ExecuteForeground, Executes, table, ShellTypeOK
<1>3. ASSUME NEW p \in Pids, ExecuteBackground(p) PROVE ShellTypeOK'
  <2>1. cmds' \in Seq(Kinds)
    BY <1>3, NextCommand DEF ExecuteBackground, Executes
  <2>2. shell' \in {"execute", "overflow"} /\ bg_procs_idx' \in 0 .. BG_CHUNK
        /\ bg_procs' \in [0 .. BG_CHUNK -> Pids \cup {Junk}]
    BY <1>0, <1>3 DEF ExecuteBackground, Executes, add_bg_procs, table, ShellTypeOK
  <2>3. crowded' \in BOOLEAN
    BY <1>3 DEF ExecuteBackground, ShellTypeOK
  <2> QED BY <1>3, <2>1, <2>2, <2>3 DEF ExecuteBackground, ShellTypeOK
<1>4. CASE EndWait
  BY <1>4 DEF EndWait, line, table, ShellTypeOK
<1>5. CASE KillNext
  <2>1. CASE bg_procs[i] = Junk
    <3>1. KillGroup("killed")
      BY <1>5, <2>1 DEF KillNext
    <3> QED BY <3>1, GroupKilled DEF line, table, ShellTypeOK
  <2>2. CASE bg_procs[i] # Junk
    BY <1>5, <2>2 DEF KillNext, line, table, ShellTypeOK
  <2> QED BY <2>1, <2>2
<1>6. CASE ReapNext
  <2>1. i' \in Nat
    BY <1>6 DEF ReapNext, ShellTypeOK
  <2>2. CASE Reapable
    <3>1. bg_procs_idx' \in 0 .. BG_CHUNK
      BY <1>0, <1>6, <2>2, ReapedChild DEF ReapNext
    <3>2. bg_procs' \in [0 .. BG_CHUNK -> Pids \cup {Junk}]
      BY <1>0, <1>6, <2>2 DEF ReapNext, ShellTypeOK
    <3> QED BY <1>6, <2>1, <2>2, <3>1, <3>2 DEF ReapNext, line, ShellTypeOK
  <2>3. CASE ~Reapable
    BY <1>6, <2>1, <2>3 DEF ReapNext, line, table, ShellTypeOK
  <2> QED BY <2>2, <2>3
<1>7. CASE Interrupt
  BY <1>7, GroupKilled DEF Interrupt, line, table, ShellTypeOK
<1>8. ASSUME NEW p \in Pids, Child(p) PROVE ShellTypeOK'
  BY <1>8 DEF Child, ChildStarts, ChildEnds, ChildStep, line, table, ShellTypeOK
<1>9. CASE UNCHANGED shellVars
  BY <1>9 DEF shellVars, line, table, children, ShellTypeOK
<1> QED BY <1>1, <1>2, <1>3, <1>4, <1>5, <1>6, <1>7, <1>8, <1>9, ShellSteps

(* The index counts the background children. *)
LEMMA TableCountsStep == ShellIInv /\ [ShellNext]_shellVars => TableCounts'
<1> SUFFICES ASSUME ShellIInv, [ShellNext]_shellVars, Settled'
             PROVE  bg_procs_idx' = Cardinality(BackgroundChildren')
  BY DEF TableCounts
<1> USE DEF ShellIInv
<1>0. Settled => bg_procs_idx = Cardinality(BackgroundChildren)
  BY DEF TableCounts
(* The steps that keep the index and the background children. *)
<1>a. ASSUME Settled, UNCHANGED bg_procs_idx, BackgroundChildren' = BackgroundChildren
      PROVE  bg_procs_idx' = Cardinality(BackgroundChildren')
  BY <1>0, <1>a
<1>1. CASE Quiet
  <2>1. Settled
    BY <1>1 DEF Quiet, ExecuteNothing, ExecuteCd, ExecuteExit, KillDone, EndLine, ReapDone,
       User, ReadLine, Executes, line, Settled, Alive
  <2> QED BY <1>1, <1>a, <2>1, QuietSteps DEF table
<1>2. ASSUME NEW p \in Pids, ExecuteForeground(p)
      PROVE  bg_procs_idx' = Cardinality(BackgroundChildren')
  <2>1. Settled /\ UNCHANGED bg_procs_idx
    BY <1>2 DEF ExecuteForeground, Executes, table, Settled, Alive
  <2>2. p \notin Children
    BY <1>2 DEF ExecuteForeground, Children
  <2>3. BackgroundChildren' = BackgroundChildren
    BY <1>2, <2>2, ChildrenChange DEF ExecuteForeground, BackgroundChildren
  <2> QED BY <1>a, <2>1, <2>3
<1>3. ASSUME NEW p \in Pids, ExecuteBackground(p)
      PROVE  bg_procs_idx' = Cardinality(BackgroundChildren')
  <2>1. Settled /\ bg_procs_idx' = bg_procs_idx + 1
    BY <1>3 DEF ExecuteBackground, add_bg_procs, Executes, Settled, Alive
  <2>2. p \notin Children
    BY <1>3 DEF ExecuteBackground, Children
  <2>3. BackgroundChildren' = BackgroundChildren \cup {p}
    BY <1>3, <2>2, ChildrenChange DEF ExecuteBackground, BackgroundChildren
  <2>4. p \in Pids \ BackgroundChildren
    BY <2>2 DEF BackgroundChildren
  <2> QED BY <1>0, <2>1, <2>3, <2>4, CountOfChildren
<1>4. CASE EndWait
  <2>1. PICK p \in WaitForeground : status' = [status EXCEPT ![p] = "none"]
    BY <1>4 DEF EndWait
  <2>2. p \in Pids /\ p \notin background
    BY DEF WaitForeground, Children
  <2>3. BackgroundChildren' = BackgroundChildren
    BY <1>4, <2>1, <2>2, ChildrenChange DEF EndWait, BackgroundChildren
  <2>4. Settled /\ UNCHANGED bg_procs_idx
    BY <1>4 DEF EndWait, line, table, Settled, Alive
  <2> QED BY <1>a, <2>3, <2>4
<1>5. CASE KillNext
  <2>1. ~Settled'
    BY <1>5, GroupKilled DEF KillNext, Settled
  <2> QED BY <2>1
<1>6. CASE ReapNext
  <2>1. Settled
    BY <1>6 DEF ReapNext, line, Settled, Alive
  <2>2. CASE Reapable
    <3>1. BackgroundChildren' = BackgroundChildren \ {bg_procs[i]}
      BY <1>6, <2>2, ReapedChild, ChildrenChange DEF ReapNext, BackgroundChildren
    <3>2. bg_procs_idx' = bg_procs_idx - 1
      BY <1>6, <2>2 DEF ReapNext
    <3> QED BY <1>6, <2>2, <3>1, <3>2, ReapedChild, CountOfChildren
  <2>3. CASE ~Reapable
    <3>1. UNCHANGED <<bg_procs_idx, background>> /\ Children' = Children
      BY <1>6, <2>3 DEF ReapNext, table, Children
    <3> QED BY <1>a, <2>1, <3>1 DEF BackgroundChildren
  <2> QED BY <2>2, <2>3
<1>7. CASE Interrupt
  BY <1>7, GroupKilled DEF Interrupt, Settled
<1>8. ASSUME NEW p \in Pids, Child(p) PROVE bg_procs_idx' = Cardinality(BackgroundChildren')
  <2>1. UNCHANGED <<shell, line, table, background>>
    BY <1>8 DEF Child, ChildStarts, ChildEnds, ChildStep
  <2>2. Settled
    BY <2>1 DEF line, Settled, Alive
  <2>3. BackgroundChildren' = BackgroundChildren
    BY <1>8, <2>1, ChildrenChange DEF BackgroundChildren
  <2> QED BY <1>a, <2>1, <2>2, <2>3 DEF table
<1>9. CASE UNCHANGED shellVars
  BY <1>9, <1>a DEF shellVars, line, table, children, Settled, Alive, BackgroundChildren, Children
<1> QED BY <1>1, <1>2, <1>3, <1>4, <1>5, <1>6, <1>7, <1>8, <1>9, ShellSteps

(* One foreground child at most, and only while the shell waits for it. *)
LEMMA OneForegroundStep == ShellIInv /\ [ShellNext]_shellVars => OneForeground'
<1> SUFFICES ASSUME ShellIInv, [ShellNext]_shellVars PROVE OneForeground'
  OBVIOUS
<1> USE DEF ShellIInv
<1>a. ASSUME Alive' => Alive, shell = "wait" <=> shell' = "wait",
             UNCHANGED background, Children' \subseteq Children
      PROVE  OneForeground'
  BY <1>a DEF OneForeground
<1>1. CASE Quiet
  <2>1. (Alive' => Alive) /\ shell # "wait" /\ shell' # "wait"
    BY <1>1 DEF Quiet, ExecuteNothing, ExecuteCd, ExecuteExit, KillDone, EndLine, ReapDone,
       User, ReadLine, Executes, Alive
  <2> QED BY <1>1, <1>a, <2>1, QuietSteps DEF children
<1>2. ASSUME NEW p \in Pids, ExecuteForeground(p) PROVE OneForeground'
  <2>1. Children \subseteq background
    BY <1>2 DEF ExecuteForeground, Executes, OneForeground, Alive
  <2>2. Children' = Children \cup {p} /\ background' = background \ {p} /\ shell' = "wait"
    BY <1>2, ChildrenChange DEF ExecuteForeground
  <2> QED BY <2>1, <2>2 DEF OneForeground
<1>3. ASSUME NEW p \in Pids, ExecuteBackground(p) PROVE OneForeground'
  <2>1. Children \subseteq background
    BY <1>3 DEF ExecuteBackground, Executes, OneForeground, Alive
  <2>2. Children' = Children \cup {p} /\ background' = background \cup {p} /\ shell' # "wait"
    BY <1>3, ChildrenChange DEF ExecuteBackground, Executes, add_bg_procs
  <2> QED BY <2>1, <2>2 DEF OneForeground
<1>4. CASE EndWait
  <2>1. PICK p \in WaitForeground : status' = [status EXCEPT ![p] = "none"]
    BY <1>4 DEF EndWait
  <2>2. p \in Pids /\ p \in Children \ background
    BY DEF WaitForeground, Children
  <2>3. Children' = Children \ {p} /\ background' = background /\ shell = "wait" /\ shell' # "wait"
    BY <1>4, <2>1, <2>2, ChildrenChange DEF EndWait
  <2> QED BY <2>2, <2>3 DEF OneForeground
<1>5. CASE KillNext
  <2>1. CASE bg_procs[i] = Junk
    BY <1>5, <2>1, GroupKilled DEF KillNext, OneForeground
  <2>2. CASE bg_procs[i] # Junk
    <3>1. Children' \subseteq Children /\ UNCHANGED <<shell, background>>
      BY <1>5, <2>2 DEF KillNext, Children, ShellTypeOK
    <3> QED BY <1>a, <3>1 DEF Alive
  <2> QED BY <2>1, <2>2
<1>6. CASE ReapNext
  <2>1. Children' \subseteq Children /\ UNCHANGED <<shell, background>>
    BY <1>6 DEF ReapNext, Children, ShellTypeOK
  <2> QED BY <1>a, <2>1 DEF Alive
<1>7. CASE Interrupt
  BY <1>7, GroupKilled DEF Interrupt, OneForeground
<1>8. ASSUME NEW p \in Pids, Child(p) PROVE OneForeground'
  <2>1. UNCHANGED <<shell, background>>
    BY <1>8 DEF Child, ChildStarts, ChildEnds, ChildStep
  <2> QED BY <1>8, <1>a, <2>1, ChildrenChange DEF Alive
<1>9. CASE UNCHANGED shellVars
  BY <1>9, <1>a DEF shellVars, children, Alive, Children
<1> QED BY <1>1, <1>2, <1>3, <1>4, <1>5, <1>6, <1>7, <1>8, <1>9, ShellSteps

(* exit is the last thing of its line that reads the table. *)
LEMMA ExitLastStep == ShellIInv /\ [ShellNext]_shellVars => ExitLast'
<1> SUFFICES ASSUME ShellIInv, [ShellNext]_shellVars PROVE ExitLast'
  OBVIOUS
<1> USE DEF ShellIInv
<1>1. CASE Quiet
  <2>1. CASE ExecuteNothing \/ ExecuteCd \/ KillDone
    BY <2>1 DEF ExecuteNothing, ExecuteCd, KillDone, Executes, ExitLast
  <2>2. CASE ExecuteExit \/ EndLine \/ ReapDone
    BY <2>2 DEF ExecuteExit, EndLine, ReapDone, Executes, line, ExitLast
  <2>3. CASE User
    BY <2>3 DEF User, ReadLine, ExitLast
  <2> QED BY <1>1, <2>1, <2>2, <2>3 DEF Quiet
<1>2. ASSUME NEW p \in Pids, ExecuteForeground(p) \/ ExecuteBackground(p) PROVE ExitLast'
  <2>1. shell' \in {"wait", "execute", "overflow"}
    BY <1>2 DEF ExecuteForeground, ExecuteBackground, add_bg_procs, Executes
  <2> QED BY <2>1 DEF ExitLast
<1>3. CASE EndWait
  BY <1>3 DEF EndWait, ExitLast
<1>4. CASE KillNext \/ Interrupt
  <2>1. UNCHANGED line /\ shell' \in {"kill", "killed", "interrupted"}
        /\ (shell' = "kill" => shell = "kill")
    BY <1>4 DEF KillNext, Interrupt, KillGroup
  <2> QED BY <2>1 DEF ExitLast, line
<1>5. CASE ReapNext
  BY <1>5 DEF ReapNext, ExitLast, line
<1>6. ASSUME NEW p \in Pids, Child(p) PROVE ExitLast'
  BY <1>6 DEF Child, ChildStarts, ChildEnds, ChildStep, ExitLast, line
<1>7. CASE UNCHANGED shellVars
  BY <1>7 DEF shellVars, line, ExitLast
<1> QED BY <1>1, <1>2, <1>3, <1>4, <1>5, <1>6, <1>7, ShellSteps

(* Only a command in the background adds a background child. *)
LEMMA BackgroundGrows ==
  ASSUME ShellIInv, [ShellNext]_shellVars
  PROVE  \/ \E p \in Pids :
              ExecuteBackground(p) /\ BackgroundChildren' = BackgroundChildren \cup {p}
         \/ UNCHANGED crowded /\ BackgroundChildren' \subseteq BackgroundChildren
<1> USE DEF ShellIInv
<1>1. CASE Quiet
  BY <1>1, QuietSteps DEF children
<1>2. ASSUME NEW p \in Pids, ExecuteForeground(p)
      PROVE  UNCHANGED crowded /\ BackgroundChildren' \subseteq BackgroundChildren
  BY <1>2, ChildrenChange DEF ExecuteForeground, BackgroundChildren
<1>3. ASSUME NEW p \in Pids, ExecuteBackground(p)
      PROVE  BackgroundChildren' = BackgroundChildren \cup {p}
  <2>1. p \notin Children
    BY <1>3 DEF ExecuteBackground, Children
  <2> QED BY <1>3, <2>1, ChildrenChange DEF ExecuteBackground, BackgroundChildren
<1>4. CASE EndWait \/ ReapNext
  <2>1. UNCHANGED <<background, crowded>> /\ Children' \subseteq Children
    BY <1>4 DEF EndWait, ReapNext, WaitForeground, Children, ShellTypeOK
  <2> QED BY <2>1 DEF BackgroundChildren
<1>5. CASE KillNext
  <2>1. CASE bg_procs[i] = Junk
    BY <1>5, <2>1, GroupKilled DEF KillNext
  <2>2. CASE bg_procs[i] # Junk
    <3>1. UNCHANGED <<background, crowded>> /\ Children' \subseteq Children
      BY <1>5, <2>2 DEF KillNext, Children, ShellTypeOK
    <3> QED BY <3>1 DEF BackgroundChildren
  <2> QED BY <2>1, <2>2
<1>6. CASE Interrupt
  BY <1>6, GroupKilled DEF Interrupt
<1>7. ASSUME NEW p \in Pids, Child(p)
      PROVE  UNCHANGED crowded /\ BackgroundChildren' \subseteq BackgroundChildren
  <2>1. UNCHANGED <<background, crowded>>
    BY <1>7 DEF Child, ChildStarts, ChildEnds, ChildStep
  <2> QED BY <1>7, <2>1, ChildrenChange DEF BackgroundChildren
<1>8. CASE UNCHANGED shellVars
  BY <1>8 DEF shellVars, children, BackgroundChildren, Children
<1> QED BY <1>1, <1>2, <1>3, <1>4, <1>5, <1>6, <1>7, <1>8, ShellSteps

(* Until two of them meet there is one background child at most. *)
LEMMA OneBackgroundStep == ShellIInv /\ [ShellNext]_shellVars => OneBackground'
<1> SUFFICES ASSUME ShellIInv, [ShellNext]_shellVars, ~crowded'
             PROVE  \A p, q \in BackgroundChildren' : p = q
  BY DEF OneBackground
<1>1. ASSUME NEW p \in Pids, ExecuteBackground(p), BackgroundChildren' = BackgroundChildren \cup {p}
      PROVE  \A q, r \in BackgroundChildren' : q = r
  <2>1. BackgroundChildren = {}
    BY <1>1 DEF ExecuteBackground, BackgroundChildren, ShellIInv, ShellTypeOK
  <2> QED BY <1>1, <2>1
<1>2. CASE UNCHANGED crowded /\ BackgroundChildren' \subseteq BackgroundChildren
  BY <1>2 DEF OneBackground, ShellIInv
<1> QED BY <1>1, <1>2, BackgroundGrows

(* exit finds the background child in the table, the step that kills it    *)
(* and those that reap it leave none.                                      *)
LEMMA InTableStep == ShellIInv /\ [ShellNext]_shellVars => InTable'
<1> SUFFICES ASSUME ShellIInv, [ShellNext]_shellVars, Alive', ~crowded',
                    NEW p \in BackgroundChildren'
             PROVE  \E k \in ToKill' : bg_procs'[k] = p
  BY DEF InTable
<1> USE DEF ShellIInv
<1>0. /\ bg_procs \in [0 .. BG_CHUNK -> Pids \cup {Junk}] /\ i \in Nat
      /\ bg_procs_idx \in 0 .. BG_CHUNK /\ BG_CHUNK \in Nat
  BY ShellConstants DEF ShellTypeOK
<1>1. ASSUME Alive, ~crowded, p \in BackgroundChildren
      PROVE  \E k \in ToKill : bg_procs[k] = p
  BY <1>1 DEF InTable
(* The table is left alone, and no entry of it is skipped. *)
<1>a. ASSUME UNCHANGED <<bg_procs, bg_procs_idx, crowded>>,
             BackgroundChildren' \subseteq BackgroundChildren,
             Alive, shell' = "kill" => i' = IF shell = "kill" THEN i ELSE 0
      PROVE  \E k \in ToKill' : bg_procs'[k] = p
  <2>1. PICK k \in ToKill : bg_procs[k] = p
    BY <1>1, <1>a
  <2>2. k \in ToKill'
    BY <1>0, <1>a, <2>1 DEF ToKill
  <2> QED BY <1>a, <2>1, <2>2
<1>2. CASE Quiet
  <2>1. UNCHANGED <<bg_procs, bg_procs_idx, crowded>> /\ BackgroundChildren' = BackgroundChildren
    BY <1>2, QuietSteps DEF table, children
  <2>2. Alive /\ (shell' = "kill" => shell # "kill" /\ i' = 0)
    BY <1>2 DEF Quiet, ExecuteNothing, ExecuteCd, ExecuteExit, KillDone, EndLine, ReapDone,
       User, ReadLine, Executes, Alive
  <2> QED BY <1>a, <2>1, <2>2
<1>3. ASSUME NEW q \in Pids, ExecuteForeground(q) PROVE \E k \in ToKill' : bg_procs'[k] = p
  <2>1. Alive /\ shell' = "wait" /\ UNCHANGED <<bg_procs, bg_procs_idx, crowded>>
    BY <1>3 DEF ExecuteForeground, Executes, Alive, table
  <2>2. BackgroundChildren' \subseteq BackgroundChildren
    BY <1>3, ChildrenChange DEF ExecuteForeground, BackgroundChildren
  <2> QED BY <1>a, <2>1, <2>2
<1>4. ASSUME NEW q \in Pids, ExecuteBackground(q) PROVE \E k \in ToKill' : bg_procs'[k] = p
  <2>1. /\ bg_procs_idx # BG_CHUNK /\ bg_procs_idx' = bg_procs_idx + 1
        /\ bg_procs' = [bg_procs EXCEPT ![bg_procs_idx] = q] /\ shell' = "execute"
    BY <1>4 DEF ExecuteBackground, Executes, add_bg_procs, Alive
  <2>2. p = q
    <3>1. BackgroundChildren = {} /\ Children' = Children \cup {q}
      BY <1>4, ChildrenChange DEF ExecuteBackground, BackgroundChildren
    <3> QED BY <1>4, <3>1 DEF ExecuteBackground, BackgroundChildren
  <2>3. bg_procs_idx \in ToKill' /\ bg_procs'[bg_procs_idx] = q
    BY <1>0, <2>1 DEF ToKill
  <2> QED BY <2>2, <2>3
<1>5. CASE EndWait
  <2>1. Alive /\ shell' = "execute" /\ UNCHANGED <<bg_procs, bg_procs_idx, crowded>>
    BY <1>5 DEF EndWait, Alive, table
  <2>2. BackgroundChildren' \subseteq BackgroundChildren
    BY <1>5 DEF EndWait, WaitForeground, BackgroundChildren, Children, ShellTypeOK
  <2> QED BY <1>a, <2>1, <2>2
<1>6. CASE KillNext
  <2>1. bg_procs[i] # Junk
    BY <1>6, GroupKilled DEF KillNext
  <2>2. /\ i' = i + 1 /\ i < bg_procs_idx
        /\ UNCHANGED <<shell, bg_procs, bg_procs_idx, background, crowded>>
        /\ shell = "kill" /\ status' = [status EXCEPT ![bg_procs[i]] = "none"]
    BY <1>6, <2>1 DEF KillNext, KillMore, table
  <2>3. bg_procs[i] \in Pids
    BY <1>0, <2>1, <2>2
  <2>4. p # bg_procs[i] /\ p \in BackgroundChildren
    BY <2>2, <2>3, ChildrenChange DEF BackgroundChildren
  <2>5. PICK k \in ToKill : bg_procs[k] = p
    BY <1>1, <2>2, <2>4 DEF Alive
  <2>6. k \in ToKill'
    BY <1>0, <2>2, <2>4, <2>5 DEF ToKill
  <2> QED BY <2>2, <2>5, <2>6
<1>7. CASE ReapNext
  <2>1. Alive /\ shell = "reap" /\ shell' = "reap" /\ UNCHANGED <<crowded, background>>
    BY <1>7 DEF ReapNext, Alive
  <2>2. CASE Reapable
    <3>1. BackgroundChildren' = BackgroundChildren \ {bg_procs[i]}
      BY <1>7, <2>2, ReapedChild, ChildrenChange DEF ReapNext, BackgroundChildren
    <3>2. p = bg_procs[i]
      BY <1>7, <2>1, <2>2, <3>1, ReapedChild DEF OneBackground
    <3> QED BY <3>1, <3>2
  <2>3. CASE ~Reapable
    <3>1. UNCHANGED <<bg_procs, bg_procs_idx>> /\ BackgroundChildren' = BackgroundChildren
      BY <1>7, <2>1, <2>3 DEF ReapNext, table, BackgroundChildren, Children
    <3> QED BY <1>a, <2>1, <3>1
  <2> QED BY <2>2, <2>3
<1>8. CASE Interrupt
  BY <1>8, GroupKilled DEF Interrupt
<1>9. ASSUME NEW q \in Pids, Child(q) PROVE \E k \in ToKill' : bg_procs'[k] = p
  <2>1. Alive /\ UNCHANGED <<shell, i, bg_procs, bg_procs_idx, background, crowded>>
    BY <1>9 DEF Child, ChildStarts, ChildEnds, ChildStep, table
  <2>2. BackgroundChildren' = BackgroundChildren
    BY <1>9, <2>1, ChildrenChange DEF BackgroundChildren
  <2>3. shell' = "kill" => i' = IF shell = "kill" THEN i ELSE 0
    BY <2>1
  <2> QED BY <1>a, <2>1, <2>2, <2>3
<1>10. CASE UNCHANGED shellVars
  <2>1. /\ UNCHANGED <<shell, i, bg_procs, bg_procs_idx, crowded>>
        /\ BackgroundChildren' = BackgroundChildren
    BY <1>10 DEF shellVars, table, children, BackgroundChildren, Children
  <2>2. Alive /\ (shell' = "kill" => i' = IF shell = "kill" THEN i ELSE 0)
    BY <2>1 DEF Alive
  <2> QED BY <1>a, <2>1, <2>2
<1> QED BY <1>2, <1>3, <1>4, <1>5, <1>6, <1>7, <1>8, <1>9, <1>10, ShellSteps

-----------------------------------------------------------------------------
(* The first prompt satisfies the invariant, and every step keeps it. *)
LEMMA ShellInitial == ShellInit => ShellIInv
<1> SUFFICES ASSUME ShellInit PROVE ShellIInv
  OBVIOUS
<1>1. ShellTypeOK
  <2>1. cmds \in Seq(Kinds)
    BY DEF ShellInit
  <2> QED BY <2>1, ShellConstants DEF ShellInit, ShellTypeOK
<1>2. Children = {} /\ BackgroundChildren = {}
  BY DEF ShellInit, Children, BackgroundChildren
<1>3. TableCounts
  BY <1>2, FS_EmptySet DEF ShellInit, TableCounts
<1> QED
  BY <1>1, <1>2, <1>3
  DEF ShellInit, ShellIInv, OneForeground, ExitLast, OneBackground, InTable

LEMMA ShellInductive == ShellSpec => []ShellIInv
<1>1. ShellIInv /\ [ShellNext]_shellVars => ShellIInv'
  BY ShellTypeStep, TableCountsStep, OneForegroundStep, ExitLastStep, OneBackgroundStep,
     InTableStep DEF ShellIInv
<1> QED BY <1>1, ShellInitial, PTL DEF ShellSpec

(* add_bg_procs and reap_bg_procs keep bg_procs_idx equal to the number of *)
(* background children that are not reaped, whenever they end and whatever *)
(* the user types, and with one of them at a time the table holds it.      *)
THEOREM TableCorrect == ShellSpec => []TableInv
<1>1. ShellIInv => TableInv
  <2> SUFFICES ASSUME ShellIInv PROVE TableInv
    OBVIOUS
  <2> USE DEF ShellIInv
  <2>1. ASSUME Settled, ~crowded
        PROVE  {bg_procs[k] : k \in 0 .. bg_procs_idx - 1} = BackgroundChildren
    <3>1. bg_procs_idx = Cardinality(BackgroundChildren)
      BY <2>1 DEF TableCounts
    <3>2. CASE BackgroundChildren = {}
      <4>1. bg_procs_idx = 0
        BY <3>1, <3>2, FS_EmptySet
      <4> QED BY <3>2, <4>1
    <3>3. ASSUME NEW p \in BackgroundChildren
          PROVE  {bg_procs[k] : k \in 0 .. bg_procs_idx - 1} = BackgroundChildren
      <4>1. BackgroundChildren = {p}
        BY <2>1, <3>3 DEF OneBackground
      <4>2. bg_procs_idx = 1
        BY <3>1, <4>1, FS_Singleton
      <4>3. 0 .. bg_procs_idx - 1 = {0}
        BY <4>2
      <4>4. ToKill = {0}
        BY <2>1, <4>3 DEF Settled, ToKill
      <4>5. bg_procs[0] = p
        BY <2>1, <4>4 DEF InTable, Settled
      <4> QED BY <4>1, <4>3, <4>5
    <3> QED BY <3>2, <3>3
  <2> QED BY <2>1 DEF TableInv, TableHoldsChildren
<1> QED BY <1>1, ShellInductive, PTL

(* The loop of exit in execute_cmd leaves no background child, if there    *)
(* was never more than one at a time.                                      *)
THEOREM ExitCorrect == ShellSpec => ExitKillsAll
<1>1. ShellIInv /\ [ShellNext]_shellVars =>
        [KillDone /\ ~crowded => BackgroundChildren' = {}]_shellVars
  <2> SUFFICES ASSUME ShellIInv, KillDone, ~crowded PROVE BackgroundChildren' = {}
    OBVIOUS
  <2>1. BackgroundChildren' = BackgroundChildren
    BY QuietSteps DEF Quiet
  <2>2. shell = "kill" /\ ToKill = {} /\ Alive
    BY DEF KillDone, KillMore, ToKill, ShellIInv, ShellTypeOK, Alive
  <2> QED BY <2>1, <2>2 DEF InTable, ShellIInv
<1> QED BY <1>1, ShellInductive, PTL DEF ShellSpec, ExitKillsAll

(* The waitpid of a foreground child (start_executing) finds that child    *)
(* and no other to wait for, and while the shell reads, executes or reaps  *)
(* (reap_bg_procs) only background children are there: neither takes a     *)
(* child that the other should reap.                                       *)
THEOREM ForegroundCorrect == ShellSpec => []OneForeground
<1>1. ShellIInv => OneForeground
  BY DEF ShellIInv
<1> QED BY <1>1, ShellInductive, PTL
=============================================================================
