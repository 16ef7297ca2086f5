------------------------------ MODULE ShmRing -------------------------------
(***************************************************************************)
(* my_shm_posix_prod.c and my_shm_posix_cons.c: a ring of slots in shared  *)
(* memory.  The producer sends the number of every slot it filled through  *)
(* a fifo, and learns that a slot is free again only by looking at it.     *)
(* Either process may be killed; the fifo has room for all the numbers.    *)
(*                                                                         *)
(* The string is the same each time; here a full slot holds the number of  *)
(* the item, so that the slots' reuse can be followed.                     *)
(***************************************************************************)
EXTENDS Integers, Sequences

CONSTANTS SLOTS, ITEMS,
          Free, Zeros    \* free_str, and what ftruncate fills a slot with

ASSUME RingAssumption ==
  /\ SLOTS \in Nat \ {0}
  /\ ITEMS \in SLOTS .. 2 * SLOTS      \* 512 slots, 1000 items
  /\ Free \notin Int /\ Zeros \notin Int /\ Free # Zeros

Slots == 0 .. SLOTS - 1

VARIABLES
  shm_size,            \* the number of slots the memory has
  slot,
  fifo,                \* the numbers in the fifo
  producer, consumer,  \* where the two processes are
  produced, put,       \* cnt and itr of the producer
  consumed, got,       \* cnt and itr of the consumer, itr -1 at first
  printed              \* what the consumer found in the slots

memory == <<shm_size, slot>>
prod == <<producer, produced, put>>
cons == <<consumer, consumed, got, printed>>
vars == <<memory, fifo, prod, cons>>

Init ==
  /\ shm_size = 0 /\ slot = [s \in Slots |-> Zeros]
  /\ fifo = <<>>
  /\ producer = "start" /\ produced = 0 /\ put = 0
  /\ consumer = "start" /\ consumed = 0 /\ got = -1 /\ printed = <<>>

-----------------------------------------------------------------------------
(* Up to its open of the fifo the producer sizes and fills the memory.     *)
SizeMemory ==
  /\ producer = "start"
  /\ shm_size' = SLOTS
  /\ producer' = "fill"
  /\ UNCHANGED <<slot, fifo, produced, put, cons>>

FillSlots ==
  /\ producer = "fill"
  /\ slot' = [s \in Slots |-> Free]
  /\ producer' = "open"
  /\ UNCHANGED <<shm_size, fifo, produced, put, cons>>

ConsumerMaps ==
  /\ consumer = "start"
  /\ consumer' = "open"
  /\ UNCHANGED <<memory, fifo, prod, consumed, got, printed>>

(* open of a fifo returns when both ends are opened. *)
OpenFifo ==
  /\ producer = "open" /\ consumer = "open"
  /\ producer' = "loop" /\ consumer' = "loop"
  /\ UNCHANGED <<memory, fifo, produced, put, consumed, got, printed>>

(* The producer spins while the slot is not free.  itr starts over once.   *)
NextPut == IF produced = SLOTS THEN 0 ELSE put

SlotIsFreeUnread == TRUE
SlotIsFree == slot[NextPut] = Free

MoreToPut == produced < ITEMS

Put ==
  /\ producer = "loop" /\ MoreToPut
  /\ SlotIsFree
  /\ slot' = [slot EXCEPT ![NextPut] = produced]
  /\ put' = NextPut
  /\ producer' = "send"
  /\ UNCHANGED <<shm_size, fifo, produced, cons>>

(* write to a fifo nobody reads kills the producer. *)
SendSlot ==
  /\ producer = "send"
  /\ IF consumer \in {"loop", "free"}
       THEN /\ fifo' = Append(fifo, put)
            /\ produced' = produced + 1 /\ put' = put + 1
            /\ producer' = "loop"
       ELSE producer' = "killed" /\ UNCHANGED <<fifo, produced, put>>
  /\ UNCHANGED <<memory, cons>>

ProducerDone ==
  /\ producer = "loop" /\ ~MoreToPut
  /\ producer' = "done"
  /\ UNCHANGED <<memory, fifo, produced, put, cons>>

(* read blocks while a producer has the fifo open, and returns nothing     *)
(* after that: the number of before is used again, and without one any     *)
(* number, which may lie outside the memory.                               *)
EndOfFifoNever == FALSE
EndOfFifo == fifo = <<>> /\ producer \in {"done", "killed"}

TakeNumber ==
  /\ consumer = "loop" /\ consumed < ITEMS
  /\ fifo # <<>> \/ EndOfFifo
  /\ CASE fifo # <<>> -> got' = Head(fifo)
       [] fifo = <<>> /\ got # -1 -> got' = got
       [] OTHER -> got' \in Slots \cup {-1}
  /\ fifo' = IF fifo = <<>> THEN fifo ELSE Tail(fifo)
  /\ consumer' = IF got' = -1 THEN "crashed" ELSE "free"
  /\ printed' = IF got' = -1 THEN printed ELSE Append(printed, slot[got'])
  /\ UNCHANGED <<memory, prod, consumed>>

FreedSlotNext == (got + 1) % SLOTS
FreedSlot == got

FreeSlot ==
  /\ consumer = "free"
  /\ slot' = [slot EXCEPT ![FreedSlot] = Free]
  /\ consumed' = consumed + 1
  /\ consumer' = "loop"
  /\ UNCHANGED <<shm_size, fifo, prod, got, printed>>

(* close, and shm_unlink: the memory lives on while it is mapped.          *)
ConsumerDone ==
  /\ consumer = "loop" /\ consumed = ITEMS
  /\ consumer' = "done"
  /\ UNCHANGED <<memory, fifo, prod, consumed, got, printed>>

KillProducer ==
  /\ producer \notin {"done", "killed"} /\ producer' = "killed"
  /\ UNCHANGED <<memory, fifo, produced, put, cons>>

KillConsumer ==
  /\ consumer \notin {"done", "killed", "crashed"} /\ consumer' = "killed"
  /\ UNCHANGED <<memory, fifo, prod, consumed, got, printed>>

-----------------------------------------------------------------------------
Producer == SizeMemory \/ FillSlots \/ Put \/ SendSlot \/ ProducerDone
Consumer == ConsumerMaps \/ TakeNumber \/ FreeSlot \/ ConsumerDone
Next == Producer \/ Consumer \/ OpenFifo \/ KillProducer \/ KillConsumer

Spec == Init /\ [][Next]_vars
FairSpec == Spec /\ WF_vars(Producer) /\ WF_vars(Consumer) /\ WF_vars(OpenFifo)

-----------------------------------------------------------------------------
TypeOK ==
  /\ shm_size \in {0, SLOTS} /\ slot \in [Slots -> 0 .. ITEMS - 1 \cup {Free, Zeros}]
  /\ fifo \in Seq(Slots) /\ Len(fifo) <= ITEMS
  /\ producer \in {"start", "fill", "open", "loop", "send", "done", "killed"}
  /\ consumer \in {"start", "open", "loop", "free", "done", "killed", "crashed"}
  /\ produced \in 0 .. ITEMS /\ put \in 0 .. SLOTS
  /\ consumed \in 0 .. ITEMS /\ got \in Slots \cup {-1}
  /\ Len(printed) <= ITEMS

(* "it needs to reuse the memory to rewrite the remaining"                 *)
(* (my_shm_posix_prod.c:2): no slot is refilled before it was read, so the *)
(* consumer finds the items in order, each once; only when the producer    *)
(* was killed does it go on with the slot it read last.                    *)
ItemsInOrder == \A k \in DOMAIN printed :
  IF k <= produced \/ producer # "killed" THEN printed[k] = k - 1
  ELSE printed[k] \in {Free, produced}

(* The slots whose numbers are in the fifo hold the items not yet read, in *)
(* order, and every other slot is free, but for the one in either hand.    *)
InHand ==
  (IF consumer = "free" THEN {got} ELSE {}) \cup (IF producer = "send" THEN {put} ELSE {})
FifoMatchesMemory == producer \in {"loop", "send"} /\ consumer \in {"loop", "free"} =>
  /\ \A k \in DOMAIN fifo : slot[fifo[k]] = produced - Len(fifo) + k - 1
  /\ \A s \in Slots : slot[s] = Free \/ s \in InHand \/ \E k \in DOMAIN fifo : fifo[k] = s

(* The consumer maps the memory without sizing it, perhaps before the      *)
(* producer exists, yet touches it only when it has all its slots.         *)
MemorySizedWhenUsed == consumer = "free" => shm_size = SLOTS

(* The memory and the fifo, with their types.                              *)
RingInv == TypeOK /\ FifoMatchesMemory /\ MemorySizedWhenUsed

(* Unless one of them is killed both come to their end; a consumer in its  *)
(* loop does so even when the producer is killed, a producer whose         *)
(* consumer is killed may spin for ever.                                   *)
BothEnd ==
  /\ <>(producer \in {"done", "killed"} \/ consumer = "killed")
  /\ <>(consumer \in {"done", "killed", "crashed"} \/ producer = "killed")
  /\ producer = "killed" /\ consumer = "loop" ~> consumer \in {"done", "crashed", "killed"}
=============================================================================
