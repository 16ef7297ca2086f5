--------------------------- MODULE KVServerProofs ----------------------------
(***************************************************************************)
(* Proofs about KVServer, for any clients, keys, values, requests and      *)
(* number of slots.  ValuesOwned speaks of the time before key -1 is       *)
(* misused.  What keeps malloc supplied with a chunk, at all times, is     *)
(* that every chunk in use is in some slot (AllocatedInSlots), and what    *)
(* makes a request the client's only one is OneRequest.                    *)
(***************************************************************************)
EXTENDS KVServer, FiniteSetTheorems, TLAPS

AllocatedInSlots == allocated \subseteq PtrsOf(DOMAIN slots)

(* A client has one request or one reply under way, and only while it      *)
(* waits, or is gone and waited.                                           *)
OneRequest == \A c \in Clients :
  /\ request[c] # None => client[c] \in {"reading", "gone"} /\ reply[c] = None
  /\ client[c] # "reading" => reply[c] = None

IInv == TypeOK /\ AllocatedInSlots /\ ValuesOwned /\ OneRequest

Slot == [key : Keys \cup {-1}, ptr : Chunks]

-----------------------------------------------------------------------------
(* A nonempty set of natural numbers has a least one, and Min is it.       *)
LEMMA MinIsLeast ==
  ASSUME NEW S \in SUBSET Nat, S # {}
  PROVE  Min(S) \in S /\ \A y \in S : Min(S) <= y
<1> DEFINE R == StrictSubsetOrdering(Nat)
           F == FiniteSubsetsOf(Nat)
           T == {0 .. x : x \in S}
<1>1. IsWellFoundedOn(R, F)
  BY FS_StrictSubsetOrderingWellFounded
<1>2. T \subseteq F
  <2>1. \A x \in S : 0 .. x \in SUBSET Nat /\ IsFiniteSet(0 .. x)
    BY FS_Interval
  <2> QED BY <2>1, Zenon DEF FiniteSubsetsOf
<1>3. T # {}
  OBVIOUS
<1>4. PICK U \in T : \A V \in T : ~ (<<V, U>> \in R)
  <2> HIDE DEF T, R, F
  <2> QED BY <1>1, <1>2, <1>3, WFMin, Zenon
<1>5. PICK m \in S : U = 0 .. m
  BY <1>4
<1>6. ASSUME NEW y \in S, y < m PROVE FALSE
  <2>1. /\ 0 .. y \in SUBSET Nat /\ 0 .. m \in SUBSET Nat
        /\ 0 .. y \subseteq 0 .. m /\ m \in 0 .. m /\ m \notin 0 .. y
    BY <1>6
  <2>2. <<0 .. y, 0 .. m>> \in R
    BY <2>1, Zenon DEF StrictSubsetOrdering
  <2>3. 0 .. y \in T
    OBVIOUS
  <2> QED BY <1>4, <1>5, <2>2, <2>3, Zenon
<1>7. \A y \in S : m <= y
  BY <1>6
<1> QED BY <1>7 DEF Min

(* What the assumption says of sizes ... *)
LEMMA Sizes ==
  /\ MAX_KEYS \in Nat \ {0}
  /\ Chunks \subseteq Nat /\ IsFiniteSet(Chunks)
  /\ Cardinality(Chunks) \in Nat /\ Cardinality(Chunks) > MAX_KEYS
BY KVAssumption, FS_CardinalityType

(* ... and of requests. *)
LEMMA RequestCases ==
  ASSUME NEW r \in Requests
  PROVE  \/ r.op \in {"create", "update"} /\ r.key \in Keys /\ r.value \in Values
         \/ r.op \in {"read", "delete"} /\ r.key \in Keys
         \/ r.op \in {"disconnect", "empty line", "other word"} /\ r.key = 0
BY KVAssumption

(* The slots as a function of their indices. *)
LEMMA SlotTypes ==
  ASSUME TypeOK
  PROVE  /\ Len(slots) \in Nat /\ DOMAIN slots = 1 .. Len(slots)
         /\ slots \in [1 .. Len(slots) -> Slot]
         /\ \A i \in DOMAIN slots : slots[i].key \in Keys \cup {-1} /\ slots[i].ptr \in Chunks
         /\ Len(slots) <= MAX_KEYS
<1>1. slots \in Seq(Slot)
  BY DEF TypeOK, Slot
<1>2. /\ Len(slots) \in Nat /\ DOMAIN slots = 1 .. Len(slots)
      /\ slots \in [1 .. Len(slots) -> Slot]
  BY <1>1
<1>3. \A i \in DOMAIN slots : slots[i] \in Slot
  BY <1>2
<1>4. Len(slots) <= MAX_KEYS
  BY DEF TypeOK
<1> QED BY <1>2, <1>3, <1>4 DEF Slot

LEMMA FunctionIsSequence ==
  ASSUME NEW n \in Nat, NEW S, NEW f \in [1 .. n -> S]
  PROVE  f \in Seq(S) /\ Len(f) = n
OBVIOUS

(* A slot that is found has the key. *)
LEMMA SlotFound ==
  ASSUME TypeOK, NEW k, SlotsOf(k) # {}
  PROVE  SlotOf(k) \in DOMAIN slots /\ slots[SlotOf(k)].key = k
<1>1. SlotsOf(k) \in SUBSET Nat
  BY SlotTypes DEF SlotsOf
<1> QED BY <1>1, MinIsLeast DEF SlotOf, SlotsOf

(* malloc finds a chunk that nobody uses. *)
LEMMA ChunkFound ==
  ASSUME TypeOK, NEW inUse, inUse \subseteq PtrsOf(DOMAIN slots)
  PROVE  \A x \in Unused(inUse) : x \in Chunks /\ x \notin inUse
<1> DEFINE P == PtrsOf(DOMAIN slots)
<1>1. P \subseteq Chunks
  BY SlotTypes DEF PtrsOf
<1>2. Cardinality(P) <= Len(slots)
  <2> DEFINE f == [j \in 1 .. Len(slots) |-> slots[j].ptr]
  <2>1. f \in Surjection(1 .. Len(slots), P)
    BY SlotTypes DEF PtrsOf, Surjection
  <2>2. ExistsSurjection(1 .. Len(slots), P)
    BY <2>1 DEF ExistsSurjection
  <2> HIDE DEF f, P
  <2> QED BY <2>2, SlotTypes, FS_SurjCardinalityBound
<1>3. Chunks \ (inUse \cup P) # {}
  <2>1. inUse \cup P = P
    OBVIOUS
  <2>2. Chunks # P
    BY <1>2, SlotTypes, Sizes
  <2> QED BY <1>1, <2>1, <2>2
<1>4. Chunks \ (inUse \cup P) \in SUBSET Nat
  BY Sizes
<1>5. Min(Chunks \ (inUse \cup P)) \in Chunks \ (inUse \cup P)
  BY <1>3, <1>4, MinIsLeast
<1> QED BY <1>1, <1>5 DEF Unused

(* What malloc and strcpy leave in the tables. *)
StoredAt(x, i, k, v, inUse) ==
  /\ x \in Chunks /\ x \notin inUse
  /\ slots' \in Seq(Slot) /\ Len(slots') <= MAX_KEYS
  /\ Len(slots') = IF i \in DOMAIN slots THEN Len(slots) ELSE Len(slots) + 1
  /\ DOMAIN slots' = DOMAIN slots \cup {i}
  /\ slots'[i].key = k /\ slots'[i].ptr = x
  /\ \A j \in DOMAIN slots \ {i} : slots'[j] = slots[j]
  /\ chunk' \in [Chunks -> Values \cup {Junk}] /\ chunk'[x] = v
  /\ \A y \in inUse : chunk'[y] = chunk[y]
  /\ allocated' = inUse \cup {x}

LEMMA Stored ==
  ASSUME TypeOK, NEW i \in 1 .. MAX_KEYS, i \in DOMAIN slots \/ i = Len(slots) + 1,
         NEW k \in Keys \cup {-1}, NEW v \in Values,
         NEW inUse, inUse \subseteq PtrsOf(DOMAIN slots), inUse \subseteq allocated,
         StoreValue(i, k, v, inUse)
  PROVE  \E x : StoredAt(x, i, k, v, inUse)
<1>1. PICK x \in Unused(inUse) :
        /\ slots' = [j \in DOMAIN slots \cup {i} |->
                       IF j = i THEN [key |-> k, ptr |-> x] ELSE slots[j]]
        /\ chunk' = [y \in Chunks |-> IF y = x THEN v ELSE IF y \in inUse THEN chunk[y] ELSE Junk]
        /\ allocated' = inUse \cup {x}
  BY DEF StoreValue
<1>2. x \in Chunks \ inUse
  BY ChunkFound
<1>3. PICK n \in Nat : /\ DOMAIN slots \cup {i} = 1 .. n /\ n <= MAX_KEYS
                       /\ n = IF i \in DOMAIN slots THEN Len(slots) ELSE Len(slots) + 1
  <2>1. CASE i \in DOMAIN slots
    <3>1. DOMAIN slots \cup {i} = DOMAIN slots
      BY <2>1
    <3> QED BY <2>1, <3>1, SlotTypes DEF TypeOK
  <2>2. CASE i \notin DOMAIN slots
    <3>1. i = Len(slots) + 1
      BY <2>2
    <3>2. 1 .. Len(slots) \cup {i} = 1 .. Len(slots) + 1
      BY <3>1, SlotTypes
    <3>3. Len(slots) + 1 \in Nat /\ Len(slots) + 1 <= MAX_KEYS
      BY <3>1, SlotTypes, Sizes
    <3> QED BY <2>2, <3>2, <3>3, SlotTypes
  <2> QED BY <2>1, <2>2
<1>4. slots' \in [1 .. n -> Slot]
  <2>1. [key |-> k, ptr |-> x] \in Slot
    BY <1>2 DEF Slot
  <2>2. \A j \in DOMAIN slots : slots[j] \in Slot
    BY SlotTypes
  <2> QED BY <1>1, <1>3, <2>1, <2>2
<1>5. slots' \in Seq(Slot) /\ Len(slots') = n
  BY <1>4, FunctionIsSequence
<1>6. /\ DOMAIN slots' = DOMAIN slots \cup {i}
      /\ slots'[i].key = k /\ slots'[i].ptr = x
      /\ \A j \in DOMAIN slots \ {i} : slots'[j] = slots[j]
  BY <1>1
<1>7. /\ chunk' \in [Chunks -> Values \cup {Junk}] /\ chunk'[x] = v
      /\ \A y \in inUse : chunk'[y] = chunk[y]
  <2>1. \A y \in inUse : y \in Chunks /\ y # x
    BY <1>2 DEF TypeOK
  <2> QED BY <1>1, <1>2, <2>1 DEF TypeOK
<1> QED BY <1>1, <1>2, <1>3, <1>5, <1>6, <1>7 DEF StoredAt

-----------------------------------------------------------------------------
(* How a step changes the tables. *)
CreatesValue(k, v) ==
  /\ ~StorageFull /\ SlotsOf(k) = {}
  /\ StoreValue(Len(slots) + 1, k, v, allocated)
  /\ UNCHANGED misused
UpdatesValue(k, v) ==
  /\ SlotsOf(k) # {}
  /\ StoreValue(SlotOf(k), k, v, InUseAfterFree(k))
  /\ misused' = (misused \/ k = -1)
DeletesValue(k) ==
  /\ SlotsOf(k) # {}
  /\ slots' = [slots EXCEPT ![SlotOf(k)].key = DeletedKey(k)]
  /\ allocated' = InUseAfterFree(k)
  /\ chunk' = [x \in Chunks |-> IF x \in allocated' THEN chunk[x] ELSE Junk]
  /\ misused' = (misused \/ k = -1)

LEMMA TableCases ==
  ASSUME TypeOK, [Next]_vars
  PROVE  \/ UNCHANGED tables
         \/ misused' = TRUE /\ UNCHANGED <<slots, chunk, allocated>>
         \/ \E k \in Keys, v \in Values : CreatesValue(k, v) \/ UpdatesValue(k, v)
         \/ \E k \in Keys : DeletesValue(k)
<1>1. CASE UNCHANGED tables
  BY <1>1
<1>2. CASE Serve
  <2> DEFINE c == newsockfd
             r == request[newsockfd]
  <2>1. r \in Requests /\ Handle(c, r)
    BY <1>2 DEF Serve, TypeOK
  <2> HIDE DEF c, r
  <2>2. CASE r.op = "create"
    <3>1. r.key \in Keys /\ r.value \in Values /\ create_key_value_pair(c, r.key, r.value)
      BY <2>1, <2>2, RequestCases DEF Handle
    <3> QED BY <3>1 DEF create_key_value_pair, CreatesValue, tables
  <2>3. CASE r.op = "update"
    <3>1. r.key \in Keys /\ r.value \in Values /\ update(c, r.key, r.value)
      BY <2>1, <2>3, RequestCases DEF Handle
    <3> QED BY <3>1 DEF update, NoSuchKey, FreeAborts, UpdatesValue
  <2>4. CASE r.op = "delete"
    <3>1. r.key \in Keys /\ delete(c, r.key)
      BY <2>1, <2>4, RequestCases DEF Handle
    <3> QED BY <3>1 DEF delete, NoSuchKey, FreeAborts, DeletesValue
  <2>5. CASE r.op \notin {"create", "update", "delete"}
    BY <2>1, <2>5 DEF Handle, Read, disconnect, Crash, tables
  <2> QED BY <2>2, <2>3, <2>4, <2>5
<1> QED BY <1>1, <1>2 DEF Next, vars, Server, Client, Accept, ServeHangUp, Crash,
  Connect, Send, Receive, HangUp

(* A new value goes to the next slot, an updated one to the slot of its    *)
(* key.                                                                    *)
LEMMA Created ==
  ASSUME TypeOK, AllocatedInSlots, NEW k \in Keys, NEW v \in Values, CreatesValue(k, v)
  PROVE  /\ Len(slots) + 1 \in 1 .. MAX_KEYS /\ Len(slots) + 1 \notin DOMAIN slots
         /\ \E x : StoredAt(x, Len(slots) + 1, k, v, allocated)
<1> DEFINE n == Len(slots) + 1
<1>1. n \in 1 .. MAX_KEYS /\ n \notin DOMAIN slots
  <2>1. Len(slots) # MAX_KEYS
    BY DEF CreatesValue, StorageFull
  <2>2. Len(slots) \in Nat /\ Len(slots) <= MAX_KEYS /\ MAX_KEYS \in Nat
    BY SlotTypes, Sizes
  <2>3. Len(slots) + 1 \in 1 .. MAX_KEYS
    BY <2>1, <2>2
  <2>4. Len(slots) + 1 \notin 1 .. Len(slots)
    BY <2>2
  <2> QED BY <2>3, <2>4, SlotTypes
<1>2. allocated \subseteq PtrsOf(DOMAIN slots) /\ k \in Keys \cup {-1}
  BY DEF AllocatedInSlots
<1>3. n = Len(slots) + 1 /\ StoreValue(n, k, v, allocated)
  BY DEF CreatesValue
<1> HIDE DEF n
<1>4. \E x : StoredAt(x, n, k, v, allocated)
  BY <1>1, <1>2, <1>3, Stored, Zenon
<1> QED BY <1>1, <1>3, <1>4

LEMMA Updated ==
  ASSUME TypeOK, AllocatedInSlots, NEW k \in Keys, NEW v \in Values, UpdatesValue(k, v)
  PROVE  /\ SlotOf(k) \in DOMAIN slots /\ slots[SlotOf(k)].key = k
         /\ InUseAfterFree(k) = allocated \ {slots[SlotOf(k)].ptr}
         /\ \E x : StoredAt(x, SlotOf(k), k, v, InUseAfterFree(k))
<1>1. /\ SlotOf(k) \in DOMAIN slots /\ slots[SlotOf(k)].key = k
      /\ SlotOf(k) \in 1 .. MAX_KEYS
  BY SlotFound, SlotTypes, Sizes DEF UpdatesValue
<1>2. StoreValue(SlotOf(k), k, v, InUseAfterFree(k))
  BY DEF UpdatesValue
<1>3. InUseAfterFree(k) = allocated \ {slots[SlotOf(k)].ptr}
  BY DEF InUseAfterFree
<1>4. InUseAfterFree(k) \subseteq allocated /\ InUseAfterFree(k) \subseteq PtrsOf(DOMAIN slots)
  BY <1>3 DEF AllocatedInSlots
<1>5. k \in Keys \cup {-1}
  OBVIOUS
<1>6. \E x : StoredAt(x, SlotOf(k), k, v, InUseAfterFree(k))
  BY <1>1, <1>2, <1>4, <1>5, Stored, Zenon
<1> QED BY <1>1, <1>3, <1>6

(* Deleting a key leaves its slot where it is. *)
LEMMA Deleted ==
  ASSUME TypeOK, NEW k, DeletesValue(k)
  PROVE  /\ SlotOf(k) \in DOMAIN slots /\ slots[SlotOf(k)].key = k
         /\ slots' \in Seq(Slot) /\ Len(slots') = Len(slots) /\ DOMAIN slots' = DOMAIN slots
         /\ slots'[SlotOf(k)].key = -1
         /\ \A j \in DOMAIN slots \ {SlotOf(k)} : slots'[j] = slots[j]
         /\ \A j \in DOMAIN slots : slots'[j].ptr = slots[j].ptr
         /\ allocated' = allocated \ {slots[SlotOf(k)].ptr}
         /\ chunk' \in [Chunks -> Values \cup {Junk}]
         /\ \A x \in allocated' : chunk'[x] = chunk[x]
<1> DEFINE i == SlotOf(k)
<1>1. i \in 1 .. Len(slots) /\ slots[i].key = k
  BY SlotFound, SlotTypes DEF DeletesValue
<1>2. slots' = [slots EXCEPT ![i].key = -1]
  BY DEF DeletesValue, DeletedKey
<1>3. \A j \in 1 .. Len(slots) : slots[j] \in Slot
  BY SlotTypes
<1> HIDE DEF i
<1>4. /\ slots' \in [1 .. Len(slots) -> Slot]
      /\ slots'[i].key = -1 /\ \A j \in 1 .. Len(slots) : slots'[j].ptr = slots[j].ptr
      /\ \A j \in 1 .. Len(slots) \ {i} : slots'[j] = slots[j]
  BY <1>1, <1>2, <1>3, SlotTypes DEF Slot
<1>5. slots' \in Seq(Slot) /\ Len(slots') = Len(slots)
  BY <1>4, SlotTypes, FunctionIsSequence
<1>6. allocated' = allocated \ {slots[i].ptr}
  BY DEF DeletesValue, InUseAfterFree, i
<1>7. /\ chunk' \in [Chunks -> Values \cup {Junk}]
      /\ \A x \in allocated' : chunk'[x] = chunk[x]
  BY <1>6 DEF DeletesValue, TypeOK
<1> QED BY <1>1, <1>4, <1>5, <1>6, <1>7, SlotTypes DEF i

-----------------------------------------------------------------------------
(* What handling a request does to the messages under way: the request is  *)
(* taken and its client is answered, unless it is gone or the server stops;*)
(* the connection ends with the answer "disconnecting".                    *)
OtherReplies == (Replies \ {"disconnecting"}) \cup Values \cup {Junk}
Answers(c) ==
  /\ request' = [request EXCEPT ![c] = None]
  /\ server' \in {"up", "write failed", "abort"}
  /\ \/ /\ reply' = reply /\ newsockfd' \in {c, None}
        /\ client[c] = "gone" \/ server' # "up"
     \/ /\ client[c] # "gone"
        /\ \E text \in Replies :
             /\ reply' = [reply EXCEPT ![c] = text]
             /\ \/ newsockfd' = None /\ text = "disconnecting"
                \/ newsockfd' = c /\ text \in OtherReplies
  /\ UNCHANGED <<backlog, client>>

LEMMA ServeMessages ==
  ASSUME TypeOK, Serve
  PROVE  /\ newsockfd \in Clients
         /\ request[newsockfd] \in Requests /\ request[newsockfd] # None
         /\ \/ Answers(newsockfd)
            \/ Crash
<1> DEFINE c == newsockfd
           r == request[newsockfd]
<1>1. c \in Clients /\ r \in Requests /\ r # None /\ Handle(c, r)
  BY DEF Serve, TypeOK
<1>2. \A k : SlotsOf(k) # {} => chunk[slots[SlotOf(k)].ptr] \in Values \cup {Junk}
  BY SlotFound, SlotTypes DEF TypeOK
<1> HIDE DEF c, r
<1>3. ASSUME NEW text \in Replies, Answer(c, text),
             \/ newsockfd' = None /\ text = "disconnecting"
             \/ newsockfd' = newsockfd /\ text \in OtherReplies
      PROVE  Answers(c)
  BY <1>3 DEF Answer, Answers, c
<1>4. CASE r.op = "create"
  <2> DEFINE text == CASE StorageFull -> "storage full"
                       [] ~StorageFull /\ SlotsOf(r.key) # {} -> "already key exists"
                       [] OTHER -> "Key Value pair Added"
  <2>1. create_key_value_pair(c, r.key, r.value)
    BY <1>1, <1>4 DEF Handle
  <2>2. text \in Replies /\ text \in OtherReplies
    BY DEF Replies, OtherReplies
  <2>3. Answer(c, text) /\ newsockfd' = newsockfd
    BY <2>1 DEF create_key_value_pair
  <2> HIDE DEF text
  <2> QED BY <1>1, <1>3, <2>2, <2>3 DEF c, r
<1>5. CASE r.op = "read"
  <2> DEFINE text == IF SlotsOf(r.key) = {} THEN "No such key"
                     ELSE chunk[slots[SlotOf(r.key)].ptr]
  <2>1. Answer(c, text) /\ newsockfd' = newsockfd
    BY <1>1, <1>5 DEF Handle, Read
  <2>2. text \in Replies /\ text \in OtherReplies
    BY <1>2 DEF Replies, OtherReplies
  <2> HIDE DEF text
  <2> QED BY <1>1, <1>3, <2>1, <2>2 DEF c, r
<1>6. \A k : NoSuchKey(c, k) => Answers(c)
  BY <1>3 DEF NoSuchKey, Replies, OtherReplies
<1>7. \A k : FreeAborts(c, k) => Answers(c)
  BY DEF FreeAborts, Answers, c
<1>8. CASE r.op = "update"
  <2>1. update(c, r.key, r.value)
    BY <1>1, <1>8 DEF Handle
  <2>2. Answer(c, "Updated") /\ newsockfd' = newsockfd => Answers(c)
    BY <1>3 DEF Replies, OtherReplies
  <2> QED BY <1>1, <1>6, <1>7, <2>1, <2>2 DEF update, c, r
<1>9. CASE r.op = "delete"
  <2>1. delete(c, r.key)
    BY <1>1, <1>9 DEF Handle
  <2>2. Answer(c, "Deleted key") /\ newsockfd' = newsockfd => Answers(c)
    BY <1>3 DEF Replies, OtherReplies
  <2> QED BY <1>1, <1>6, <1>7, <2>1, <2>2 DEF delete, c, r
<1>10. CASE r.op = "disconnect"
  <2>1. Answer(c, "disconnecting") /\ newsockfd' = None
    BY <1>1, <1>10 DEF Handle, disconnect
  <2>2. "disconnecting" \in Replies
    BY DEF Replies
  <2> QED BY <1>1, <1>3, <2>1, <2>2 DEF c, r
<1>11. CASE r.op = "empty line"
  BY <1>1, <1>11 DEF Handle, c, r
<1>12. CASE r.op = "other word"
  <2>1. Answer(c, "I got your message") /\ newsockfd' = newsockfd
    BY <1>1, <1>12 DEF Handle
  <2>2. "I got your message" \in Replies /\ "I got your message" \in OtherReplies
    BY DEF Replies, OtherReplies
  <2> QED BY <1>1, <1>3, <2>1, <2>2 DEF c, r
<1> QED BY <1>1, <1>4, <1>5, <1>8, <1>9, <1>10, <1>11, <1>12, RequestCases DEF c, r

LEMMA TypeStep == TypeOK /\ AllocatedInSlots /\ [Next]_vars => TypeOK'
<1> SUFFICES ASSUME TypeOK, AllocatedInSlots, [Next]_vars PROVE TypeOK'
  OBVIOUS
<1>1. /\ slots' \in Seq(Slot) /\ Len(slots') <= MAX_KEYS
      /\ chunk' \in [Chunks -> Values \cup {Junk}]
      /\ allocated' \subseteq Chunks /\ misused' \in BOOLEAN
  <2>0. misused \in BOOLEAN /\ slots \in Seq(Slot)
    BY DEF TypeOK, Slot
  <2>1. CASE UNCHANGED tables
    BY <2>1, <2>0 DEF tables, TypeOK
  <2>2. CASE misused' = TRUE /\ UNCHANGED <<slots, chunk, allocated>>
    BY <2>2, <2>0 DEF TypeOK
  <2>3. ASSUME NEW k \in Keys, NEW v \in Values, CreatesValue(k, v)
        PROVE  <1>1!:
    <3>1. misused' = misused
      BY <2>3 DEF CreatesValue
    <3>2. PICK x : StoredAt(x, Len(slots) + 1, k, v, allocated)
      BY <2>3, Created
    <3> QED BY <2>0, <3>1, <3>2 DEF TypeOK, StoredAt
  <2>4. ASSUME NEW k \in Keys, NEW v \in Values, UpdatesValue(k, v)
        PROVE  <1>1!:
    <3>1. misused' = (misused \/ k = -1)
      BY <2>4 DEF UpdatesValue
    <3>2. /\ InUseAfterFree(k) \subseteq allocated
          /\ \E x : StoredAt(x, SlotOf(k), k, v, InUseAfterFree(k))
      BY <2>4, Updated
    <3>3. PICK x : StoredAt(x, SlotOf(k), k, v, InUseAfterFree(k))
      BY <3>2
    <3> QED BY <2>0, <3>1, <3>2, <3>3 DEF TypeOK, StoredAt
  <2>5. ASSUME NEW k \in Keys, DeletesValue(k)
        PROVE  <1>1!:
    <3>1. misused' = (misused \/ k = -1)
      BY <2>5 DEF DeletesValue
    <3> QED BY <2>5, <2>0, <3>1, Deleted, SlotTypes DEF TypeOK
  <2> QED BY <2>1, <2>2, <2>3, <2>4, <2>5, TableCases
<1>2. /\ newsockfd' \in Clients \cup {None} /\ backlog' \in Seq(Clients)
      /\ server' \in {"up", "write failed", "abort", "crashed"}
      /\ client' \in [Clients -> {"new", "typing", "reading", "gone"}]
      /\ request' \in [Clients -> Requests \cup {None}]
      /\ reply' \in [Clients -> Replies \cup {None}]
  <2>1. CASE UNCHANGED vars
    BY <2>1 DEF vars, TypeOK
  <2>2. CASE Accept
    BY <2>2 DEF Accept, TypeOK
  <2>3. CASE Serve
    <3>1. CASE Crash
      BY <3>1 DEF Crash, TypeOK
    <3>2. CASE Answers(newsockfd)
      BY <3>2 DEF Answers, TypeOK
    <3> QED BY <2>3, <3>1, <3>2, ServeMessages
  <2>4. CASE ServeHangUp
    BY <2>4 DEF ServeHangUp, Crash, TypeOK
  <2>5. ASSUME NEW c \in Clients, Connect(c) PROVE <1>2!:
    BY <2>5 DEF Connect, TypeOK
  <2>6. ASSUME NEW c \in Clients, Receive(c) PROVE <1>2!:
    BY <2>6 DEF Receive, TypeOK
  <2>7. ASSUME NEW c \in Clients, HangUp(c) PROVE <1>2!:
    BY <2>7 DEF HangUp, TypeOK
  <2>8. ASSUME NEW c \in Clients, NEW r \in Requests, Send(c, r) PROVE <1>2!:
    BY <2>8 DEF Send, TypeOK
  <2> QED BY <2>1, <2>2, <2>3, <2>4, <2>5, <2>6, <2>7, <2>8 DEF Next, Server, Client
<1> QED BY <1>1, <1>2 DEF TypeOK, Slot

(* Every chunk in use stays in a slot. *)
LEMMA AllocatedStep == TypeOK /\ AllocatedInSlots /\ [Next]_vars => AllocatedInSlots'
<1> SUFFICES ASSUME TypeOK, AllocatedInSlots, [Next]_vars,
                    NEW y, y \in allocated'
             PROVE  \E j \in DOMAIN slots' : slots'[j].ptr = y
  BY DEF AllocatedInSlots, PtrsOf
<1>1. ASSUME y \in allocated PROVE \E j \in DOMAIN slots : slots[j].ptr = y
  BY <1>1 DEF AllocatedInSlots, PtrsOf
<1>2. CASE UNCHANGED <<slots, allocated>>
  BY <1>1, <1>2
<1>3. ASSUME NEW k \in Keys, NEW v \in Values, CreatesValue(k, v)
      PROVE  \E j \in DOMAIN slots' : slots'[j].ptr = y
  <2>1. PICK x : StoredAt(x, Len(slots) + 1, k, v, allocated)
    BY <1>3, Created
  <2>2. Len(slots) + 1 \notin DOMAIN slots
    BY <1>3, Created
  <2> QED BY <1>1, <2>1, <2>2 DEF StoredAt
<1>4. ASSUME NEW k \in Keys, NEW v \in Values, UpdatesValue(k, v)
      PROVE  \E j \in DOMAIN slots' : slots'[j].ptr = y
  <2>1. InUseAfterFree(k) = allocated \ {slots[SlotOf(k)].ptr}
    BY <1>4, Updated
  <2>2. PICK x : StoredAt(x, SlotOf(k), k, v, InUseAfterFree(k))
    BY <1>4, Updated
  <2>3. CASE y = x
    BY <2>2, <2>3 DEF StoredAt
  <2>4. CASE y # x
    <3>1. y \in allocated /\ y # slots[SlotOf(k)].ptr
      BY <2>1, <2>2, <2>4 DEF StoredAt
    <3> QED BY <1>1, <2>2, <3>1 DEF StoredAt
  <2> QED BY <2>3, <2>4
<1>5. ASSUME NEW k \in Keys, DeletesValue(k)
      PROVE  \E j \in DOMAIN slots' : slots'[j].ptr = y
  BY <1>1, <1>5, Deleted
<1> QED BY <1>2, <1>3, <1>4, <1>5, TableCases DEF tables

(* Every live slot keeps its key and its value to itself. *)
SlotOwned(i) ==
  /\ slots[i].ptr \in allocated /\ chunk[slots[i].ptr] \in Values
  /\ \A j \in Live : i # j => slots[i].key # slots[j].key /\ slots[i].ptr # slots[j].ptr

LEMMA ValuesAre ==
  AllocatedInSlots => (ValuesOwned <=> (~misused => \A i \in Live : SlotOwned(i)))
BY DEF AllocatedInSlots, ValuesOwned, SlotOwned, PtrsOf

LEMMA ValuesStep ==
  TypeOK /\ AllocatedInSlots /\ ValuesOwned /\ [Next]_vars => ValuesOwned'
<1> SUFFICES ASSUME TypeOK, AllocatedInSlots, ValuesOwned, [Next]_vars, ~misused'
             PROVE  \A i \in Live' : SlotOwned(i)'
  <2>1. TypeOK /\ AllocatedInSlots /\ [Next]_vars => AllocatedInSlots'
    BY AllocatedStep
  <2>2. AllocatedInSlots' => (ValuesOwned' <=> (~misused' => \A i \in Live' : SlotOwned(i)'))
    BY DEF AllocatedInSlots, ValuesOwned, SlotOwned, PtrsOf
  <2> QED BY <2>1, <2>2
<1>0. ASSUME ~misused PROVE \A i \in Live : SlotOwned(i)
  BY <1>0, ValuesAre
<1>1. CASE UNCHANGED tables
  BY <1>0, <1>1 DEF tables, Live, SlotOwned
<1>2. ASSUME NEW k \in Keys, NEW v \in Values, CreatesValue(k, v)
      PROVE  \A i \in Live' : SlotOwned(i)'
  <2> DEFINE n == Len(slots) + 1
  <2>1. PICK x : StoredAt(x, n, k, v, allocated)
    BY <1>2, Created
  <2>2. n \notin DOMAIN slots /\ ~misused
    BY <1>2, Created DEF CreatesValue
  <2>3. \A j \in DOMAIN slots : slots[j].key # k
    BY <1>2 DEF CreatesValue, SlotsOf
  <2> HIDE DEF n
  <2>4. \A j \in Live : /\ j \in DOMAIN slots /\ slots'[j] = slots[j] /\ j # n
                        /\ slots[j].ptr \in allocated /\ slots[j].key # k
                        /\ slots[j].ptr # x
                        /\ chunk'[slots[j].ptr] = chunk[slots[j].ptr]
    BY <1>0, <2>1, <2>2, <2>3 DEF Live, SlotOwned, StoredAt
  <2>5. Live' \subseteq Live \cup {n}
    BY <2>1 DEF Live, StoredAt
  <2> QED BY <1>0, <2>1, <2>2, <2>4, <2>5 DEF StoredAt, SlotOwned
<1>3. ASSUME NEW k \in Keys, NEW v \in Values, UpdatesValue(k, v)
      PROVE  \A i \in Live' : SlotOwned(i)'
  <2> DEFINE n == SlotOf(k)
             inUse == InUseAfterFree(k)
  <2>1. PICK x : StoredAt(x, n, k, v, inUse)
    BY <1>3, Updated
  <2>2. /\ n \in DOMAIN slots /\ slots[n].key = k /\ inUse = allocated \ {slots[n].ptr}
        /\ ~misused /\ k # -1
    BY <1>3, Updated, SlotTypes DEF UpdatesValue, TypeOK
  <2> HIDE DEF n, inUse
  <2>3. n \in Live
    BY <2>2 DEF Live
  <2>4. \A j \in Live \ {n} : /\ slots'[j] = slots[j] /\ slots[j].ptr \in inUse
                              /\ slots[j].key # k /\ slots[j].ptr # x
                              /\ chunk'[slots[j].ptr] = chunk[slots[j].ptr]
    BY <1>0, <2>1, <2>2, <2>3 DEF Live, SlotOwned, StoredAt
  <2>5. Live' \subseteq Live
    BY <2>1, <2>2 DEF Live, StoredAt
  <2> QED BY <1>0, <2>1, <2>2, <2>3, <2>4, <2>5 DEF StoredAt, SlotOwned
<1>4. ASSUME NEW k \in Keys, DeletesValue(k)
      PROVE  \A i \in Live' : SlotOwned(i)'
  <2>1. /\ SlotOf(k) \in Live /\ ~misused
    BY <1>4, Deleted DEF DeletesValue, TypeOK, Live
  <2>2. Live' = Live \ {SlotOf(k)}
    BY <1>4, Deleted DEF Live
  <2>3. \A j \in Live' : /\ slots'[j] = slots[j] /\ slots[j].ptr \in allocated'
                         /\ chunk'[slots[j].ptr] = chunk[slots[j].ptr]
    BY <1>0, <1>4, <2>1, <2>2, Deleted DEF Live, SlotOwned
  <2> QED BY <1>0, <2>1, <2>2, <2>3 DEF SlotOwned
<1> QED BY <1>1, <1>2, <1>3, <1>4, TableCases

(* A client never has two requests under way, nor one and a reply. *)
LEMMA OneRequestStep == TypeOK /\ OneRequest /\ [Next]_vars => OneRequest'
<1> SUFFICES ASSUME TypeOK, OneRequest, [Next]_vars PROVE OneRequest'
  OBVIOUS
<1> USE DEF TypeOK, OneRequest
<1>1. CASE UNCHANGED <<client, request, reply>>
  BY <1>1
<1>2. CASE Serve
  <2>1. CASE Answers(newsockfd)
    BY <1>2, <2>1, ServeMessages DEF Answers
  <2> QED BY <1>1, <1>2, <2>1, ServeMessages DEF Crash
<1>3. ASSUME NEW c \in Clients, Connect(c) PROVE OneRequest'
  BY <1>3 DEF Connect
<1>4. ASSUME NEW c \in Clients, Receive(c) PROVE OneRequest'
  BY <1>4 DEF Receive
<1>5. ASSUME NEW c \in Clients, HangUp(c) PROVE OneRequest'
  BY <1>5 DEF HangUp
<1>6. ASSUME NEW c \in Clients, NEW r \in Requests, Send(c, r) PROVE OneRequest'
  BY <1>6 DEF Send
<1> QED BY <1>1, <1>2, <1>3, <1>4, <1>5, <1>6 DEF Next, vars, Server, Client,
  Accept, ServeHangUp, Crash

-----------------------------------------------------------------------------
LEMMA InitIInv == Init => IInv
<1> SUFFICES ASSUME Init PROVE IInv
  OBVIOUS
<1> USE DEF Init
<1>1. TypeOK
  <2>1. slots \in Seq(Slot) /\ Len(slots) = 0 /\ DOMAIN slots = {}
    OBVIOUS
  <2>2. backlog \in Seq(Clients)
    OBVIOUS
  <2>3. Len(slots) <= MAX_KEYS
    BY <2>1, Sizes
  <2>4. /\ chunk \in [Chunks -> Values \cup {Junk}] /\ allocated \subseteq Chunks
        /\ newsockfd \in Clients \cup {None} /\ misused \in BOOLEAN
        /\ server \in {"up", "write failed", "abort", "crashed"}
    OBVIOUS
  <2>5. /\ client \in [Clients -> {"new", "typing", "reading", "gone"}]
        /\ request \in [Clients -> Requests \cup {None}]
        /\ reply \in [Clients -> Replies \cup {None}]
    OBVIOUS
  <2> QED BY <2>1, <2>2, <2>3, <2>4, <2>5 DEF TypeOK, Slot
<1>2. AllocatedInSlots /\ ValuesOwned
  BY DEF AllocatedInSlots, ValuesOwned, Live, PtrsOf
<1>3. OneRequest
  BY DEF OneRequest
<1> QED BY <1>1, <1>2, <1>3 DEF IInv

LEMMA NextIInv == IInv /\ [Next]_vars => IInv'
BY TypeStep, AllocatedStep, ValuesStep, OneRequestStep DEF IInv

LEMMA Inductive == Spec => []IInv
<1>1. Init => IInv
  BY InitIInv
<1>2. IInv /\ [Next]_vars => IInv'
  BY NextIInv
<1> QED BY <1>1, <1>2, PTL DEF Spec

(* Every key is in one slot, whose chunk is allocated, holds a value and   *)
(* belongs to no other key, and no chunk is leaked, in all states that the *)
(* handlers of my_server.c reach before key -1 is updated or deleted; and  *)
(* every variable keeps its type.                                          *)
THEOREM StoreCorrect == Spec => []StoreInv
<1>1. IInv => StoreInv
  BY DEF IInv, StoreInv
<1> QED BY <1>1, Inductive, PTL

-----------------------------------------------------------------------------
(* What is stored of a key in any slots and chunks, and how a step of the  *)
(* server changes it.                                                      *)
FoundIn(sl, k) == {i \in DOMAIN sl : sl[i].key = k}
ValueIn(sl, ch, k) == IF FoundIn(sl, k) = {} THEN NoValue ELSE ch[sl[Min(FoundIn(sl, k))].ptr]

LEMMA StoredIs ==
  \A k : /\ StoredValue(k) = ValueIn(slots, chunk, k)
         /\ (StoredValue(k))' = ValueIn(slots', chunk', k)
BY Zenon DEF StoredValue, ValueIn, SlotsOf, SlotOf, FoundIn

LEMMA ValueFound ==
  ASSUME NEW sl, NEW ch, NEW k, DOMAIN sl \subseteq Nat,
         NEW i \in DOMAIN sl, sl[i].key = k, \A j \in DOMAIN sl : sl[j].key = k => j = i
  PROVE  ValueIn(sl, ch, k) = ch[sl[i].ptr]
<1>1. FoundIn(sl, k) = {i}
  BY DEF FoundIn
<1>2. Min({i}) = i
  BY MinIsLeast
<1> QED BY <1>1, <1>2 DEF ValueIn

LEMMA ValueKept ==
  ASSUME NEW sl, NEW ch, NEW other, NEW others, NEW k, DOMAIN sl \subseteq Nat,
         FoundIn(other, k) = FoundIn(sl, k),
         \A i \in FoundIn(sl, k) : other[i] = sl[i] /\ others[sl[i].ptr] = ch[sl[i].ptr]
  PROVE  ValueIn(other, others, k) = ValueIn(sl, ch, k)
<1>1. FoundIn(sl, k) \in SUBSET Nat
  BY DEF FoundIn
<1>2. FoundIn(sl, k) # {} => Min(FoundIn(sl, k)) \in FoundIn(sl, k)
  BY <1>1, MinIsLeast
<1> QED BY <1>2 DEF ValueIn

(* The store has a value for exactly the keys that are in a slot. *)
LEMMA StoredExists ==
  ASSUME IInv, ~misused, NEW k \in Keys \ {-1}
  PROVE  /\ SlotsOf(k) # {} => StoredValue(k) \in Values
         /\ SlotsOf(k) = {} => StoredValue(k) = NoValue
         /\ StoredValue(k) # NoValue <=> SlotsOf(k) # {}
         /\ \A i \in SlotsOf(k) : i \in Live /\ i = SlotOf(k) /\ slots[i].ptr \in allocated
<1>1. \A i \in SlotsOf(k) : i \in Live
  BY DEF SlotsOf, Live
<1>2. SlotsOf(k) # {} => SlotOf(k) \in Live /\ slots[SlotOf(k)].key = k
  BY SlotFound DEF IInv, Live
<1>3. \A i \in Live : SlotOwned(i)
  BY ValuesAre DEF IInv
<1>4. \A i \in SlotsOf(k) : i = SlotOf(k)
  BY <1>1, <1>2, <1>3 DEF SlotOwned, SlotsOf
<1>5. NoValue \notin Values
  BY KVAssumption
<1> QED BY <1>1, <1>2, <1>3, <1>4, <1>5 DEF StoredValue, SlotOwned

(* The values that a step leaves to the keys, one lemma for each change. *)
LEMMA CreatedValue ==
  ASSUME IInv, ~misused, NEW k \in Keys, NEW v \in Values, CreatesValue(k, v),
         NEW q \in Keys \ {-1}
  PROVE  (StoredValue(q))' = IF q = k THEN v ELSE StoredValue(q)
<1> DEFINE n == Len(slots) + 1
<1>1. PICK x : StoredAt(x, n, k, v, allocated)
  BY Created DEF IInv
<1>2. /\ n \notin DOMAIN slots /\ DOMAIN slots \subseteq Nat
      /\ n \in Nat
  BY Created, SlotTypes DEF IInv
<1> HIDE DEF n
<1>3. DOMAIN slots' = DOMAIN slots \cup {n} /\ DOMAIN slots' \subseteq Nat
  BY <1>1, <1>2 DEF StoredAt
<1>4. CASE q = k
  <2>1. \A j \in DOMAIN slots' : slots'[j].key = q => j = n
    BY <1>1, <1>3, <1>4 DEF StoredAt, CreatesValue, SlotsOf
  <2>2. ValueIn(slots', chunk', q) = chunk'[slots'[n].ptr]
    BY <1>1, <1>3, <1>4, <2>1, ValueFound DEF StoredAt
  <2> QED BY <1>1, <1>4, <2>2, StoredIs DEF StoredAt
<1>5. CASE q # k
  <2>1. FoundIn(slots', q) = FoundIn(slots, q)
    BY <1>1, <1>2, <1>3, <1>5 DEF FoundIn, StoredAt
  <2>2. \A i \in FoundIn(slots, q) : slots'[i] = slots[i] /\ slots[i].ptr \in allocated
    BY <1>1, <1>2, StoredExists DEF FoundIn, SlotsOf, StoredAt
  <2>3. \A i \in FoundIn(slots, q) : chunk'[slots[i].ptr] = chunk[slots[i].ptr]
    BY <1>1, <2>2 DEF StoredAt
  <2> QED BY <1>2, <1>5, <2>1, <2>2, <2>3, ValueKept, StoredIs
<1> QED BY <1>4, <1>5

LEMMA UpdatedValue ==
  ASSUME IInv, ~misused, NEW k \in Keys \ {-1}, NEW v \in Values, UpdatesValue(k, v),
         NEW q \in Keys \ {-1}
  PROVE  (StoredValue(q))' = IF q = k THEN v ELSE StoredValue(q)
<1> DEFINE n == SlotOf(k)
           inUse == InUseAfterFree(k)
<1>1. PICK x : StoredAt(x, n, k, v, inUse)
  BY Updated DEF IInv
<1>2. /\ n \in DOMAIN slots /\ slots[n].key = k /\ inUse = allocated \ {slots[n].ptr}
      /\ DOMAIN slots \subseteq Nat
  BY Updated, SlotTypes DEF IInv
<1>3. \A i \in SlotsOf(k) : i = n
  BY StoredExists
<1> HIDE DEF n, inUse
<1>4. DOMAIN slots' = DOMAIN slots
  BY <1>1, <1>2 DEF StoredAt
<1>5. CASE q = k
  <2>1. \A j \in DOMAIN slots' : slots'[j].key = q => j = n
    BY <1>1, <1>3, <1>4, <1>5 DEF StoredAt, SlotsOf
  <2>2. ValueIn(slots', chunk', q) = chunk'[slots'[n].ptr]
    BY <1>1, <1>2, <1>4, <1>5, <2>1, ValueFound DEF StoredAt
  <2> QED BY <1>1, <1>5, <2>2, StoredIs DEF StoredAt
<1>6. CASE q # k
  <2>1. FoundIn(slots', q) = FoundIn(slots, q) /\ n \notin FoundIn(slots, q)
    BY <1>1, <1>2, <1>4, <1>6 DEF FoundIn, StoredAt
  <2>2. \A i \in FoundIn(slots, q) : slots'[i] = slots[i] /\ slots[i].ptr \in inUse
    <3>1. \A i \in Live : SlotOwned(i)
      BY ValuesAre DEF IInv
    <3>2. n \in Live /\ \A i \in FoundIn(slots, q) : i \in Live /\ i # n
      BY <1>2, <2>1 DEF Live, FoundIn
    <3> QED BY <1>1, <1>2, <3>1, <3>2 DEF StoredAt, SlotOwned, Live
  <2>3. \A i \in FoundIn(slots, q) : chunk'[slots[i].ptr] = chunk[slots[i].ptr]
    BY <1>1, <2>2 DEF StoredAt
  <2> QED BY <1>2, <1>6, <2>1, <2>2, <2>3, ValueKept, StoredIs
<1> QED BY <1>5, <1>6

LEMMA DeletedValue ==
  ASSUME IInv, ~misused, NEW k \in Keys \ {-1}, DeletesValue(k), NEW q \in Keys \ {-1}
  PROVE  (StoredValue(q))' = IF q = k THEN NoValue ELSE StoredValue(q)
<1> DEFINE n == SlotOf(k)
<1>1. /\ n \in DOMAIN slots /\ slots[n].key = k /\ DOMAIN slots \subseteq Nat
      /\ DOMAIN slots' = DOMAIN slots /\ slots'[n].key = -1
      /\ \A j \in DOMAIN slots \ {n} : slots'[j] = slots[j]
      /\ allocated' = allocated \ {slots[n].ptr}
      /\ \A x \in allocated' : chunk'[x] = chunk[x]
  BY Deleted, SlotTypes DEF IInv
<1>2. \A i \in SlotsOf(k) : i = n
  BY StoredExists
<1> HIDE DEF n
<1>3. CASE q = k
  <2>1. FoundIn(slots', q) = {}
    BY <1>1, <1>2, <1>3 DEF FoundIn, SlotsOf
  <2> QED BY <1>3, <2>1, StoredIs DEF ValueIn
<1>4. CASE q # k
  <2>1. FoundIn(slots', q) = FoundIn(slots, q) /\ n \notin FoundIn(slots, q)
    BY <1>1, <1>4 DEF FoundIn
  <2>2. \A i \in FoundIn(slots, q) : slots'[i] = slots[i] /\ slots[i].ptr \in allocated'
    <3>1. \A i \in Live : SlotOwned(i)
      BY ValuesAre DEF IInv
    <3>2. n \in Live /\ \A i \in FoundIn(slots, q) : i \in Live /\ i # n
      BY <1>1, <2>1 DEF Live, FoundIn
    <3> QED BY <1>1, <3>1, <3>2 DEF SlotOwned, Live
  <2>3. \A i \in FoundIn(slots, q) : chunk'[slots[i].ptr] = chunk[slots[i].ptr]
    BY <1>1, <2>2
  <2> QED BY <1>1, <1>4, <2>1, <2>2, <2>3, ValueKept, StoredIs
<1> QED BY <1>3, <1>4

-----------------------------------------------------------------------------
(* The refinement: the server's tables are the map that KVStore promises.  *)
StoreMap == [k \in Keys \ {-1} |-> StoredValue(k)]

LEMMA StoreIs ==
  /\ Store!UserKeys = Keys \ {-1} /\ Store!RESERVED = -1
  /\ \A k \in Keys \ {-1} : StoreMap[k] = StoredValue(k) /\ (StoreMap[k])' = (StoredValue(k))'
BY DEF Store!UserKeys, Store!RESERVED, StoreMap

(* A step that leaves the tables alone leaves the map alone. *)
LEMMA StoreKept ==
  ASSUME UNCHANGED <<slots, chunk>>
  PROVE  StoreMap' = StoreMap /\ Len(slots') = Len(slots)
<1>1. \A k \in Keys \ {-1} : (StoredValue(k))' = StoredValue(k)
  BY StoredIs
<1> QED BY <1>1 DEF StoreMap

(* A request about a key that users may use, before key -1 was misused,    *)
(* is answered and changes the map as promised.                            *)
LEMMA PromiseKept ==
  ASSUME IInv, [Next]_vars, Serve, ~Crash, ~misused, NEW r, r = request[newsockfd],
         r.key # -1
  PROVE  Store!Promised(newsockfd, r)
<1> DEFINE c == newsockfd
<1>1. c \in Clients /\ r \in Requests /\ r # None /\ Handle(c, r)
  BY ServeMessages DEF IInv, Serve
<1>2. r.key \in Keys => /\ r.key \in Keys \ {-1} /\ StoreMap[r.key] = StoredValue(r.key)
                        /\ Store!Exists(r.key) <=> SlotsOf(r.key) # {}
  BY StoredExists, StoreIs DEF Store!Exists, StoreMap
<1> HIDE DEF c
<1>3. ASSUME NEW text, Answer(c, text)
      PROVE  reply' \in {reply, [reply EXCEPT ![c] = text]}
  BY <1>3 DEF Answer
<1>4. ASSUME r.op = "create" PROVE Store!Promised(c, r)
  <2>1. /\ r.key \in Keys /\ r.value \in Values
        /\ create_key_value_pair(c, r.key, r.value)
    BY <1>1, <1>4, RequestCases DEF Handle
  <2>2. Store!Result(r) = CASE StorageFull -> "storage full"
                            [] ~StorageFull /\ SlotsOf(r.key) # {} -> "already key exists"
                            [] OTHER -> "Key Value pair Added"
    BY <1>2, <1>4, <2>1 DEF Store!Result, Store!CreateResult, StorageFull
  <2>3. reply' \in {reply, [reply EXCEPT ![c] = Store!Result(r)]}
    <3>1. Answer(c, Store!Result(r))
      BY <2>1, <2>2, Zenon DEF create_key_value_pair
    <3> QED BY <1>3, <3>1
  <2>4. misused' = FALSE
    BY <2>1 DEF create_key_value_pair, IInv, TypeOK
  <2>5. Store!Creates(r) <=> ~StorageFull /\ SlotsOf(r.key) = {}
    BY <1>2, <1>4, <2>1 DEF Store!Creates, StorageFull
  <2>6. CASE ~StorageFull /\ SlotsOf(r.key) = {}
    <3>1. CreatesValue(r.key, r.value)
      BY <2>1, <2>6 DEF create_key_value_pair, CreatesValue
    <3>2. \A q \in Keys \ {-1} :
            (StoredValue(q))' = IF q = r.key THEN r.value ELSE StoredValue(q)
      BY <2>1, <3>1, CreatedValue
    <3>3. Len(slots') = Len(slots) + 1
      BY <2>1, <3>1, Created DEF IInv, StoredAt
    <3>4. StoreMap' = [StoreMap EXCEPT ![r.key] = r.value]
      BY <3>2 DEF StoreMap
    <3>5. Store!Effect(r) = [StoreMap EXCEPT ![r.key] = r.value]
      <4>1. Store!Creates(r)
        BY <2>5, <2>6
      <4> QED BY <1>4, <4>1 DEF Store!Effect, StoreMap
    <3>6. StoreMap' = Store!Effect(r)
      BY <3>4, <3>5
    <3> QED BY <2>3, <2>4, <2>5, <2>6, <3>3, <3>6 DEF Store!Promised, StoreMap
  <2>7. CASE ~(~StorageFull /\ SlotsOf(r.key) = {})
    <3>1. UNCHANGED <<slots, chunk>>
      BY <2>1, <2>7 DEF create_key_value_pair
    <3> QED BY <1>4, <2>3, <2>4, <2>5, <2>7, <3>1, StoreKept
            DEF Store!Promised, Store!Effect, StoreMap
  <2> QED BY <2>6, <2>7
<1>5. ASSUME r.op # "create", ~ (r.op \in {"update", "delete"} /\ SlotsOf(r.key) # {}),
             reply' \in {reply, [reply EXCEPT ![c] = Store!Result(r)]}, UNCHANGED tables
      PROVE  Store!Promised(c, r)
  <2>1. ~Store!Creates(r) /\ ~ (r.op \in {"update", "delete"} /\ Store!Exists(r.key))
    BY <1>1, <1>2, <1>5, RequestCases DEF Store!Creates
  <2>2. StoreMap' = StoreMap /\ Len(slots') = Len(slots) /\ misused' = FALSE
    BY <1>5, StoreKept DEF tables, IInv, TypeOK
  <2>3. Store!Effect(r) = StoreMap
    BY <2>1 DEF Store!Effect, StoreMap
  <2>4. StoreMap' = Store!Effect(r)
    BY <2>2, <2>3
  <2> QED BY <1>5, <2>1, <2>2, <2>4 DEF Store!Promised, StoreMap
<1>6. ASSUME r.op = "read" PROVE Store!Promised(c, r)
  <2>1. r.key \in Keys /\ Read(c, r.key)
    BY <1>1, <1>6, RequestCases DEF Handle
  <2>2. Store!Result(r) = IF SlotsOf(r.key) = {} THEN "No such key" ELSE StoredValue(r.key)
    BY <1>2, <1>6, <2>1 DEF Store!Result, Store!ReadResult, StoreMap
  <2>3. Answer(c, Store!Result(r))
    BY <2>1, <2>2 DEF Read, StoredValue
  <2> QED BY <1>3, <1>5, <1>6, <2>1, <2>3 DEF Read
(* The chunk of a key that is not -1 is in use, so that free succeeds. *)
<1>7. r.key \in Keys => ~FreeAborts(c, r.key)
  BY <1>2, StoreIs, SlotFound, StoredExists DEF FreeAborts, IInv, SlotsOf
<1>8. ASSUME r.op \in {"update", "delete"}, r.key \in Keys, NoSuchKey(c, r.key)
      PROVE  Store!Promised(c, r)
  <2>1. Store!Result(r) = "No such key"
    BY <1>2, <1>8 DEF NoSuchKey, Store!Result, Store!ChangeResult
  <2>2. Answer(c, Store!Result(r)) /\ UNCHANGED tables /\ SlotsOf(r.key) = {}
    BY <1>8, <2>1 DEF NoSuchKey
  <2> QED BY <1>3, <1>5, <1>8, <2>2
<1>9. ASSUME r.op = "update" PROVE Store!Promised(c, r)
  <2>1. r.key \in Keys /\ r.value \in Values /\ update(c, r.key, r.value)
    BY <1>1, <1>9, RequestCases DEF Handle
  <2>2. CASE NoSuchKey(c, r.key)
    BY <1>8, <1>9, <2>1, <2>2
  <2>3. CASE ~NoSuchKey(c, r.key)
    <3>1. UpdatesValue(r.key, r.value) /\ Answer(c, "Updated")
      BY <1>7, <2>1, <2>3 DEF update, UpdatesValue
    <3>2. Store!Exists(r.key) /\ Store!Result(r) = "Updated"
      BY <1>2, <1>9, <2>1, <3>1 DEF UpdatesValue, Store!Result, Store!ChangeResult
    <3>3. \A q \in Keys \ {-1} :
            (StoredValue(q))' = IF q = r.key THEN r.value ELSE StoredValue(q)
      BY <1>2, <2>1, <3>1, UpdatedValue
    <3>4. Len(slots') = Len(slots) /\ misused' = FALSE
      <4>1. misused' = FALSE
        BY <1>2, <2>1, <3>1 DEF UpdatesValue, IInv, TypeOK
      <4> QED BY <2>1, <3>1, <4>1, Updated DEF IInv, StoredAt
    <3>5. StoreMap' = [StoreMap EXCEPT ![r.key] = r.value]
      BY <3>3 DEF StoreMap
    <3>6. Store!Effect(r) = [StoreMap EXCEPT ![r.key] = r.value]
      BY <1>9, <3>2 DEF Store!Effect, StoreMap
    <3>7. StoreMap' = Store!Effect(r) /\ ~Store!Creates(r)
      BY <1>9, <3>5, <3>6 DEF Store!Creates
    <3>8. reply' \in {reply, [reply EXCEPT ![c] = Store!Result(r)]}
      BY <1>3, <3>1, <3>2
    <3> QED BY <3>4, <3>7, <3>8 DEF Store!Promised, StoreMap
  <2> QED BY <2>2, <2>3
<1>10. ASSUME r.op = "delete" PROVE Store!Promised(c, r)
  <2>1. r.key \in Keys /\ delete(c, r.key)
    BY <1>1, <1>10, RequestCases DEF Handle
  <2>2. CASE NoSuchKey(c, r.key)
    BY <1>8, <1>10, <2>1, <2>2
  <2>3. CASE ~NoSuchKey(c, r.key)
    <3>1. DeletesValue(r.key) /\ Answer(c, "Deleted key")
      BY <1>7, <2>1, <2>3 DEF delete, DeletesValue
    <3>2. Store!Exists(r.key) /\ Store!Result(r) = "Deleted key"
      BY <1>2, <1>10, <2>1, <3>1 DEF DeletesValue, Store!Result, Store!ChangeResult
    <3>3. \A q \in Keys \ {-1} :
            (StoredValue(q))' = IF q = r.key THEN NoValue ELSE StoredValue(q)
      BY <1>2, <2>1, <3>1, DeletedValue
    <3>4. Len(slots') = Len(slots) /\ misused' = FALSE
      <4>1. misused' = FALSE
        BY <1>2, <2>1, <3>1 DEF DeletesValue, IInv, TypeOK
      <4> QED BY <3>1, <4>1, Deleted DEF IInv
    <3>5. StoreMap' = [StoreMap EXCEPT ![r.key] = NoValue]
      BY <3>3 DEF StoreMap
    <3>6. Store!Effect(r) = [StoreMap EXCEPT ![r.key] = NoValue]
      BY <1>10, <3>2 DEF Store!Effect, Store!Creates, StoreMap
    <3>7. StoreMap' = Store!Effect(r) /\ ~Store!Creates(r)
      BY <1>10, <3>5, <3>6 DEF Store!Creates
    <3>8. reply' \in {reply, [reply EXCEPT ![c] = Store!Result(r)]}
      BY <1>3, <3>1, <3>2
    <3> QED BY <3>4, <3>7, <3>8 DEF Store!Promised, StoreMap
  <2> QED BY <2>2, <2>3
<1>11. ASSUME r.op = "disconnect" PROVE Store!Promised(c, r)
  <2>1. Answer(c, Store!Result(r)) /\ UNCHANGED tables
    BY <1>1, <1>11 DEF Handle, disconnect, Store!Result
  <2> QED BY <1>3, <1>5, <1>11, <2>1
<1>12. ASSUME r.op = "other word" PROVE Store!Promised(c, r)
  <2>1. Answer(c, Store!Result(r)) /\ UNCHANGED tables
    BY <1>1, <1>12 DEF Handle, Store!Result
  <2> QED BY <1>3, <1>5, <1>12, <2>1
<1>13. r.op # "empty line"
  BY <1>1 DEF Handle
<1> QED BY <1>1, <1>4, <1>6, <1>9, <1>10, <1>11, <1>12, <1>13, RequestCases DEF c

(* A request about key -1, before it is misused, changes no other key,     *)
(* unless it misuses it.                                                   *)
LEMMA ReservedKept ==
  ASSUME IInv, [Next]_vars, Serve, ~Crash, ~misused, NEW r, r = request[newsockfd],
         r.key = -1
  PROVE  Store!Reserved(newsockfd, r)
<1> DEFINE c == newsockfd
<1>1. c \in Clients /\ r \in Requests /\ r # None /\ Handle(c, r)
  BY ServeMessages DEF IInv, Serve
<1>2. r.key \in Keys /\ r.op \in {"create", "read", "update", "delete"}
  <2>1. \/ r.op \in {"create", "update"} /\ r.key \in Keys
        \/ r.op \in {"read", "delete"} /\ r.key \in Keys
        \/ r.key = 0
    BY <1>1, RequestCases
  <2> HIDE DEF c
  <2> QED BY <2>1
<1>3. \E text \in Replies : reply' \in {reply, [reply EXCEPT ![c] = text]}
  <2>1. Answers(c)
    BY ServeMessages DEF IInv
  <2>2. Junk \in Replies
    BY DEF Replies
  <2> QED BY <2>1, <2>2 DEF Answers
<1> HIDE DEF c
<1>4. CASE UNCHANGED tables
  <2>1. StoreMap' = StoreMap /\ Len(slots') = Len(slots) /\ misused' = misused
    BY <1>4, StoreKept DEF tables
  <2> QED BY <1>3, <2>1 DEF Store!Reserved, StoreMap, c
<1>5. CASE r.op = "create" /\ CreatesValue(-1, r.value)
  <2>1. r.value \in Values /\ -1 \in Keys
    BY <1>1, <1>2, <1>5, RequestCases
  <2>2. \A q \in Keys \ {-1} : (StoredValue(q))' = StoredValue(q)
    BY <1>5, <2>1, CreatedValue
  <2>3. StoreMap' = StoreMap
    BY <2>2 DEF StoreMap
  <2>4. Len(slots') = Len(slots) + 1 /\ misused' = misused
    BY <1>5, <2>1, Created DEF IInv, StoredAt, CreatesValue
  <2> QED BY <1>3, <2>3, <2>4 DEF Store!Reserved, StoreMap, c
<1>6. CASE r.op \in {"update", "delete"} /\ Len(slots') = Len(slots) /\ misused' = TRUE
  BY <1>3, <1>6 DEF Store!Reserved, c
<1>7. CASE r.op = "create"
  BY <1>1, <1>2, <1>4, <1>5, <1>7 DEF Handle, create_key_value_pair, CreatesValue, tables
<1>8. CASE r.op = "read"
  BY <1>1, <1>4, <1>8 DEF Handle, Read
<1>9. CASE r.op = "update"
  <2>1. r.value \in Values /\ -1 \in Keys /\ update(c, -1, r.value)
    BY <1>1, <1>2, <1>9, RequestCases DEF Handle
  <2>2. UpdatesValue(-1, r.value) => Len(slots') = Len(slots) /\ misused' = TRUE
    BY <2>1, Updated DEF IInv, StoredAt, UpdatesValue
  <2> QED BY <1>4, <1>6, <1>9, <2>1, <2>2 DEF update, NoSuchKey, FreeAborts, UpdatesValue
<1>10. CASE r.op = "delete"
  <2>1. delete(c, -1)
    BY <1>1, <1>2, <1>10 DEF Handle
  <2>2. DeletesValue(-1) => Len(slots') = Len(slots) /\ misused' = TRUE
    BY Deleted DEF IInv, DeletesValue
  <2> QED BY <1>4, <1>6, <1>10, <2>1, <2>2 DEF delete, NoSuchKey, FreeAborts, DeletesValue
<1> QED BY <1>2, <1>7, <1>8, <1>9, <1>10 DEF c

LEMMA StoreInit == Init => Store!Init
<1> SUFFICES ASSUME Init PROVE Store!Init
  OBVIOUS
<1>1. \A k : StoredValue(k) = NoValue
  BY DEF Init, StoredValue, SlotsOf
<1> QED BY <1>1 DEF Init, Store!Init, Store!UserKeys, Store!RESERVED

LEMMA StoreStep == IInv /\ [Next]_vars => [Store!Next]_Store!vars
<1> SUFFICES ASSUME IInv, [Next]_vars PROVE [Store!Next]_Store!vars
  OBVIOUS
<1>1. ASSUME UNCHANGED <<tables, request, reply>> PROVE UNCHANGED Store!vars
  <2>1. StoreMap' = StoreMap
    BY <1>1, StoreKept DEF tables
  <2> QED BY <1>1, <2>1 DEF tables, Store!vars, StoreMap
<1>2. ASSUME Serve, ~Crash PROVE Store!Next
  <2> DEFINE c == newsockfd
             r == request[newsockfd]
  <2>1. c \in Clients /\ r # None /\ request' = [request EXCEPT ![c] = None]
    BY <1>2, ServeMessages DEF IInv, Answers
  <2>2. misused => misused' = TRUE
    BY TableCases DEF IInv, TypeOK, tables, CreatesValue, UpdatesValue, DeletesValue
  <2>3. ~misused /\ r.key = -1 => Store!Reserved(c, r)
    BY <1>2, ReservedKept
  <2>4. ~misused /\ r.key # -1 => Store!Promised(c, r)
    BY <1>2, PromiseKept
  <2>5. Store!Answer(c)
    BY <2>1, <2>2, <2>3, <2>4, StoreIs DEF Store!Answer
  <2> QED BY <2>1, <2>5 DEF Store!Next
<1>3. ASSUME NEW c \in Clients, NEW q \in Requests, Send(c, q) PROVE Store!Next
  <2>1. request[c] = None /\ request' = [request EXCEPT ![c] = q] /\ q # None
    BY <1>3, KVAssumption DEF Send, IInv, OneRequest
  <2>2. request'[c] = q
    BY <2>1 DEF IInv, TypeOK
  <2>3. StoreMap' = StoreMap /\ Len(slots') = Len(slots) /\ reply' = reply /\ misused' = misused
    BY <1>3, StoreKept DEF Send, tables
  <2>4. Store!Ask(c)
    BY <2>1, <2>2, <2>3 DEF Store!Ask, StoreMap
  <2> QED BY <2>4 DEF Store!Next
<1>4. ASSUME NEW c \in Clients, Receive(c) \/ HangUp(c) PROVE Store!Next
  <2>1. /\ UNCHANGED <<tables, request>> /\ reply' = [reply EXCEPT ![c] = None]
    BY <1>4 DEF Receive, HangUp
  <2>2. StoreMap' = StoreMap
    BY <2>1, StoreKept DEF tables
  <2>3. Store!Take(c)
    BY <2>1, <2>2 DEF Store!Take, StoreMap, tables
  <2> QED BY <2>3 DEF Store!Next
<1> QED BY <1>1, <1>2, <1>3, <1>4 DEF Next, vars, Server, Client, Accept,
  ServeHangUp, Crash, Connect

(* my_server.c keeps the promise of KVStore: whatever order clients        *)
(* connect, send and hang up in, every answer is that of one map they      *)
(* share.                                                                  *)
THEOREM Refinement == Spec => ImplementsKVStore
<1>1. Init => Store!Init
  BY StoreInit
<1>2. IInv /\ [Next]_vars => [Store!Next]_Store!vars
  BY StoreStep
<1> QED BY <1>1, <1>2, Inductive, PTL DEF Spec, ImplementsKVStore, Store!Spec

-----------------------------------------------------------------------------
(* Who talks to the server.  A client ends its connection when it reads    *)
(* "disconnecting", so the answers must be told apart from the values.     *)
DistinctReplies == None \notin Replies /\ "disconnecting" \notin Values \cup {Junk}

Queued(c) == \E i \in 1 .. Len(backlog) : backlog[i] = c
Connected(c) == c = newsockfd \/ Queued(c)

(* A client has one connection at most: it is served, or once in the       *)
(* listen queue, or neither, and then it is new or will be.                *)
Connections ==
  /\ \A i, j \in 1 .. Len(backlog) : i # j => backlog[i] # backlog[j]
  /\ newsockfd # None => ~Queued(newsockfd)
  /\ \A c \in Clients : client[c] = "new" \/ reply[c] = "disconnecting" => ~Connected(c)

(* A client that types or waits is connected, and one that waits has sent  *)
(* its request or has its answer.                                          *)
Waits == server = "up" => \A c \in Clients :
  /\ client[c] = "typing" => Connected(c)
  /\ client[c] = "reading" => reply[c] # None \/ request[c] # None
  /\ client[c] = "reading" /\ reply[c] # "disconnecting" => Connected(c)

(* What Server needs for a step. *)
ServerCanStep ==
  \/ newsockfd = None /\ backlog # <<>>
  \/ newsockfd # None /\ (request[newsockfd] # None \/ client[newsockfd] = "gone")

(* A client that waits for its answer has its request in its socket and is *)
(* served or in the queue, and it waits for the server alone or for the    *)
(* one client before it, which has to type or to read its answer.          *)
NobodyForgotten == server = "up" =>
  \A c \in Clients : client[c] = "reading" /\ reply[c] = None =>
    /\ request[c] # None /\ Connected(c)
    /\ ServerCanStep \/ client[newsockfd] = "typing" \/ reply[newsockfd] # None

(* No client is refused: the listen queue of listen(sockfd, 5) has room.   *)
QueueFits == Len(backlog) <= 6

(* The queue when a client connects and when it is accepted. *)
LEMMA QueueGrows ==
  ASSUME backlog \in Seq(Clients), NEW c \in Clients, backlog' = Append(backlog, c)
  PROVE  /\ Len(backlog') = Len(backlog) + 1 /\ Len(backlog) \in Nat
         /\ backlog'[Len(backlog) + 1] = c
         /\ \A i \in 1 .. Len(backlog) : backlog'[i] = backlog[i]
         /\ \A b : Queued(b)' <=> Queued(b) \/ b = c
<1>1. /\ Len(backlog') = Len(backlog) + 1 /\ Len(backlog) \in Nat
      /\ backlog'[Len(backlog) + 1] = c
      /\ \A i \in 1 .. Len(backlog) : backlog'[i] = backlog[i]
  OBVIOUS
<1>2. \A b : Queued(b)' <=> Queued(b) \/ b = c
  BY <1>1 DEF Queued
<1> QED BY <1>1, <1>2

LEMMA QueueShrinks ==
  ASSUME backlog \in Seq(Clients), backlog # <<>>, backlog' = Tail(backlog)
  PROVE  /\ Len(backlog') = Len(backlog) - 1 /\ Len(backlog) \in Nat \ {0}
         /\ Head(backlog) = backlog[1] /\ Head(backlog) \in Clients
         /\ \A i \in 1 .. Len(backlog) - 1 : backlog'[i] = backlog[i + 1]
         /\ \A b : Queued(b) <=> b = Head(backlog) \/ Queued(b)'
<1>1. /\ Len(backlog') = Len(backlog) - 1 /\ Len(backlog) \in Nat \ {0}
      /\ Head(backlog) = backlog[1] /\ Head(backlog) \in Clients
      /\ \A i \in 1 .. Len(backlog) - 1 : backlog'[i] = backlog[i + 1]
  OBVIOUS
<1>2. ASSUME NEW b PROVE Queued(b) <=> b = Head(backlog) \/ Queued(b)'
  <2>1. ASSUME Queued(b) PROVE b = Head(backlog) \/ Queued(b)'
    <3>1. PICK i \in 1 .. Len(backlog) : backlog[i] = b
      BY <2>1 DEF Queued
    <3>2. CASE i = 1
      BY <1>1, <3>1, <3>2
    <3>3. CASE i # 1
      <4>1. i - 1 \in 1 .. Len(backlog') /\ backlog'[i - 1] = b
        BY <1>1, <3>1, <3>3
      <4> QED BY <4>1 DEF Queued
    <3> QED BY <3>2, <3>3
  <2>2. ASSUME Queued(b)' PROVE Queued(b)
    BY <1>1, <2>2 DEF Queued
  <2>3. Queued(Head(backlog))
    BY <1>1 DEF Queued
  <2> QED BY <2>1, <2>2, <2>3
<1> QED BY <1>1, <1>2

LEMMA ConnectionsStep ==
  ASSUME DistinctReplies, TypeOK, OneRequest, Connections, Waits, [Next]_vars
  PROVE  Connections' /\ Waits'
<1>0. /\ client \in [Clients -> {"new", "typing", "reading", "gone"}]
      /\ request \in [Clients -> Requests \cup {None}]
      /\ reply \in [Clients -> Replies \cup {None}]
      /\ newsockfd \in Clients \cup {None} /\ backlog \in Seq(Clients)
  BY DEF TypeOK
<1>n. None \notin Clients \cup Requests /\ None # "disconnecting"
  BY KVAssumption DEF DistinctReplies, Replies
(* The steps of a connected client, and those that stop the server.        *)
<1>1. ASSUME UNCHANGED <<newsockfd, backlog>>,
             \A c \in Clients : client'[c] = "new" \/ reply'[c] = "disconnecting" =>
               client[c] = "new" \/ reply[c] = "disconnecting",
             server' = "up" => server = "up" /\ \A c \in Clients :
               /\ client'[c] = "reading" => reply'[c] # None \/ request'[c] # None
               /\ \/ client'[c] = "typing"
                  \/ client'[c] = "reading" /\ reply'[c] # "disconnecting"
                  => \/ client[c] = "typing"
                     \/ client[c] = "reading" /\ reply[c] # "disconnecting"
      PROVE  Connections' /\ Waits'
  <2>1. \A c : (Queued(c)' <=> Queued(c)) /\ (Connected(c)' <=> Connected(c))
    BY <1>1 DEF Queued, Connected
  <2>2. Connections'
    BY <1>1, <2>1 DEF Connections, Connected
  <2>3. Waits'
    BY <1>1, <2>1 DEF Waits
  <2> QED BY <2>2, <2>3
<1>2. CASE UNCHANGED vars
  <2>1. UNCHANGED <<newsockfd, backlog, server, client, request, reply>>
    BY <1>2 DEF vars
  <2> QED BY <1>1, <2>1 DEF Waits
<1>3. CASE Crash
  <2>1. server' # "up" /\ UNCHANGED <<newsockfd, backlog, client, reply>>
    BY <1>3 DEF Crash
  <2> QED BY <1>1, <2>1
<1>4. ASSUME NEW c \in Clients, Connect(c) PROVE Connections' /\ Waits'
  <2>1. /\ client[c] = "new" /\ server = "up" /\ client' = [client EXCEPT ![c] = "typing"]
        /\ backlog' = Append(backlog, c) /\ UNCHANGED <<newsockfd, server, request, reply>>
    BY <1>4 DEF Connect
  <2>2. ~Connected(c) /\ c # newsockfd /\ ~Queued(c) /\ reply[c] = None
    BY <2>1 DEF Connections, OneRequest, Connected
  <2>3. /\ Len(backlog') = Len(backlog) + 1 /\ Len(backlog) \in Nat
        /\ backlog'[Len(backlog) + 1] = c
        /\ \A i \in 1 .. Len(backlog) : backlog'[i] = backlog[i]
        /\ \A b : Queued(b)' <=> Queued(b) \/ b = c
    BY <1>0, <2>1, QueueGrows
  <2>4. \A b : Connected(b)' <=> Connected(b) \/ b = c
    BY <2>1, <2>3 DEF Connected
  <2>5. \A i \in 1 .. Len(backlog) : backlog[i] # c
    BY <2>2 DEF Queued
  <2>6. \A i, j \in 1 .. Len(backlog') : i # j => backlog'[i] # backlog'[j]
    <3>1. \A i \in 1 .. Len(backlog') : i \in 1 .. Len(backlog) \/ i = Len(backlog) + 1
      BY <2>3
    <3> QED BY <2>3, <2>5, <3>1 DEF Connections
  <2>7. newsockfd' # None => ~Queued(newsockfd)'
    <3>1. newsockfd # None => ~Queued(newsockfd) /\ newsockfd # c
      BY <2>2 DEF Connections
    <3> QED BY <2>1, <3>1, <2>3 DEF Queued
  <2>8. \A b \in Clients : client'[b] = "new" \/ reply'[b] = "disconnecting" => ~Connected(b)'
    BY <1>0, <1>n, <2>1, <2>2, <2>4 DEF Connections
  <2>9. Waits'
    BY <1>0, <2>1, <2>4 DEF Waits
  <2> QED BY <2>6, <2>7, <2>8, <2>9 DEF Connections
<1>5. ASSUME NEW c \in Clients, NEW r \in Requests, Send(c, r) PROVE Connections' /\ Waits'
  <2>1. /\ client[c] = "typing" /\ client' = [client EXCEPT ![c] = "reading"]
        /\ request' = [request EXCEPT ![c] = r] /\ r # None
        /\ UNCHANGED <<newsockfd, backlog, server, reply>>
    BY <1>5, <1>n DEF Send
  <2> QED BY <1>0, <1>1, <2>1 DEF Waits
<1>6. ASSUME NEW c \in Clients, Receive(c) PROVE Connections' /\ Waits'
  <2>1. /\ client[c] = "reading" /\ reply' = [reply EXCEPT ![c] = None]
        /\ client' = [client EXCEPT ![c] =
                        IF reply[c] = "disconnecting" THEN "new" ELSE "typing"]
        /\ UNCHANGED <<newsockfd, backlog, server, request>>
    BY <1>6 DEF Receive
  <2>2. \A b \in Clients : b # c => client'[b] = client[b] /\ reply'[b] = reply[b]
    BY <1>0, <2>1
  <2>3. /\ client'[c] = (IF reply[c] = "disconnecting" THEN "new" ELSE "typing")
        /\ reply'[c] = None
    BY <1>0, <2>1
  <2> QED BY <1>0, <1>1, <1>n, <2>1, <2>2, <2>3 DEF Waits
<1>7. ASSUME NEW c \in Clients, HangUp(c) PROVE Connections' /\ Waits'
  <2>1. /\ client' = [client EXCEPT ![c] = "gone"] /\ reply' = [reply EXCEPT ![c] = None]
        /\ UNCHANGED <<newsockfd, backlog, server, request>>
    BY <1>7 DEF HangUp
  <2> QED BY <1>0, <1>1, <1>n, <2>1 DEF Waits
<1>8. CASE Accept
  <2>1. /\ newsockfd = None /\ backlog # <<>>
        /\ newsockfd' = Head(backlog) /\ backlog' = Tail(backlog)
        /\ UNCHANGED <<server, client, request, reply>>
    BY <1>8 DEF Accept
  <2>2. /\ Len(backlog') = Len(backlog) - 1 /\ Len(backlog) \in Nat \ {0}
        /\ Head(backlog) = backlog[1] /\ Head(backlog) \in Clients
        /\ \A i \in 1 .. Len(backlog) - 1 : backlog'[i] = backlog[i + 1]
        /\ \A b : Queued(b) <=> b = Head(backlog) \/ Queued(b)'
    BY <1>0, <2>1, QueueShrinks
  <2>3. \A b \in Clients : Connected(b)' <=> Connected(b)
    BY <1>n, <2>1, <2>2 DEF Connected
  <2>4. \A i, j \in 1 .. Len(backlog') : i # j => backlog'[i] # backlog'[j]
    BY <2>2 DEF Connections
  <2>5. \A i \in 1 .. Len(backlog') : backlog'[i] # newsockfd'
    BY <2>1, <2>2 DEF Connections
  <2>6. Waits'
    BY <2>1, <2>3 DEF Waits
  <2>7. newsockfd' # None => ~Queued(newsockfd)'
    BY <2>5 DEF Queued
  <2>8. \A b \in Clients : client'[b] = "new" \/ reply'[b] = "disconnecting" => ~Connected(b)'
    BY <2>1, <2>3 DEF Connections
  <2> QED BY <2>4, <2>6, <2>7, <2>8 DEF Connections
<1>9. CASE Serve /\ Answers(newsockfd)
  <2>0. PICK c \in Clients : c = newsockfd
    BY <1>9, ServeMessages
  <2>1. /\ c \in Clients /\ request[c] # None /\ server = "up"
        /\ request' = [request EXCEPT ![c] = None]
        /\ UNCHANGED <<backlog, client>>
    BY <1>9, <2>0, ServeMessages DEF Answers, Serve
  <2>2. client[c] \in {"reading", "gone"} /\ reply[c] = None
    BY <2>1 DEF OneRequest
  <2>3. /\ ~Queued(c) /\ \A b : Queued(b)' <=> Queued(b)
    BY <1>n, <2>0, <2>1 DEF Connections, Queued
  <2>4. newsockfd' \in {c, None}
    BY <1>9, <2>0 DEF Answers
  <2>5. \A b \in Clients \ {c} : Connected(b)' <=> Connected(b)
    BY <1>n, <2>0, <2>3, <2>4 DEF Connected
  <2>6. \A b \in Clients \ {c} : reply'[b] = reply[b] /\ request'[b] = request[b]
    BY <1>0, <1>9, <2>0, <2>1 DEF Answers
  <2>7. /\ reply'[c] = "disconnecting" => newsockfd' = None
        /\ server' = "up" /\ client[c] = "reading" =>
             reply'[c] # None /\ (reply'[c] # "disconnecting" => newsockfd' = c)
    <3>1. CASE reply' = reply
      BY <1>0, <1>9, <1>n, <2>0, <2>1, <2>2, <3>1 DEF Answers, DistinctReplies
    <3>2. ASSUME NEW text \in Replies, reply' = [reply EXCEPT ![c] = text],
                 \/ newsockfd' = None /\ text = "disconnecting"
                 \/ newsockfd' = c /\ text \in OtherReplies
          PROVE  <2>7!:
      <4>1. reply'[c] = text /\ text # None
        BY <1>0, <2>1, <3>2 DEF DistinctReplies
      <4>2. text \in OtherReplies => text # "disconnecting"
        BY DEF OtherReplies, DistinctReplies
      <4> QED BY <3>2, <4>1, <4>2
    <3> QED BY <1>9, <2>0, <3>1, <3>2 DEF Answers
  <2>8. \A i, j \in 1 .. Len(backlog') : i # j => backlog'[i] # backlog'[j]
    BY <2>1 DEF Connections
  <2>9. newsockfd' # None => ~Queued(newsockfd)'
    <3>1. newsockfd' # None => newsockfd' = c
      BY <2>4
    <3>2. \A i \in 1 .. Len(backlog') : backlog'[i] # c
      BY <2>1, <2>3 DEF Queued
    <3> QED BY <3>1, <3>2 DEF Queued
  <2>10. \A b \in Clients : client'[b] = "new" \/ reply'[b] = "disconnecting" => ~Connected(b)'
    <3>1. ASSUME client'[c] = "new" \/ reply'[c] = "disconnecting" PROVE ~Connected(c)'
      <4>1. newsockfd' = None /\ c # None
        BY <1>n, <2>1, <2>2, <2>7, <3>1
      <4> QED BY <2>3, <4>1 DEF Connected
    <3> QED BY <2>1, <2>5, <2>6, <3>1 DEF Connections
  <2>11. Waits'
    BY <2>1, <2>2, <2>5, <2>6, <2>7 DEF Waits, Connected
  <2> QED BY <2>8, <2>9, <2>10, <2>11 DEF Connections
<1>10. CASE Serve
  BY <1>3, <1>9, <1>10, ServeMessages
<1> QED BY <1>2, <1>3, <1>4, <1>5, <1>6, <1>7, <1>8, <1>10
  DEF Next, Server, Client, ServeHangUp

(* At the start nobody is connected, and what the connections are keeps    *)
(* being so.                                                               *)
ConnInv == IInv /\ Connections /\ Waits

LEMMA ConnInductive ==
  ASSUME DistinctReplies
  PROVE  Spec => []ConnInv
<1>1. Init => ConnInv
  <2> SUFFICES ASSUME Init PROVE ConnInv
    OBVIOUS
  <2>1. newsockfd = None /\ None \notin Clients /\ backlog = <<>>
    BY KVAssumption DEF Init
  <2>2. \A c \in Clients : client[c] = "new"
    BY DEF Init
  <2>3. 1 .. Len(backlog) = {}
    BY <2>1
  <2>4. \A b : ~Queued(b)
    BY <2>3, Zenon DEF Queued
  <2>5. Connections
    BY <2>1, <2>3, <2>4 DEF Connections, Connected
  <2>6. Waits
    BY <2>2 DEF Waits
  <2> QED BY <2>5, <2>6, InitIInv DEF ConnInv
<1>2. ConnInv /\ [Next]_vars => ConnInv'
  BY NextIInv, ConnectionsStep DEF ConnInv, IInv
<1> QED BY <1>1, <1>2, PTL DEF Spec

(* Whatever order clients connect, send and hang up in, none that waits is *)
(* forgotten between accept, the queue and connect_again (my_server.c):    *)
(* the safety half of RequestAnswered.                                     *)
THEOREM ClientsServed ==
  ASSUME DistinctReplies
  PROVE  Spec => []NobodyForgotten
<1>1. ConnInv => NobodyForgotten
  <2> SUFFICES ASSUME ConnInv, server = "up", NEW c \in Clients,
                      client[c] = "reading", reply[c] = None
               PROVE  /\ request[c] # None /\ Connected(c)
                      /\ ServerCanStep \/ client[newsockfd] = "typing" \/ reply[newsockfd] # None
    BY DEF NobodyForgotten
  <2>1. request[c] # None /\ Connected(c)
    BY DEF ConnInv, Waits, DistinctReplies, Replies
  <2>2. /\ newsockfd \in Clients \cup {None} /\ backlog \in Seq(Clients)
        /\ client \in [Clients -> {"new", "typing", "reading", "gone"}]
    BY DEF ConnInv, IInv, TypeOK
  <2>3. CASE newsockfd = None
    <3>1. Queued(c)
      BY <2>1, <2>3, KVAssumption DEF Connected
    <3>2. backlog # <<>>
      <4>1. backlog = <<>> => 1 .. Len(backlog) = {}
        OBVIOUS
      <4> QED BY <3>1, <4>1, Zenon DEF Queued
    <3> QED BY <2>1, <2>3, <3>2 DEF ServerCanStep
  <2>4. CASE newsockfd # None
    <3>1. newsockfd \in Clients /\ Connected(newsockfd)
      BY <2>2, <2>4 DEF Connected
    <3>2. client[newsockfd] # "new"
      BY <3>1 DEF ConnInv, Connections
    <3>3. client[newsockfd] = "reading" => reply[newsockfd] # None \/ request[newsockfd] # None
      BY <3>1 DEF ConnInv, Waits
    <3>4. client[newsockfd] \in {"new", "typing", "reading", "gone"}
      BY <2>2, <3>1
    <3>5. ServerCanStep \/ client[newsockfd] = "typing" \/ reply[newsockfd] # None
      BY <2>4, <3>2, <3>3, <3>4 DEF ServerCanStep
    <3> QED BY <2>1, <3>5
  <2> QED BY <2>3, <2>4
<1> QED BY <1>1, ConnInductive, PTL

(* The model's connect always succeeds, as it does while the queue of      *)
(* my_server.c's listen has room: no client is in it twice.                *)
THEOREM QueueNeverFull ==
  ASSUME DistinctReplies
  PROVE  Spec => []QueueFits
<1>1. ConnInv => QueueFits
  <2> SUFFICES ASSUME ConnInv PROVE Len(backlog) <= 6
    BY DEF QueueFits
  <2>1. backlog \in [1 .. Len(backlog) -> Clients] /\ Len(backlog) \in Nat
    <3>1. backlog \in Seq(Clients)
      BY DEF ConnInv, IInv, TypeOK
    <3> QED BY <3>1
  <2>2. backlog \in Injection(1 .. Len(backlog), Clients)
    <3>1. DOMAIN backlog = 1 .. Len(backlog)
      BY <2>1, Zenon
    <3>2. \A a, b \in 1 .. Len(backlog) : backlog[a] = backlog[b] => a = b
      BY Zenon DEF ConnInv, Connections
    <3>3. IsInjective(backlog)
      BY <3>1, <3>2, Zenon DEF IsInjective
    <3> QED BY <2>1, <3>3, Zenon DEF Injection
  <2>3. IsFiniteSet(Clients) /\ Cardinality(Clients) <= 6
    BY KVAssumption
  <2>4. Cardinality(1 .. Len(backlog)) <= Cardinality(Clients)
    BY <2>2, <2>3, FS_Injection, Zenon
  <2>5. Cardinality(1 .. Len(backlog)) = Len(backlog)
    <3>1. Len(backlog) \in Int /\ 1 \in Int
      BY <2>1
    <3>2. Cardinality(1 .. Len(backlog)) = IF 1 > Len(backlog) THEN 0 ELSE Len(backlog) - 1 + 1
      BY <3>1, FS_Interval, Zenon
    <3> QED BY <2>1, <3>2
  <2>6. Cardinality(Clients) \in Nat
    BY <2>3, FS_CardinalityType
  <2> QED BY <2>1, <2>3, <2>4, <2>5, <2>6
<1> QED BY <1>1, ConnInductive, PTL
=============================================================================
