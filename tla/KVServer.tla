------------------------------ MODULE KVServer ------------------------------
(***************************************************************************)
(* my_server.c and its clients (my_client.c).  The server talks to one     *)
(* client at a time; the others wait in the listen queue, where the kernel *)
(* keeps what they send.  A request is read, handled and answered in one   *)
(* step: nothing else changes the server's tables.                         *)
(*                                                                         *)
(* malloc returns a freed chunk that some slot still points to, or the     *)
(* lowest other free chunk.  A freed chunk may go to one of the strings    *)
(* that tokenize allocates and never frees; its old text is gone anyway.   *)
(*                                                                         *)
(* Requests are of the form the comments of the server give, an empty line *)
(* or another word, and fit into TOKEN_SIZE bytes.                         *)
(***************************************************************************)
EXTENDS Integers, Sequences, FiniteSets, FiniteSetsExt

CONSTANTS
  Clients, Keys, Values, MAX_KEYS,
  Requests,        \* the lines the users type once they are connected
  Chunks,          \* the chunks of the heap
  NoValue, Junk,   \* no text, and what free leaves in a chunk
  None             \* no client, no request, no reply

ASSUME KVAssumption ==
  /\ IsFiniteSet(Clients) /\ Cardinality(Clients) <= 6   \* listen(sockfd, 5)
  /\ Keys \subseteq Int
  /\ MAX_KEYS \in Nat \ {0}
  /\ Chunks \subseteq Nat /\ IsFiniteSet(Chunks) /\ Cardinality(Chunks) > MAX_KEYS
  /\ Requests \subseteq
       [op : {"create", "update"}, key : Keys, value : Values]
         \cup [op : {"read", "delete"}, key : Keys, value : {NoValue}]
         \cup [op : {"disconnect", "empty line", "other word"}, key : {0}, value : {NoValue}]
  /\ {Junk, NoValue, None} \cap Values = {} /\ Junk # NoValue
  /\ None \notin Clients \cup Requests

Replies == {"storage full", "already key exists", "Key Value pair Added", "No such key",
            "Updated", "Deleted key", "disconnecting", "I got your message", Junk} \cup Values

VARIABLES
  slots,       \* key_arr and value_arr up to idx: keys and pointers
  chunk,       \* the text in each chunk
  allocated,   \* the chunks in use as values
  newsockfd,   \* the client of the connection, or None inside accept
  backlog,     \* the clients that connected and wait for accept
  server,      \* "up" or why it stopped
  client,      \* where each client is
  request,     \* sent and not yet read by the server
  reply,       \* sent and not yet read by the client
  misused      \* history: key -1 was updated or deleted

tables == <<slots, chunk, allocated, misused>>
vars == <<tables, newsockfd, backlog, server, client, request, reply>>

Init ==
  /\ slots = <<>>
  /\ chunk = [x \in Chunks |-> Junk]
  /\ allocated = {}
  /\ newsockfd = None /\ backlog = <<>>
  /\ server = "up"
  /\ client = [c \in Clients |-> "new"]
  /\ request = [c \in Clients |-> None] /\ reply = [c \in Clients |-> None]
  /\ misused = FALSE

-----------------------------------------------------------------------------
(* The client program: connect, then one request at a time until the reply *)
(* "disconnecting"; the user may start it again.                           *)
Connect(c) ==
  /\ client[c] = "new" /\ server = "up"
  /\ client' = [client EXCEPT ![c] = "typing"]
  /\ backlog' = Append(backlog, c)
  /\ UNCHANGED <<tables, newsockfd, server, request, reply>>

(* Bound: after key -1 was updated or deleted clients only disconnect.     *)
Send(c, r) ==
  /\ misused => r.op = "disconnect"
  /\ client[c] = "typing" /\ server = "up"
  /\ client' = [client EXCEPT ![c] = "reading"]
  /\ request' = [request EXCEPT ![c] = r]
  /\ UNCHANGED <<tables, newsockfd, backlog, server, reply>>

Receive(c) ==
  /\ client[c] = "reading" /\ reply[c] # None
  /\ client' = [client EXCEPT ![c] = IF reply[c] = "disconnecting" THEN "new" ELSE "typing"]
  /\ reply' = [reply EXCEPT ![c] = None]
  /\ UNCHANGED <<tables, newsockfd, backlog, server, request>>

(* The user interrupts the client; what it sent stays in the socket. *)
HangUp(c) ==
  /\ client[c] \in {"typing", "reading"} /\ server = "up"
  /\ client' = [client EXCEPT ![c] = "gone"]
  /\ reply' = [reply EXCEPT ![c] = None]
  /\ UNCHANGED <<tables, newsockfd, backlog, server, request>>

-----------------------------------------------------------------------------
(* accept, in make_server and connect_again. *)
Accept ==
  /\ server = "up" /\ newsockfd = None /\ backlog # <<>>
  /\ newsockfd' = Head(backlog)
  /\ backlog' = Tail(backlog)
  /\ UNCHANGED <<tables, server, client, request, reply>>

SlotsOf(k) == {i \in DOMAIN slots : slots[i].key = k}
SlotOf(k) == Min(SlotsOf(k))

(* The string of the reply is sent; writing to a closed connection may     *)
(* kill the server instead.                                                *)
Answer(c, text) ==
  /\ request' = [request EXCEPT ![c] = None]
  /\ IF client[c] = "gone"
       THEN reply' = reply /\ server' \in {"up", "write failed"}
       ELSE reply' = [reply EXCEPT ![c] = text] /\ server' = "up"
  /\ UNCHANGED <<backlog, client>>

(* malloc and strcpy into slot i, given the chunks in use before it.       *)
PtrsOf(S) == {slots[i].ptr : i \in S}
Unused(inUse) == (PtrsOf(DOMAIN slots) \ inUse)
  \cup {Min(Chunks \ (inUse \cup PtrsOf(DOMAIN slots)))}
StoreValue(i, k, v, inUse) == \E x \in Unused(inUse) :
  /\ slots' = [j \in DOMAIN slots \cup {i} |->
                 IF j = i THEN [key |-> k, ptr |-> x] ELSE slots[j]]
  /\ chunk' = [y \in Chunks |-> IF y = x THEN v ELSE IF y \in inUse THEN chunk[y] ELSE Junk]
  /\ allocated' = inUse \cup {x}

StorageFull == Len(slots) = MAX_KEYS

create_key_value_pair(c, k, v) ==
  /\ IF ~StorageFull /\ SlotsOf(k) = {}
       THEN StoreValue(Len(slots) + 1, k, v, allocated)
       ELSE UNCHANGED <<slots, chunk, allocated>>
  /\ Answer(c, CASE StorageFull -> "storage full"
                 [] ~StorageFull /\ SlotsOf(k) # {} -> "already key exists"
                 [] OTHER -> "Key Value pair Added")
  /\ UNCHANGED <<misused, newsockfd>>

Read(c, k) ==
  /\ Answer(c, IF SlotsOf(k) = {} THEN "No such key" ELSE chunk[slots[SlotOf(k)].ptr])
  /\ UNCHANGED <<tables, newsockfd>>

NoSuchKey(c, k) ==
  /\ SlotsOf(k) = {}
  /\ Answer(c, "No such key")
  /\ UNCHANGED <<tables, newsockfd>>

(* free of a chunk that is not allocated aborts, unless a token has it.    *)
FreeAborts(c, k) ==
  /\ SlotsOf(k) # {} /\ slots[SlotOf(k)].ptr \notin allocated
  /\ server' = "abort"
  /\ request' = [request EXCEPT ![c] = None]
  /\ misused' = TRUE
  /\ UNCHANGED <<slots, chunk, allocated, newsockfd, backlog, client, reply>>

InUseAfterFreeNone(k) == allocated
InUseAfterFree(k) == allocated \ {slots[SlotOf(k)].ptr}

update(c, k, v) ==
  \/ NoSuchKey(c, k)
  \/ FreeAborts(c, k)
  \/ /\ SlotsOf(k) # {}
     /\ StoreValue(SlotOf(k), k, v, InUseAfterFree(k))
     /\ misused' = (misused \/ k = -1)
     /\ Answer(c, "Updated")
     /\ UNCHANGED newsockfd

(* The slot keeps the pointer, under key -1. *)
DeletedKeyKept(k) == k
DeletedKey(k) == -1

delete(c, k) ==
  \/ NoSuchKey(c, k)
  \/ FreeAborts(c, k)
  \/ /\ SlotsOf(k) # {}
     /\ slots' = [slots EXCEPT ![SlotOf(k)].key = DeletedKey(k)]
     /\ allocated' = InUseAfterFree(k)
     /\ chunk' = [x \in Chunks |-> IF x \in allocated' THEN chunk[x] ELSE Junk]
     /\ misused' = (misused \/ k = -1)
     /\ Answer(c, "Deleted key")
     /\ UNCHANGED newsockfd

disconnectKeepsSocket(c) == Answer(c, "disconnecting") /\ UNCHANGED <<tables, newsockfd>>
disconnect(c) ==
  /\ Answer(c, "disconnecting")
  /\ newsockfd' = None
  /\ UNCHANGED tables

(* An empty line has no first word, and strcmp gets a null pointer. *)
Crash == server' = "crashed" /\
  UNCHANGED <<tables, newsockfd, backlog, client, request, reply>>

Handle(c, r) ==
  CASE r.op = "create" -> create_key_value_pair(c, r.key, r.value)
    [] r.op = "read"   -> Read(c, r.key)
    [] r.op = "update" -> update(c, r.key, r.value)
    [] r.op = "delete" -> delete(c, r.key)
    [] r.op = "disconnect" -> disconnect(c)
    [] r.op = "empty line" -> Crash
    [] OTHER -> Answer(c, "I got your message") /\ UNCHANGED <<tables, newsockfd>>

Serve ==
  /\ server = "up" /\ newsockfd # None
  /\ request[newsockfd] # None
  /\ Handle(newsockfd, request[newsockfd])

(* read returns 0 (or fails): an empty message again. *)
ServeHangUp ==
  /\ server = "up" /\ newsockfd # None
  /\ client[newsockfd] = "gone" /\ request[newsockfd] = None
  /\ Crash

Server == Accept \/ Serve \/ ServeHangUp
Client(c) == Connect(c) \/ Receive(c) \/ HangUp(c) \/ \E r \in Requests : Send(c, r)

Next == Server \/ \E c \in Clients : Client(c)
Spec == Init /\ [][Next]_vars

(* The processes run, and every user types "disconnect" in the end. *)
Leave(c) == \E r \in Requests : r.op = "disconnect" /\ Send(c, r)
FairSpec ==
  /\ Spec /\ WF_vars(Server)
  /\ \A c \in Clients : WF_vars(Receive(c)) /\ SF_vars(Leave(c))

-----------------------------------------------------------------------------
TypeOK ==
  /\ slots \in Seq([key : Keys \cup {-1}, ptr : Chunks]) /\ Len(slots) <= MAX_KEYS
  /\ chunk \in [Chunks -> Values \cup {Junk}]
  /\ allocated \subseteq Chunks
  /\ newsockfd \in Clients \cup {None} /\ backlog \in Seq(Clients)
  /\ server \in {"up", "write failed", "abort", "crashed"}
  /\ client \in [Clients -> {"new", "typing", "reading", "gone"}]
  /\ request \in [Clients -> Requests \cup {None}] /\ reply \in [Clients -> Replies \cup {None}]
  /\ misused \in BOOLEAN

(* As long as nobody updated or deleted key -1, every key is in one slot   *)
(* whose chunk is allocated, holds a value and belongs to no other key,    *)
(* and no chunk is leaked.                                                 *)
Live == {i \in DOMAIN slots : slots[i].key # -1}
ValuesOwned == ~misused =>
  /\ PtrsOf(Live) \subseteq allocated /\ allocated \subseteq PtrsOf(DOMAIN slots)
  /\ \A i \in Live : chunk[slots[i].ptr] \in Values
  /\ \A i, j \in Live : i # j =>
       slots[i].key # slots[j].key /\ slots[i].ptr # slots[j].ptr

(* The store's tables, with their types.                                   *)
StoreInv == TypeOK /\ ValuesOwned

(* The answers are those of one map shared by all clients, whatever order  *)
(* they connect, send and hang up in.                                      *)
StoredValue(k) ==
  IF SlotsOf(k) = {} THEN NoValue ELSE chunk[slots[SlotOf(k)].ptr]
Store == INSTANCE KVStore
  WITH store <- [k \in Keys \ {-1} |-> StoredValue(k)], used <- Len(slots), answer <- reply
ImplementsKVStore == Store!Spec

(* A client that waits for its reply gets it, even one in the listen queue *)
(* (when the users before it leave), unless the server stops.              *)
RequestAnswered == \A c \in Clients :
  client[c] = "reading" ~> client[c] # "reading" \/ server # "up"
=============================================================================
