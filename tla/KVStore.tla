------------------------------ MODULE KVStore -------------------------------
(***************************************************************************)
(* What the key-value server promises its clients: one map that all of     *)
(* them share, one answer to each request, and room for MAX_KEYS creates.  *)
(* Key -1 is reserved: nothing is promised of the answers about it, and    *)
(* nothing at all once a client has updated or deleted it.                 *)
(***************************************************************************)
EXTENDS Integers

CONSTANTS Clients, Keys, Values, NoValue, MAX_KEYS, Replies, None

VARIABLES store,     \* the value of each key
          used,      \* how many creates succeeded
          request,   \* what each client asked and nobody answered
          answer,    \* what each client was answered and did not read
          misused    \* somebody updated or deleted the reserved key

vars == <<store, used, request, answer, misused>>

RESERVED == -1
UserKeys == Keys \ {RESERVED}

Init ==
  /\ store = [k \in UserKeys |-> NoValue]
  /\ used = 0
  /\ request = [c \in Clients |-> None] /\ answer = [c \in Clients |-> None]
  /\ misused = FALSE

Exists(k) == store[k] # NoValue

CreateResult(k) ==
  IF used = MAX_KEYS THEN "storage full"
  ELSE IF Exists(k) THEN "already key exists" ELSE "Key Value pair Added"
ReadResult(k) == IF Exists(k) THEN store[k] ELSE "No such key"
ChangeResult(k, done) == IF Exists(k) THEN done ELSE "No such key"

(* The answer to request r ... *)
Result(r) ==
  CASE r.op = "create" -> CreateResult(r.key)
    [] r.op = "read"   -> ReadResult(r.key)
    [] r.op = "update" -> ChangeResult(r.key, "Updated")
    [] r.op = "delete" -> ChangeResult(r.key, "Deleted key")
    [] r.op = "disconnect" -> "disconnecting"
    [] OTHER -> "I got your message"

(* ... and what it does to the map: a read of a value that looks like an   *)
(* answer does nothing.                                                    *)
Creates(r) == r.op = "create" /\ used # MAX_KEYS /\ ~Exists(r.key)
Effect(r) ==
  CASE Creates(r) \/ (r.op = "update" /\ Exists(r.key)) -> [store EXCEPT ![r.key] = r.value]
    [] r.op = "delete" /\ Exists(r.key) -> [store EXCEPT ![r.key] = NoValue]
    [] OTHER -> store

Promised(c, r) ==
  /\ answer' \in {answer, [answer EXCEPT ![c] = Result(r)]}
  /\ store' = Effect(r)
  /\ used' = IF Creates(r) THEN used + 1 ELSE used
  /\ misused' = FALSE

Reserved(c, r) ==
  /\ \E a \in Replies : answer' \in {answer, [answer EXCEPT ![c] = a]}
  /\ used' \in {used, used + 1}
  /\ IF misused' THEN r.op \in {"update", "delete"} ELSE store' = store

(* A client that is gone is not answered. *)
Answer(c) ==
  /\ request[c] # None
  /\ request' = [request EXCEPT ![c] = None]
  /\ CASE misused -> misused' = TRUE
       [] ~misused /\ request[c].key = RESERVED -> Reserved(c, request[c])
       [] OTHER -> Promised(c, request[c])

Ask(c) ==
  /\ request[c] = None /\ request'[c] # None
  /\ request' = [request EXCEPT ![c] = request'[c]]
  /\ UNCHANGED <<store, used, answer, misused>>

(* A client reads its answer, or vanishes before it does. *)
Take(c) ==
  /\ answer' = [answer EXCEPT ![c] = None]
  /\ UNCHANGED <<store, used, request, misused>>

Next == \E c \in Clients : Answer(c) \/ Ask(c) \/ Take(c)
Spec == Init /\ [][Next]_vars
=============================================================================
