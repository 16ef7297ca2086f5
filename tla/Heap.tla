-------------------------------- MODULE Heap --------------------------------
(***************************************************************************)
(* What alloc.h and ealloc.h promise: memory is handed out in whole blocks *)
(* that nobody else has, from pages fetched only when they are needed, and *)
(* a request is refused only when no page has that many blocks in a row.   *)
(***************************************************************************)
EXTENDS Integers, FiniteSets

CONSTANTS SIZE,      \* the blocks of a page
          UNIT,      \* the bytes of a block
          Lengths,   \* the lengths asked for, in bytes
          Addresses, \* where a page may start
          NULL       \* the pointer of a refused request

VARIABLES pages,     \* the first block of every page fetched
          live,      \* the pieces handed out
          call,      \* the last call and its argument: a length, or a pointer
          ret,       \* the pointer it returned
          most       \* how many pages there may be

vars == <<pages, live, call, ret, most>>

Init == pages = {} /\ live = {} /\ call.op = "reset" /\ ret = NULL /\ most \in Nat

Cells(start, len) == start .. start + len - 1
Unused(start, len) == \A piece \in live :
  Cells(start, len) \cap Cells(piece.start, piece.len) = {}
FitsIn(P, start, len) == \E p \in P : Cells(start, len) \subseteq Cells(p, SIZE)
Room(P, len) == \E p \in P : \E start \in Cells(p, SIZE) :
  FitsIn(P, start, len) /\ Unused(start, len)

(* Pages are fetched while those there are have no room, and no longer.    *)
Fetch(len) ==
  /\ pages \subseteq pages'
  /\ pages' \subseteq Addresses /\ Cardinality(pages') <= most
  /\ \A P \in SUBSET pages' : pages \subseteq P /\ Room(P, len) => P = pages'

Allocate(len) ==
  /\ Fetch(len)
  /\ FitsIn(pages', ret', len)
  /\ Unused(ret', len)
  /\ live' = live \cup {[start |-> ret', len |-> len]}

Refuse(len) ==
  /\ Fetch(len)
  /\ Cardinality(pages') = most /\ ~Room(pages', len)
  /\ ret' = NULL /\ live' = live

(* A request of no blocks reserves nothing, and gets a pointer to a block  *)
(* that is not handed out; it is refused when there is none.               *)
AllocateNothing ==
  \/ Fetch(1) /\ FitsIn(pages', ret', 1) /\ Unused(ret', 1) /\ live' = live
  \/ Refuse(1)

(* A length that is no number of blocks is refused at once.                *)
RefuseLength == ret' = NULL /\ UNCHANGED <<pages, live>>

Request(len) ==
  \/ len % UNIT # 0 /\ RefuseLength
  \/ len % UNIT = 0 /\ len > 0 /\ (Allocate(len \div UNIT) \/ Refuse(len \div UNIT))
  \/ len % UNIT = 0 /\ len <= 0 /\ AllocateNothing

(* Freeing gives back the piece that starts there, if there is one. *)
Release(ptr) ==
  /\ live' = {piece \in live : piece.start # ptr}
  /\ ret' = NULL /\ pages' = pages

Reset == pages' \in SUBSET Addresses /\ live' = {} /\ ret' = NULL

Next ==
  /\ most' = most
  /\ \/ \E len \in Lengths : call' = [op |-> "alloc", arg |-> len] /\ Request(len)
     \/ call'.op = "dealloc" /\ Release(call'.arg)
     \/ call'.op = "reset" /\ Reset

Spec == Init /\ [][Next]_vars
=============================================================================
