----------------------------- MODULE Allocator ------------------------------
(***************************************************************************)
(* alloc.c and ealloc.c: best fit in whole blocks of MINALLOC bytes, from  *)
(* one page that init_alloc maps, or from PAGES pages that alloc maps when *)
(* it first looks at them.  Both programs keep the same two tables.        *)
(*                                                                         *)
(* An address is counted in blocks, so that a page starts at a multiple of *)
(* BLOCKS.  mmap returns a page that is not in use, at any address, and    *)
(* does not fail.  The caller frees each pointer it got once, and none     *)
(* that it did not get.                                                    *)
(***************************************************************************)
EXTENDS Integers, FiniteSets, FiniteSetsExt

CONSTANTS
  PAGES, BLOCKS, MINALLOC,
  HALF_INT,    \* an int holds a distance of less than HALF_INT pages, up or down
  Frames,      \* the page frames mmap may return
  ReqLens,     \* the lengths the caller asks for, in bytes
  MaxHeld      \* bound: how many pointers the caller holds at a time

ASSUME AllocatorAssumption ==
  /\ PAGES \in Nat \ {0} /\ BLOCKS \in Nat \ {0} /\ MINALLOC \in Nat \ {0}
  /\ HALF_INT \in Nat \ {0}
  /\ Frames \subseteq Nat \ {0} /\ IsFiniteSet(Frames) /\ Cardinality(Frames) >= PAGES
  /\ ReqLens \subseteq Int
  /\ MaxHeld \in Nat

Idx == 0 .. BLOCKS - 1
NULL == 0
Bases == {BLOCKS * f : f \in Frames}

VARIABLES
  pages,              \* the page numbers of the program: {0} in alloc.c
  is_free, alloc_blocks_len, base_ptr,
  held,               \* the caller's pointers, with the blocks asked for
  call,               \* the last call, and its argument
  ret                 \* the pointer it returned, NULL when it returns none

tables == <<is_free, alloc_blocks_len>>
vars == <<pages, tables, base_ptr, held, call, ret>>

Elastic == Cardinality(pages) > 1
Mapped == {p \in pages : base_ptr[p] # NULL}

-----------------------------------------------------------------------------
AllFree == [p \in pages |-> [i \in Idx |-> TRUE]]
NoLengths == [p \in pages |-> [i \in Idx |-> 0]]

Calls == [op : {"alloc", "dealloc", "reset"}, arg : Int]
Called(op, arg) == [op |-> op, arg |-> arg]

(* alloc.c starts with zeroed tables and no page; init_alloc of ealloc.c   *)
(* maps nothing.                                                           *)
Init ==
  /\ pages \in {{0}, 0 .. PAGES - 1}
  /\ is_free = IF Elastic THEN AllFree ELSE [p \in pages |-> [i \in Idx |-> FALSE]]
  /\ alloc_blocks_len = NoLengths
  /\ base_ptr = [p \in pages |-> NULL]
  /\ held = {}
  /\ call = Called("reset", 0) /\ ret = NULL

(* mmap for each page of P that is not mapped yet. *)
MapPages(P) ==
  /\ base_ptr' \in [pages -> Bases \cup {NULL}]
  /\ \A p \in pages :
       IF p \in P \ Mapped THEN base_ptr'[p] # NULL ELSE base_ptr'[p] = base_ptr[p]
  /\ \A p, q \in pages : p # q /\ base_ptr'[p] # NULL => base_ptr'[p] # base_ptr'[q]

init_alloc ==
  /\ ~Elastic /\ Mapped = {}
  /\ MapPages({0})
  /\ is_free' = AllFree
  /\ alloc_blocks_len' = NoLengths
  /\ call' = Called("reset", 0) /\ ret' = NULL
  /\ UNCHANGED <<pages, held>>

(* munmap; the caller drops its pointers. *)
cleanup ==
  /\ ~Elastic /\ Mapped # {}
  /\ base_ptr' = [p \in pages |-> NULL]
  /\ held' = {}
  /\ call' = Called("reset", 0) /\ ret' = NULL
  /\ UNCHANGED <<pages, tables>>

(* The runs of free blocks, and the last of the shortest that suffice. *)
RunStarts(p) == {i \in Idx : is_free[p][i] /\ (i > 0 => ~is_free[p][i - 1])}
RunLen(p, i) == Max({n \in 1 .. BLOCKS - i : \A k \in i .. i + n - 1 : is_free[p][k]})

FittingLess(p, req_blocks) == {i \in RunStarts(p) : req_blocks < RunLen(p, i)}
Fitting(p, req_blocks) == {i \in RunStarts(p) : req_blocks <= RunLen(p, i)}

get_free_start_idx(p, req_blocks) ==
  CHOOSE i \in Fitting(p, req_blocks) : \A j \in Fitting(p, req_blocks) :
    RunLen(p, i) <= RunLen(p, j) /\ (RunLen(p, i) = RunLen(p, j) => j <= i)

(* The pages whose runs alloc looks at: up to the first that has one. *)
LookedAt(req_blocks) ==
  {q \in pages : \A p \in pages : p < q => Fitting(p, req_blocks) = {}}

AllocFound(req_blocks) ==
  LET p == Min({q \in pages : Fitting(q, req_blocks) # {}})
      i == get_free_start_idx(p, req_blocks)
  IN
  /\ is_free' = [is_free EXCEPT ![p] =
       [k \in Idx |-> @[k] /\ k \notin i .. i + req_blocks - 1]]
  /\ alloc_blocks_len' = [alloc_blocks_len EXCEPT ![p][i] = req_blocks]
  /\ ret' = base_ptr'[p] + i
  /\ held' = held \cup {[page |-> p, ptr |-> ret', blocks |-> req_blocks]}

alloc(req_len) ==
  LET req_blocks == req_len \div MINALLOC IN
  /\ Elastic \/ Mapped # {}
  /\ Cardinality(held) < MaxHeld
  /\ call' = Called("alloc", req_len)
  /\ UNCHANGED pages
  /\ IF req_len % MINALLOC # 0
       THEN ret' = NULL /\ UNCHANGED <<tables, base_ptr, held>>
       ELSE /\ MapPages(LookedAt(req_blocks))
            /\ IF \E p \in pages : Fitting(p, req_blocks) # {}
                 THEN AllocFound(req_blocks)
                 ELSE ret' = NULL /\ UNCHANGED <<tables, held>>

(* A distance between two addresses, cast to an int. *)
HalfSpan == HALF_INT * BLOCKS
AsInt(distance) == ((distance + HalfSpan) % (2 * HalfSpan)) - HalfSpan

(* dealloc looks for the page by the distance from each base pointer,      *)
(* those of pages not mapped yet included.                                 *)
PageMatchesTooFar(p, ptr) == AsInt(ptr - base_ptr[p]) \in 0 .. BLOCKS
PageMatches(p, ptr) == AsInt(ptr - base_ptr[p]) \in Idx
CorrespondingPage(ptr) == Min({p \in pages : PageMatches(p, ptr)})

(* The blocks from idx on that dealloc marks free. *)
FreedTo(idx, len) == idx .. idx + len
FreedCells(idx, len) == idx .. idx + len - 1

dealloc(h) ==
  LET p == CorrespondingPage(h.ptr)
      idx == AsInt(h.ptr - base_ptr[p])
      len == alloc_blocks_len[p][idx]
  IN
  /\ h \in held
  /\ alloc_blocks_len' = [alloc_blocks_len EXCEPT ![p][idx] = 0]
  /\ is_free' = [is_free EXCEPT ![p] = [k \in Idx |-> @[k] \/ k \in FreedCells(idx, len)]]
  /\ held' = held \ {h}
  /\ call' = Called("dealloc", h.ptr) /\ ret' = NULL
  /\ UNCHANGED <<pages, base_ptr>>

Next ==
  \/ init_alloc \/ cleanup
  \/ \E req_len \in ReqLens : alloc(req_len)
  \/ \E h \in held : dealloc(h)

Spec == Init /\ [][Next]_vars

-----------------------------------------------------------------------------
CellsOf(h) == h.ptr .. h.ptr + h.blocks - 1

TypeOK ==
  /\ pages \in {{0}, 0 .. PAGES - 1}
  /\ is_free \in [pages -> [Idx -> BOOLEAN]]
  /\ alloc_blocks_len \in [pages -> [Idx -> {n \in Int : n <= BLOCKS}]]
  /\ base_ptr \in [pages -> Bases \cup {NULL}]
  /\ held \subseteq [page : pages, ptr : Nat, blocks : Int]
  /\ call \in Calls
  /\ ret \in Nat

(* The distance to an earlier page is a multiple of what an int can tell   *)
(* apart (4 GiB): dealloc takes the pointers into p for pointers into that *)
(* page.                                                                   *)
Shadowed(p) == \E q \in Mapped : q < p /\ AsInt(base_ptr[p] - base_ptr[q]) = 0

(* dealloc finds the page a pointer came from, wherever mmap put the pages *)
(* and although it compares distances cut to an int, also to the NULL of   *)
(* pages not mapped yet: only a shadowed page escapes it.                  *)
PointersFound == \A h \in held :
  Shadowed(h.page) \/ CorrespondingPage(h.ptr) = h.page

(* And it uses the tables inside their bounds, also then.                  *)
TablesInv == TypeOK /\ PointersFound

(* The caller's view: no two pieces it holds overlap, and the tables hold  *)
(* each of them.                                                           *)
HeldBlocksExclusive ==
  /\ \A g, h \in held : g # h => CellsOf(g) \cap CellsOf(h) = {}
  /\ \A h \in held : LET idx == h.ptr - base_ptr[h.page] IN
       h.blocks > 0 =>
         /\ alloc_blocks_len[h.page][idx] = h.blocks
         /\ \A k \in idx .. idx + h.blocks - 1 : ~is_free[h.page][k]

(* A pointer to no blocks is also the pointer of the next piece, and       *)
(* freeing it frees that piece; freeing a pointer into a shadowed page     *)
(* frees what lies at the same place of the other.  No other call takes a  *)
(* piece from the caller that holds it.                                    *)
FreesEmpty == \E h \in held : h.blocks <= 0 /\ dealloc(h)
FreesShadowed == \E h \in held : Shadowed(h.page) /\ dealloc(h)
OnlyEmptyFreesCorrupt ==
  [][HeldBlocksExclusive => FreesEmpty \/ FreesShadowed \/ HeldBlocksExclusive']_vars

(* "demanding pages only based on requirement from alloc" (ealloc.c:11)    *)
(* and the merging of freed blocks (alloc.c:74): the tables implement the  *)
(* heap, where a whole number of blocks is refused, or a page fetched,     *)
(* only when there is no room in what is free, and a piece is given back   *)
(* by its own pointer; but for frees into a shadowed page.                 *)
Pieces == UNION {
  {[start |-> base_ptr[p] + i, len |-> alloc_blocks_len[p][i]] :
     i \in {j \in Idx : alloc_blocks_len[p][j] > 0}} : p \in Mapped}
Promise == INSTANCE Heap
  WITH SIZE <- BLOCKS, UNIT <- MINALLOC, Lengths <- ReqLens, Addresses <- Bases,
       most <- Cardinality(pages), pages <- {base_ptr[p] : p \in Mapped}, live <- Pieces
ImplementsHeap == Promise!Init /\ [][FreesShadowed \/ Promise!Next]_(Promise!vars)
=============================================================================
