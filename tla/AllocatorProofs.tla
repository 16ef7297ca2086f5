-------------------------- MODULE AllocatorProofs ---------------------------
(***************************************************************************)
(* Proofs about Allocator, for any number of pages, blocks, frames and     *)
(* lengths, and any width of an int that holds a page.  The two tables of  *)
(* a page say the same (TablesAgree): a block is free when no piece takes  *)
(* it up, and pieces do not overlap.  That alone is not inductive: dealloc *)
(* needs a mapped page for the pointer (HeldPlaced), its own when no       *)
(* earlier page shadows it (BasesApart), and alloc of ealloc.c maps pages  *)
(* in order and finds a new one empty (MappedFirst, FreshPages).           *)
(***************************************************************************)
EXTENDS Allocator, FiniteSetTheorems, TLAPS

(* The piece at index i of the table of lengths takes up block k. *)
Covers(len, i, k) == len[i] > 0 /\ k \in i .. i + len[i] - 1

(* Two tables of one page agree. *)
PageAgrees(free, len) ==
  /\ \A i \in Idx : len[i] > 0 => i + len[i] <= BLOCKS
  /\ \A i, j, k \in Idx : Covers(len, i, k) /\ Covers(len, j, k) => i = j
  /\ \A k \in Idx : free[k] <=> \A i \in Idx : ~Covers(len, i, k)

TablesAgree == \A p \in pages :
  (Elastic \/ p \in Mapped) => PageAgrees(is_free[p], alloc_blocks_len[p])

(* Every page has an address of its own, and the first ones are mapped. *)
BasesApart == \A p, q \in Mapped : base_ptr[p] = base_ptr[q] => p = q
MappedFirst == \A p, q \in pages : q \in Mapped /\ p < q => p \in Mapped

(* A page of ealloc.c that is not mapped yet is free, and has no pieces.   *)
FreshPages == Elastic =>
  \A p \in pages \ Mapped : \A i \in Idx : is_free[p][i] /\ alloc_blocks_len[p][i] = 0

(* The caller's pointers point into mapped pages; before init_alloc and    *)
(* after cleanup it has none.                                              *)
HeldPlaced == \A h \in held : h.page \in Mapped /\ h.ptr - base_ptr[h.page] \in Idx
NothingYet == Mapped = {} => held = {} /\ ret = NULL

IInv == /\ TypeOK /\ TablesAgree /\ BasesApart /\ MappedFirst /\ FreshPages
        /\ HeldPlaced /\ NothingYet

-----------------------------------------------------------------------------
(* What the assumption says of sizes. *)
LEMMA Sizes ==
  /\ PAGES \in Nat \ {0} /\ BLOCKS \in Nat \ {0} /\ MINALLOC \in Nat \ {0}
  /\ HALF_INT \in Nat \ {0}
  /\ Frames \subseteq Nat \ {0}
BY AllocatorAssumption

(* A nonempty set of natural numbers has a least one, and a bounded one a  *)
(* greatest, and Min and Max are these.                                    *)
LEMMA MinIsLeast ==
  ASSUME NEW S \in SUBSET Nat, S # {}
  PROVE  Min(S) \in S /\ \A y \in S : Min(S) <= y
<1> DEFINE R == StrictSubsetOrdering(Nat)
           F == FiniteSubsetsOf(Nat)
           T == {0 .. x : x \in S}
<1>1. IsWellFoundedOn(R, F)
  BY FS_StrictSubsetOrderingWellFounded
<1>2. T \subseteq F
  <2>1. \A x \in S : 0 .. x \in SUBSET Nat /\ IsFiniteSet(0 .. x)
    BY FS_Interval
  <2> QED BY <2>1, Zenon DEF FiniteSubsetsOf
<1>3. T # {}
  OBVIOUS
<1>4. PICK U \in T : \A V \in T : ~ (<<V, U>> \in R)
  <2> HIDE DEF T, R, F
  <2> QED BY <1>1, <1>2, <1>3, WFMin, Zenon
<1>5. PICK m \in S : U = 0 .. m
  BY <1>4
<1>6. ASSUME NEW y \in S, y < m PROVE FALSE
  <2>1. /\ 0 .. y \in SUBSET Nat /\ 0 .. m \in SUBSET Nat
        /\ 0 .. y \subseteq 0 .. m /\ m \in 0 .. m /\ m \notin 0 .. y
    BY <1>6
  <2>2. <<0 .. y, 0 .. m>> \in R
    BY <2>1, Zenon DEF StrictSubsetOrdering
  <2>3. 0 .. y \in T
    OBVIOUS
  <2> QED BY <1>4, <1>5, <2>2, <2>3, Zenon
<1>7. \A y \in S : m <= y
  BY <1>6
<1> QED BY <1>7 DEF Min

LEMMA MaxIsGreatest ==
  ASSUME NEW m \in Nat, NEW S \in SUBSET (0 .. m), S # {}
  PROVE  Max(S) \in S /\ \A y \in S : y <= Max(S)
<1> DEFINE T == {m - x : x \in S}
<1>1. T \in SUBSET Nat /\ T # {}
  <2>1. \A x \in S : m - x \in Nat
    OBVIOUS
  <2> QED BY <2>1
<1>2. Min(T) \in T /\ \A y \in T : Min(T) <= y
  <2> HIDE DEF T
  <2> QED BY <1>1, MinIsLeast
<1>3. PICK x \in S : Min(T) = m - x
  BY <1>2
<1>4. \A y \in S : y <= x
  <2> TAKE y \in S
  <2>1. m - x <= m - y
    BY <1>2, <1>3
  <2> QED BY <2>1
<1> QED BY <1>4 DEF Max

(* Blocks of pages at different addresses have different addresses. *)
LEMMA NextMultiple ==
  ASSUME NEW m \in Nat \ {0}, NEW f \in Nat, NEW g \in Nat, f < g
  PROVE  m * g >= m * f + m
<1>1. PICK d \in Nat : g = f + 1 + d
  <2>1. g - f - 1 \in Nat /\ g = f + 1 + (g - f - 1)
    OBVIOUS
  <2> QED BY <2>1
<1>2. m * d \in Nat
  OBVIOUS
<1>3. m * g = m * f + m + m * d
  BY <1>1
<1> QED BY <1>2, <1>3

LEMMA BaseTypes ==
  /\ Bases \subseteq Nat \ {0}
  /\ \A b \in Bases \cup {NULL} : \E f \in Nat : b = BLOCKS * f
<1>1. ASSUME NEW b \in Bases PROVE b \in Nat \ {0} /\ \E f \in Nat : b = BLOCKS * f
  <2>1. PICK f \in Frames : b = BLOCKS * f
    BY DEF Bases
  <2>2. f \in Nat /\ f # 0
    BY Sizes
  <2>3. 0 < f /\ BLOCKS * f >= BLOCKS * 0 + BLOCKS
    BY <2>2, Sizes, NextMultiple
  <2> QED BY <2>1, <2>2, <2>3, Sizes
<1>2. 0 \in Nat /\ NULL = BLOCKS * 0
  BY Sizes DEF NULL
<1> QED BY <1>1, <1>2

LEMMA BlockAddress ==
  ASSUME NEW b \in Bases \cup {NULL}, NEW c \in Bases \cup {NULL},
         NEW i \in Idx, NEW j \in Idx, b + i = c + j
  PROVE  b = c /\ i = j
<1>1. PICK f \in Nat : b = BLOCKS * f
  BY BaseTypes
<1>2. PICK g \in Nat : c = BLOCKS * g
  BY BaseTypes
<1>3. b \in Nat /\ c \in Nat
  BY BaseTypes DEF NULL
<1>4. i \in 0 .. BLOCKS - 1 /\ j \in 0 .. BLOCKS - 1 /\ BLOCKS \in Nat
  BY Sizes DEF Idx
<1>5. CASE f < g
  <2>1. c >= b + BLOCKS
    BY <1>1, <1>2, <1>5, Sizes, NextMultiple
  <2> QED BY <2>1, <1>3, <1>4
<1>6. CASE g < f
  <2>1. b >= c + BLOCKS
    BY <1>1, <1>2, <1>6, Sizes, NextMultiple
  <2> QED BY <2>1, <1>3, <1>4
<1>7. CASE f = g
  BY <1>1, <1>2, <1>3, <1>4, <1>7
<1> QED BY <1>5, <1>6, <1>7

-----------------------------------------------------------------------------
(* The cast to an int of dealloc.                                          *)

(* A multiple of m that is smaller than m, up or down, is 0. *)
LEMMA SmallMultiple ==
  ASSUME NEW m \in Nat \ {0}, NEW d \in Int, m * d < m, m * d > -m
  PROVE  d = 0
<1>1. CASE d > 0
  <2>1. m * d >= m * 0 + m
    BY <1>1, NextMultiple
  <2> QED BY <2>1
<1>2. CASE d < 0
  <2>1. -d \in Nat /\ 0 < -d /\ m * (-d) = -(m * d)
    BY <1>2
  <2>2. m * (-d) >= m * 0 + m
    BY <2>1, NextMultiple
  <2> QED BY <2>1, <2>2
<1> QED BY <1>1, <1>2

(* The cast of a distance: what is left of it is a multiple of the span of *)
(* an int.                                                                 *)
LEMMA CastTakesSpans ==
  ASSUME NEW x \in Int
  PROVE  \E k \in Int : x = 2 * HalfSpan * k + AsInt(x)
<1> DEFINE w == 2 * HalfSpan
           y == x + HalfSpan
<1>1. HalfSpan \in Nat \ {0}
  BY Sizes DEF HalfSpan
<1>2. w \in Nat \ {0} /\ y \in Int
  BY <1>1
<1> HIDE DEF w, y
<1>3. y = w * (y \div w) + (y % w) /\ y \div w \in Int /\ y % w \in 0 .. w - 1
  BY <1>2
<1>4. AsInt(x) = (y % w) - HalfSpan /\ y = x + HalfSpan
  BY DEF AsInt, w, y
<1>5. w * (y \div w) \in Int
  BY <1>2, <1>3
<1>6. x = w * (y \div w) + AsInt(x)
  BY <1>1, <1>2, <1>3, <1>4, <1>5
<1> QED BY <1>3, <1>6 DEF w

(* It leaves what an int can hold, and it takes a span for nothing.        *)
LEMMA CastIsExact ==
  ASSUME NEW x \in Int, NEW k \in Int, NEW n \in Int, -HalfSpan <= n, n < HalfSpan,
         x = 2 * HalfSpan * k + n
  PROVE  AsInt(x) = n
<1> DEFINE w == 2 * HalfSpan
           y == x + HalfSpan
<1>1. HalfSpan \in Nat \ {0}
  BY Sizes DEF HalfSpan
<1>2. w \in Nat \ {0} /\ w * k \in Int /\ y \in Int /\ y = w * k + (n + HalfSpan)
  BY <1>1
<1>3. n + HalfSpan \in 0 .. w - 1
  BY <1>1
<1>4. AsInt(x) = (y % w) - HalfSpan
  BY DEF AsInt
<1> HIDE DEF w, y
<1>5. y = w * (y \div w) + (y % w) /\ y \div w \in Int /\ y % w \in 0 .. w - 1
  BY <1>2
<1>6. PICK q \in Int, r \in 0 .. w - 1 : y = w * q + r /\ r = y % w
  BY <1>5
<1>7. k - q \in Int /\ w * q \in Int /\ w * (k - q) = w * k - w * q
  BY <1>2
<1>8. w * (k - q) = r - (n + HalfSpan)
  BY <1>1, <1>2, <1>6, <1>7
<1>9. k - q = 0
  <2>1. w * (k - q) < w /\ w * (k - q) > -w
    BY <1>1, <1>2, <1>3, <1>8
  <2> QED BY <1>2, <1>7, <2>1, SmallMultiple
<1>10. w * (k - q) = 0
  BY <1>2, <1>9
<1> QED BY <1>1, <1>4, <1>6, <1>8, <1>10

(* So the distance to an address i blocks into a page at f looks like an   *)
(* index of the page at g only when the pages are a multiple of a span     *)
(* apart; then it is the index i.                                          *)
LEMMA CastMatches ==
  ASSUME NEW f \in Nat, NEW g \in Nat, NEW i \in Idx,
         AsInt((BLOCKS * f + i) - BLOCKS * g) \in Idx
  PROVE  /\ AsInt(BLOCKS * f - BLOCKS * g) = 0
         /\ AsInt((BLOCKS * f + i) - BLOCKS * g) = i
<1> DEFINE x == (BLOCKS * f + i) - BLOCKS * g
           j == AsInt(x)
<1>1. /\ BLOCKS \in Nat \ {0} /\ HALF_INT \in Nat \ {0} /\ HalfSpan \in Nat \ {0}
      /\ i \in 0 .. BLOCKS - 1 /\ j \in 0 .. BLOCKS - 1
      /\ BLOCKS * f \in Nat /\ BLOCKS * g \in Nat
  BY Sizes DEF HalfSpan, Idx
<1>2. x \in Int
  BY <1>1
<1>3. PICK k \in Int : x = 2 * HalfSpan * k + j
  <2> HIDE DEF x
  <2> QED BY <1>2, CastTakesSpans
<1> HIDE DEF j
<1> DEFINE d == f - g - 2 * (HALF_INT * k)
<1>4. 2 * HalfSpan * k \in Int /\ HALF_INT * k \in Int /\ d \in Int
  BY <1>1
<1>5. 2 * HalfSpan * k = BLOCKS * (2 * (HALF_INT * k))
  BY <1>1 DEF HalfSpan
<1>6. BLOCKS * d = (BLOCKS * f - BLOCKS * g) - BLOCKS * (2 * (HALF_INT * k))
  BY <1>1, <1>4
<1>7. BLOCKS * d = j - i
  BY <1>1, <1>3, <1>4, <1>5, <1>6
<1>8. d = 0
  <2>1. BLOCKS * d < BLOCKS /\ BLOCKS * d > -BLOCKS
    BY <1>1, <1>7
  <2> HIDE DEF d
  <2> QED BY <1>1, <1>4, <2>1, SmallMultiple
<1>9. BLOCKS * d = 0
  <2> HIDE DEF d
  <2> QED BY <1>1, <1>8
<1>10. i = j /\ BLOCKS * f - BLOCKS * g = 2 * HalfSpan * k + 0
  BY <1>1, <1>4, <1>5, <1>6, <1>7, <1>9
<1>11. AsInt(BLOCKS * f - BLOCKS * g) = 0
  <2>1. BLOCKS * f - BLOCKS * g \in Int /\ -HalfSpan <= 0 /\ 0 < HalfSpan /\ 0 \in Int
    BY <1>1
  <2> QED BY <1>10, <2>1, CastIsExact
<1> QED BY <1>10, <1>11 DEF j

LEMMA CastKeepsIndex ==
  ASSUME NEW i \in Idx
  PROVE  AsInt(i) = i
<1>1. HalfSpan \in Nat \ {0} /\ BLOCKS <= HalfSpan /\ i \in 0 .. BLOCKS - 1 /\ BLOCKS \in Nat
  <2>1. HALF_INT \in Nat /\ BLOCKS \in Nat \ {0} /\ HALF_INT > 0
    BY Sizes
  <2>2. BLOCKS * HALF_INT >= BLOCKS * 0 + BLOCKS
    BY <2>1, NextMultiple
  <2> QED BY <2>1, <2>2 DEF HalfSpan, Idx
<1>2. i = 2 * HalfSpan * 0 + i
  BY <1>1
<1>3. i \in Int /\ -HalfSpan <= i /\ i < HalfSpan /\ 0 \in Int
  BY <1>1
<1> QED BY <1>2, <1>3, CastIsExact

-----------------------------------------------------------------------------
(* The pages of the program. *)
LEMMA Pages ==
  ASSUME TypeOK
  PROVE  /\ pages \subseteq Nat /\ IsFiniteSet(pages) /\ 0 \in pages
         /\ Cardinality(pages) \in Nat
         /\ ~Elastic => pages = {0}
<1>1. CASE pages = {0}
  <2>1. IsFiniteSet({0}) /\ Cardinality({0}) = 1
    BY FS_Singleton
  <2> QED BY <1>1, <2>1
<1>2. CASE pages = 0 .. PAGES - 1
  <2>1. PAGES - 1 \in Int /\ 0 <= PAGES - 1
    BY Sizes
  <2>2. IsFiniteSet(0 .. PAGES - 1) /\ Cardinality(0 .. PAGES - 1) = PAGES
    BY <2>1, Sizes, FS_Interval
  <2>3. ~Elastic => PAGES = 1
    BY <1>2, <2>2, Sizes DEF Elastic
  <2>4. PAGES = 1 => 0 .. PAGES - 1 = {0}
    OBVIOUS
  <2> QED BY <1>2, <2>1, <2>2, <2>3, <2>4, Sizes
<1> QED BY <1>1, <1>2 DEF TypeOK

(* A pointer that is held leads to an index of a mapped page: its own,     *)
(* unless that page is shadowed.                                           *)
Leads(h, p, i) ==
  /\ p = CorrespondingPage(h.ptr) /\ i = AsInt(h.ptr - base_ptr[p])
  /\ p \in Mapped /\ p \in pages /\ i \in Idx
  /\ Shadowed(h.page) \/ (p = h.page /\ i = h.ptr - base_ptr[p])

LEMMA PointerLeads ==
  ASSUME IInv, NEW h \in held
  PROVE  \E p, i : Leads(h, p, i)
<1> DEFINE S == {p \in pages : PageMatches(p, h.ptr)}
           q == Min(S)
<1>1. /\ h.page \in pages /\ h.page \in Mapped
      /\ h.ptr - base_ptr[h.page] \in Idx
  BY DEF IInv, HeldPlaced, Mapped
<1>2. /\ h.ptr \in Nat
      /\ \A p \in pages : base_ptr[p] \in Bases \cup {NULL} /\ base_ptr[p] \in Nat
  <2>1. held \subseteq [page : pages, ptr : Nat, blocks : Int]
    BY DEF IInv, TypeOK
  <2>2. base_ptr \in [pages -> Bases \cup {NULL}]
    BY DEF IInv, TypeOK
  <2>3. Bases \cup {NULL} \subseteq Nat
    BY BaseTypes DEF NULL
  <2> QED BY <2>1, <2>2, <2>3
<1>3. pages \subseteq Nat
  BY Pages DEF IInv
<1>4. AsInt(h.ptr - base_ptr[h.page]) = h.ptr - base_ptr[h.page]
  BY <1>1, CastKeepsIndex
<1>5. h.page \in S
  BY <1>1, <1>4 DEF PageMatches
<1>6. q \in S /\ \A p \in S : q <= p
  <2>1. S \in SUBSET Nat /\ S # {}
    BY <1>3, <1>5
  <2> HIDE DEF S
  <2> QED BY <2>1, MinIsLeast
<1>7. q = CorrespondingPage(h.ptr)
  BY DEF CorrespondingPage
<1>8. q \in pages /\ AsInt(h.ptr - base_ptr[q]) \in Idx /\ q <= h.page
  BY <1>5, <1>6 DEF PageMatches
<1> HIDE DEF S, q
<1>9. CASE q = h.page
  <2>1. Leads(h, q, AsInt(h.ptr - base_ptr[q]))
    BY <1>1, <1>4, <1>7, <1>8, <1>9 DEF Leads
  <2> QED BY <2>1
<1>10. CASE q # h.page
  <2>1. q < h.page
    <3>1. q \in Nat /\ h.page \in Nat
      BY <1>1, <1>3, <1>8
    <3> QED BY <1>8, <1>10, <3>1
  <2>2. q \in Mapped
    BY <1>1, <1>8, <2>1 DEF IInv, MappedFirst
  <2>3. AsInt(base_ptr[h.page] - base_ptr[q]) = 0
    <3> DEFINE i == h.ptr - base_ptr[h.page]
    <3>1. PICK f \in Nat : base_ptr[h.page] = BLOCKS * f
      BY <1>1, <1>2, BaseTypes
    <3>2. PICK g \in Nat : base_ptr[q] = BLOCKS * g
      BY <1>2, <1>8, BaseTypes
    <3>3. i \in Idx /\ h.ptr = BLOCKS * f + i
      BY <1>1, <1>2, <3>1
    <3> HIDE DEF i
    <3>4. AsInt((BLOCKS * f + i) - BLOCKS * g) \in Idx
      BY <1>8, <3>2, <3>3
    <3> QED BY <3>1, <3>2, <3>3, <3>4, CastMatches
  <2>4. Shadowed(h.page)
    BY <2>1, <2>2, <2>3 DEF Shadowed
  <2>5. Leads(h, q, AsInt(h.ptr - base_ptr[q]))
    BY <1>7, <1>8, <2>2, <2>4 DEF Leads
  <2> QED BY <2>5
<1> QED BY <1>9, <1>10

-----------------------------------------------------------------------------
(* The search for a place. *)

(* A run has the length RunLen says, within the page. *)
LEMMA RunLength ==
  ASSUME TypeOK, NEW p \in pages, NEW i \in RunStarts(p)
  PROVE  /\ i \in Idx /\ RunLen(p, i) \in 1 .. BLOCKS - i
         /\ \A k \in i .. i + RunLen(p, i) - 1 : is_free[p][k]
         /\ \A n \in 1 .. BLOCKS - i :
              (\A k \in i .. i + n - 1 : is_free[p][k]) => n <= RunLen(p, i)
<1> DEFINE S == {n \in 1 .. BLOCKS - i : \A k \in i .. i + n - 1 : is_free[p][k]}
<1>1. i \in 0 .. BLOCKS - 1 /\ is_free[p][i]
  BY DEF RunStarts, Idx
<1>2. 1 \in S
  <2>1. \A k \in i .. i + 1 - 1 : k = i
    BY <1>1
  <2>2. 1 \in 1 .. BLOCKS - i
    BY <1>1, Sizes
  <2> QED BY <1>1, <2>1, <2>2
<1>3. S \in SUBSET (0 .. BLOCKS) /\ S # {}
  <2>1. \A n \in 1 .. BLOCKS - i : n \in 0 .. BLOCKS
    BY <1>1, Sizes
  <2> QED BY <1>2, <2>1
<1>4. Max(S) \in S /\ \A y \in S : y <= Max(S)
  <2> HIDE DEF S
  <2> QED BY <1>3, Sizes, MaxIsGreatest
<1>5. RunLen(p, i) = Max(S)
  BY DEF RunLen
<1> QED BY <1>1, <1>4, <1>5 DEF Idx

(* The place found begins a run of free blocks that suffices. *)
LEMMA PlaceFound ==
  ASSUME TypeOK, NEW p \in pages, NEW r \in Int, Fitting(p, r) # {}
  PROVE  get_free_start_idx(p, r) \in Fitting(p, r)
<1> DEFINE F == Fitting(p, r)
           L == {RunLen(p, i) : i \in F}
           T == {i \in F : RunLen(p, i) = Min(L)}
<1>1. \A i \in F : i \in 0 .. BLOCKS - 1 /\ RunLen(p, i) \in Nat
  <2>1. \A i \in F : i \in RunStarts(p)
    BY DEF Fitting
  <2> QED BY <2>1, RunLength, Sizes DEF Idx
<1>2. F # {}
  OBVIOUS
<1> HIDE DEF F
<1>3. Min(L) \in L /\ \A y \in L : Min(L) <= y
  <2>1. L \in SUBSET Nat /\ L # {}
    BY <1>1, <1>2
  <2> HIDE DEF L
  <2> QED BY <2>1, MinIsLeast
<1>4. T \in SUBSET (0 .. BLOCKS - 1) /\ T # {}
  BY <1>1, <1>3
<1>5. Max(T) \in T /\ \A y \in T : y <= Max(T)
  <2>1. BLOCKS - 1 \in Nat
    BY Sizes
  <2> HIDE DEF T
  <2> QED BY <1>4, <2>1, MaxIsGreatest
<1>6. Max(T) \in F /\ RunLen(p, Max(T)) = Min(L)
  BY <1>5
<1>7. \A j \in F : Min(L) <= RunLen(p, j) /\ (Min(L) = RunLen(p, j) => j <= Max(T))
  BY <1>3, <1>5
<1> HIDE DEF L, T
<1> QED BY <1>6, <1>7, Zenon DEF get_free_start_idx, F

(* Free blocks in a row belong to a run at least as long. *)
LEMMA FreeRowFits ==
  ASSUME TypeOK, NEW p \in pages, NEW i \in Idx, NEW n \in 1 .. BLOCKS - i,
         \A k \in i .. i + n - 1 : is_free[p][k]
  PROVE  Fitting(p, n) # {}
<1> DEFINE S == {s \in 0 .. i : \A k \in s .. i : is_free[p][k]}
<1>1. i \in 0 .. BLOCKS - 1 /\ i \in Nat /\ BLOCKS \in Nat
  BY Sizes DEF Idx
<1>2. S \in SUBSET Nat /\ i \in S
  <2>1. i \in i .. i + n - 1 /\ \A k \in i .. i : k = i
    BY <1>1
  <2> QED BY <1>1, <2>1
<1> DEFINE s == Min(S)
<1>3. s \in S /\ \A y \in S : s <= y
  <2> HIDE DEF S
  <2> QED BY <1>2, MinIsLeast
<1>4. s \in 0 .. i /\ \A k \in s .. i : is_free[p][k]
  BY <1>3
<1>5. ASSUME s > 0, is_free[p][s - 1] PROVE FALSE
  <2>1. s - 1 \in 0 .. i
    BY <1>1, <1>4, <1>5
  <2>2. \A k \in s - 1 .. i : k = s - 1 \/ k \in s .. i
    BY <1>1, <1>4
  <2>3. s - 1 \in S
    BY <1>4, <1>5, <2>1, <2>2
  <2> QED BY <1>1, <1>3, <1>4, <2>3
<1> HIDE DEF S, s
<1>6. s \in RunStarts(p)
  <2>1. s \in Idx /\ s \in s .. i
    BY <1>1, <1>4 DEF Idx
  <2> QED BY <1>4, <1>5, <2>1 DEF RunStarts
<1>7. i + n - s \in 1 .. BLOCKS - s
  BY <1>1, <1>4
<1>8. \A k \in s .. s + (i + n - s) - 1 : is_free[p][k]
  <2>1. \A k \in s .. s + (i + n - s) - 1 : k \in s .. i \/ k \in i .. i + n - 1
    BY <1>1, <1>4
  <2> QED BY <1>4, <2>1
<1>9. RunLen(p, s) \in Int /\ i + n - s <= RunLen(p, s)
  BY <1>1, <1>4, <1>6, <1>7, <1>8, RunLength
<1>10. n <= RunLen(p, s)
  BY <1>1, <1>4, <1>9
<1> QED BY <1>6, <1>10 DEF Fitting
-----------------------------------------------------------------------------
(* Taking a free row of blocks for a piece, or giving a piece back, keeps  *)
(* the tables of its page in agreement.                                    *)
RowFree(free, i, n) ==
  /\ free[i]
  /\ n > 0 => i + n <= BLOCKS /\ \A k \in i .. i + n - 1 : free[k]

LEMMA TakeKeepsAgreement ==
  ASSUME NEW free \in [Idx -> BOOLEAN], NEW len \in [Idx -> Int], PageAgrees(free, len),
         NEW i \in Idx, NEW n \in Int, RowFree(free, i, n)
  PROVE  PageAgrees([k \in Idx |-> free[k] /\ k \notin i .. i + n - 1], [len EXCEPT ![i] = n])
<1> DEFINE f == [k \in Idx |-> free[k] /\ k \notin i .. i + n - 1]
           l == [len EXCEPT ![i] = n]
<1>1. Idx \subseteq Int
  BY Sizes DEF Idx
<1>2. \A j \in Idx : l[j] = IF j = i THEN n ELSE len[j]
  OBVIOUS
<1>3. \A k \in Idx : f[k] <=> free[k] /\ k \notin i .. i + n - 1
  OBVIOUS
<1>4. \A k \in Idx : k \in i .. i + n - 1 => free[k]
  BY <1>1 DEF RowFree
<1>5. ~(len[i] > 0)
  <2>1. len[i] > 0 => Covers(len, i, i)
    BY <1>1 DEF Covers
  <2> QED BY <2>1 DEF PageAgrees, RowFree
<1>6. \A j, k \in Idx : Covers(l, j, k) <=>
        \/ j = i /\ k \in i .. i + n - 1
        \/ j # i /\ Covers(len, j, k)
  <2> TAKE j, k \in Idx
  <2>1. CASE j = i
    BY <1>1, <1>2, <2>1 DEF Covers
  <2>2. CASE j # i
    BY <1>2, <2>2 DEF Covers
  <2> QED BY <2>1, <2>2
<1>7. \A k \in Idx : ~Covers(len, i, k)
  BY <1>5 DEF Covers
<1> HIDE DEF f, l
<1>8. \A j \in Idx : l[j] > 0 => j + l[j] <= BLOCKS
  BY <1>2 DEF PageAgrees, RowFree
<1>9. \A j, m, k \in Idx : Covers(l, j, k) /\ Covers(l, m, k) => j = m
  BY <1>4, <1>6 DEF PageAgrees
<1>10. \A k \in Idx : f[k] <=> \A j \in Idx : ~Covers(l, j, k)
  BY <1>3, <1>4, <1>6, <1>7 DEF PageAgrees
<1>11. PageAgrees(f, l)
  BY <1>8, <1>9, <1>10 DEF PageAgrees
<1> QED BY <1>11 DEF f, l

LEMMA GiveKeepsAgreement ==
  ASSUME NEW free \in [Idx -> BOOLEAN], NEW len \in [Idx -> Int], PageAgrees(free, len),
         NEW i \in Idx
  PROVE  PageAgrees([k \in Idx |-> free[k] \/ k \in FreedCells(i, len[i])],
                    [len EXCEPT ![i] = 0])
<1> DEFINE f == [k \in Idx |-> free[k] \/ k \in FreedCells(i, len[i])]
           l == [len EXCEPT ![i] = 0]
<1>1. Idx \subseteq Int
  BY Sizes DEF Idx
<1>2. \A j \in Idx : l[j] = IF j = i THEN 0 ELSE len[j]
  OBVIOUS
<1>3. \A k \in Idx : f[k] <=> free[k] \/ Covers(len, i, k)
  <2>1. i \in Int /\ len[i] \in Int
    BY <1>1
  <2>2. \A k \in Idx : k \in FreedCells(i, len[i]) <=> Covers(len, i, k)
    BY <1>1, <2>1 DEF Covers, FreedCells
  <2> QED BY <2>2
<1>4. \A j, k \in Idx : Covers(l, j, k) <=> j # i /\ Covers(len, j, k)
  BY <1>2 DEF Covers
<1> HIDE DEF f, l
<1>5. \A j \in Idx : l[j] > 0 => j + l[j] <= BLOCKS
  BY <1>2 DEF PageAgrees
<1>6. \A j, m, k \in Idx : Covers(l, j, k) /\ Covers(l, m, k) => j = m
  BY <1>4 DEF PageAgrees
<1>7. \A k \in Idx : f[k] <=> \A j \in Idx : ~Covers(l, j, k)
  BY <1>3, <1>4 DEF PageAgrees
<1>8. PageAgrees(f, l)
  BY <1>5, <1>6, <1>7 DEF PageAgrees
<1> QED BY <1>8 DEF f, l

(* Mapping the pages of P, which are the first ones. *)
Grown(P) ==
  /\ pages' = pages
  /\ base_ptr' \in [pages -> Bases \cup {NULL}]
  /\ \A q \in Mapped : base_ptr'[q] = base_ptr[q]
  /\ Mapped' = Mapped \cup P

LEMMA MapPagesGrows ==
  ASSUME IInv, NEW P \in SUBSET pages, \A p, q \in pages : q \in P /\ p < q => p \in P,
         pages' = pages, MapPages(P)
  PROVE  Grown(P) /\ BasesApart' /\ MappedFirst'
<1>1. \A q \in Mapped : q \in pages /\ base_ptr'[q] = base_ptr[q] /\ base_ptr[q] # NULL
  BY DEF MapPages, Mapped
<1>2. \A q \in P \ Mapped : base_ptr'[q] # NULL
  BY DEF MapPages
<1>3. \A q \in pages : q \notin P /\ q \notin Mapped => base_ptr'[q] = NULL
  BY DEF MapPages, Mapped
<1>4. Mapped' = Mapped \cup P
  <2>1. Mapped' = {q \in pages : base_ptr'[q] # NULL}
    BY DEF Mapped
  <2> QED BY <1>1, <1>2, <1>3, <2>1
<1>5. Grown(P)
  BY <1>1, <1>4 DEF Grown, MapPages
<1>6. BasesApart'
  <2>1. \A p, q \in Mapped' : base_ptr'[p] = base_ptr'[q] => p = q
    BY DEF MapPages, Mapped
  <2> QED BY <2>1 DEF BasesApart
<1>7. MappedFirst'
  <2>1. \A p, q \in pages : q \in Mapped \cup P /\ p < q => p \in Mapped \cup P
    BY DEF IInv, MappedFirst
  <2> QED BY <1>4, <2>1 DEF MappedFirst
<1> QED BY <1>5, <1>6, <1>7

LEMMA LookedAtFirst ==
  ASSUME TypeOK, NEW r
  PROVE  /\ LookedAt(r) \in SUBSET pages /\ 0 \in LookedAt(r)
         /\ \A p, q \in pages : q \in LookedAt(r) /\ p < q => p \in LookedAt(r)
<1>1. pages \subseteq Nat /\ 0 \in pages
  BY Pages
<1>2. \A p \in pages : ~(p < 0)
  BY <1>1
<1>3. \A o, p, q \in pages : o < p /\ p < q => o < q
  BY <1>1
<1> QED BY <1>1, <1>2, <1>3 DEF LookedAt

(* The place at which alloc takes n blocks: in the first page with room.   *)
TakenAt(p, i, n) ==
  /\ p \in pages /\ i \in Idx /\ p \in LookedAt(n)
  /\ Fitting(p, n) # {} /\ \A q \in pages : Fitting(q, n) # {} => p <= q
  /\ RowFree(is_free[p], i, n)
  /\ is_free' = [is_free EXCEPT ![p] =
       [k \in Idx |-> is_free[p][k] /\ k \notin i .. i + n - 1]]
  /\ alloc_blocks_len' = [alloc_blocks_len EXCEPT ![p] = [alloc_blocks_len[p] EXCEPT ![i] = n]]
  /\ ret' = base_ptr'[p] + i
  /\ held' = held \cup {[page |-> p, ptr |-> ret', blocks |-> n]}

LEMMA AllocTakes ==
  ASSUME TypeOK, NEW n \in Int, AllocFound(n), \E p \in pages : Fitting(p, n) # {}
  PROVE  \E p, i : TakenAt(p, i, n)
<1> DEFINE S == {q \in pages : Fitting(q, n) # {}}
           p == Min(S)
           i == get_free_start_idx(p, n)
<1>1. pages \subseteq Nat
  BY Pages
<1>2. p \in S /\ \A q \in S : p <= q
  <2>1. S \in SUBSET Nat /\ S # {}
    BY <1>1
  <2> HIDE DEF S
  <2> QED BY <2>1, MinIsLeast
<1>3. p \in pages /\ Fitting(p, n) # {}
  BY <1>2
<1>4. \A q \in pages : Fitting(q, n) # {} => p <= q
  BY <1>2
<1>5. p \in LookedAt(n)
  <2>1. \A q \in pages : q < p => Fitting(q, n) = {}
    <3> HIDE DEF S, p
    <3>1. p \in Nat
      BY <1>1, <1>3
    <3> QED BY <1>1, <1>4, <3>1
  <2> QED BY <1>3, <2>1 DEF LookedAt
<1>6. i \in RunStarts(p) /\ n <= RunLen(p, i)
  <2>1. i \in Fitting(p, n)
    BY <1>3, PlaceFound
  <2> QED BY <2>1 DEF Fitting
<1>7. /\ is_free' = [is_free EXCEPT ![p] =
           [k \in Idx |-> is_free[p][k] /\ k \notin i .. i + n - 1]]
      /\ alloc_blocks_len' = [alloc_blocks_len EXCEPT ![p] = [alloc_blocks_len[p] EXCEPT ![i] = n]]
      /\ ret' = base_ptr'[p] + i
      /\ held' = held \cup {[page |-> p, ptr |-> ret', blocks |-> n]}
  BY DEF AllocFound
<1> HIDE DEF S, p, i
<1>8. /\ i \in Idx /\ RunLen(p, i) \in 1 .. BLOCKS - i
      /\ \A k \in i .. i + RunLen(p, i) - 1 : is_free[p][k]
  BY <1>3, <1>6, RunLength
<1>9. RowFree(is_free[p], i, n)
  <2>1. i \in 0 .. BLOCKS - 1 /\ BLOCKS \in Nat
    BY <1>8, Sizes DEF Idx
  <2>2. is_free[p][i]
    BY <1>6 DEF RunStarts
  <2>3. \A k \in i .. i + n - 1 : is_free[p][k]
    BY <1>6, <1>8, <2>1
  <2>4. i + n <= BLOCKS
    BY <1>6, <1>8, <2>1
  <2> QED BY <2>2, <2>3, <2>4 DEF RowFree
<1>10. TakenAt(p, i, n)
  BY <1>3, <1>4, <1>5, <1>7, <1>8, <1>9 DEF TakenAt
<1> QED BY <1>10

(* What each call does, once the place or the page is known.               *)
AllocSteps(n) ==
  /\ Grown(LookedAt(n)) /\ BasesApart' /\ MappedFirst' /\ 0 \in LookedAt(n)
  /\ \/ \E p, i : TakenAt(p, i, n)
     \/ /\ \A p \in pages : Fitting(p, n) = {}
        /\ ret' = NULL /\ UNCHANGED <<tables, held>>

LEMMA AllocCases ==
  ASSUME IInv, NEW len \in Int, alloc(len)
  PROVE  /\ len \div MINALLOC \in Int
         /\ \/ /\ len % MINALLOC # 0
               /\ ret' = NULL /\ UNCHANGED <<pages, tables, base_ptr, held>>
            \/ len % MINALLOC = 0 /\ AllocSteps(len \div MINALLOC)
<1>0. len \div MINALLOC \in Int
  BY Sizes
<1>1. CASE len % MINALLOC # 0
  BY <1>0, <1>1 DEF alloc
<1>2. CASE len % MINALLOC = 0
  <2> DEFINE n == len \div MINALLOC
  <2>1. n \in Int
    BY Sizes
  <2>2. /\ pages' = pages /\ MapPages(LookedAt(n))
        /\ IF \E p \in pages : Fitting(p, n) # {}
             THEN AllocFound(n)
             ELSE ret' = NULL /\ UNCHANGED <<tables, held>>
    BY <1>2 DEF alloc
  <2> HIDE DEF n
  <2>3. TypeOK
    BY DEF IInv
  <2>4. Grown(LookedAt(n)) /\ BasesApart' /\ MappedFirst' /\ 0 \in LookedAt(n)
    BY <2>2, <2>3, LookedAtFirst, MapPagesGrows
  <2>5. ASSUME \E p \in pages : Fitting(p, n) # {} PROVE AllocSteps(n)
    <3>1. \E p, i : TakenAt(p, i, n)
      BY <2>1, <2>2, <2>3, <2>5, AllocTakes
    <3> QED BY <2>4, <3>1 DEF AllocSteps
  <2>6. ASSUME \A p \in pages : Fitting(p, n) = {} PROVE AllocSteps(n)
    BY <2>2, <2>4, <2>6 DEF AllocSteps
  <2>7. AllocSteps(n)
    BY <2>5, <2>6
  <2> QED BY <1>0, <1>2, <2>7 DEF n
<1> QED BY <1>1, <1>2

(* What dealloc does to the tables of the page a pointer leads to.         *)
GivenBack(h, p, i) ==
  /\ h \in held /\ Leads(h, p, i)
  /\ alloc_blocks_len' = [alloc_blocks_len EXCEPT ![p] = [alloc_blocks_len[p] EXCEPT ![i] = 0]]
  /\ is_free' = [is_free EXCEPT ![p] =
       [k \in Idx |-> is_free[p][k] \/ k \in FreedCells(i, alloc_blocks_len[p][i])]]
  /\ held' = held \ {h}
  /\ call' = Called("dealloc", h.ptr) /\ ret' = NULL
  /\ UNCHANGED <<pages, base_ptr>>

LEMMA DeallocGivesBack ==
  ASSUME IInv, NEW h \in held, dealloc(h)
  PROVE  \E p, i : GivenBack(h, p, i)
<1>1. PICK p, i : Leads(h, p, i)
  BY PointerLeads
<1>2. p = CorrespondingPage(h.ptr) /\ i = AsInt(h.ptr - base_ptr[p])
  BY <1>1 DEF Leads
<1>3. /\ alloc_blocks_len' = [alloc_blocks_len EXCEPT ![p] = [alloc_blocks_len[p] EXCEPT ![i] = 0]]
      /\ is_free' = [is_free EXCEPT ![p] =
           [k \in Idx |-> is_free[p][k] \/ k \in FreedCells(i, alloc_blocks_len[p][i])]]
      /\ held' = held \ {h}
      /\ call' = Called("dealloc", h.ptr) /\ ret' = NULL
      /\ UNCHANGED <<pages, base_ptr>>
  BY <1>2 DEF dealloc
<1> QED BY <1>1, <1>3 DEF GivenBack
-----------------------------------------------------------------------------
LEMMA TableTypes ==
  ASSUME TypeOK, NEW p \in pages
  PROVE  /\ is_free[p] \in [Idx -> BOOLEAN]
         /\ alloc_blocks_len[p] \in [Idx -> {n \in Int : n <= BLOCKS}]
         /\ alloc_blocks_len[p] \in [Idx -> Int]
<1>1. /\ is_free[p] \in [Idx -> BOOLEAN]
      /\ alloc_blocks_len[p] \in [Idx -> {n \in Int : n <= BLOCKS}]
  BY DEF TypeOK
<1> QED BY <1>1

LEMMA CallTypes ==
  /\ \A len \in Int : Called("alloc", len) \in Calls /\ Called("dealloc", len) \in Calls
  /\ Called("reset", 0) \in Calls
BY DEF Called, Calls

LEMMA InitEstablishes == Init => IInv
<1> SUFFICES ASSUME Init PROVE IInv
  OBVIOUS
<1>1. /\ pages \in {{0}, 0 .. PAGES - 1} /\ alloc_blocks_len = NoLengths
      /\ base_ptr = [p \in pages |-> NULL] /\ held = {} /\ ret = NULL
      /\ call \in Calls
  BY CallTypes DEF Init
<1>2. Mapped = {}
  BY <1>1 DEF Mapped
<1>3. Elastic => is_free = AllFree
  BY DEF Init
<1>4. is_free \in [pages -> [Idx -> BOOLEAN]]
  BY DEF Init, AllFree
<1>5. \A p \in pages : \A i \in Idx : alloc_blocks_len[p][i] = 0
  BY <1>1 DEF NoLengths
<1>6. TypeOK
  <2>1. alloc_blocks_len \in [pages -> [Idx -> {n \in Int : n <= BLOCKS}]]
    BY <1>1, Sizes DEF NoLengths
  <2> QED BY <1>1, <1>4, <2>1 DEF TypeOK, NULL
<1>7. TablesAgree
  <2> SUFFICES ASSUME NEW p \in pages, Elastic PROVE PageAgrees(is_free[p], alloc_blocks_len[p])
    BY <1>2 DEF TablesAgree
  <2>1. \A i \in Idx : is_free[p][i]
    BY <1>3 DEF AllFree
  <2> QED BY <1>5, <2>1 DEF PageAgrees, Covers
<1>8. FreshPages
  BY <1>3, <1>5 DEF FreshPages, AllFree
<1>9. BasesApart /\ MappedFirst /\ HeldPlaced /\ NothingYet
  BY <1>1, <1>2 DEF BasesApart, MappedFirst, HeldPlaced, NothingYet
<1> QED BY <1>6, <1>7, <1>8, <1>9 DEF IInv

LEMMA InitAllocPreserves == IInv /\ init_alloc => IInv'
<1> SUFFICES ASSUME IInv, init_alloc PROVE IInv'
  OBVIOUS
<1>1. /\ ~Elastic /\ Mapped = {} /\ MapPages({0}) /\ pages' = pages
      /\ is_free' = AllFree /\ alloc_blocks_len' = NoLengths
      /\ held' = held /\ ret' = NULL /\ call' \in Calls
  BY CallTypes DEF init_alloc
<1>2. TypeOK /\ pages = {0} /\ held = {} /\ ret = NULL
  BY <1>1, Pages DEF IInv, NothingYet
<1>3. Grown({0}) /\ BasesApart' /\ MappedFirst'
  <2>1. {0} \in SUBSET pages /\ \A p, q \in pages : q \in {0} /\ p < q => p \in {0}
    BY <1>2
  <2> QED BY <1>1, <2>1, MapPagesGrows
<1>4. ~Elastic'
  BY <1>1 DEF Elastic
<1>5. TypeOK'
  <2>1. is_free' \in [pages' -> [Idx -> BOOLEAN]]
    BY <1>1 DEF AllFree
  <2>2. alloc_blocks_len' \in [pages' -> [Idx -> {n \in Int : n <= BLOCKS}]]
    BY <1>1, Sizes DEF NoLengths
  <2> QED BY <1>1, <1>2, <1>3, <2>1, <2>2 DEF TypeOK, Grown, NULL
<1>6. TablesAgree'
  <2>1. \A p \in pages : PageAgrees(AllFree[p], NoLengths[p])
    BY DEF PageAgrees, Covers, AllFree, NoLengths
  <2> QED BY <1>1, <2>1 DEF TablesAgree
<1>7. FreshPages' /\ HeldPlaced' /\ NothingYet'
  BY <1>1, <1>2, <1>4 DEF FreshPages, HeldPlaced, NothingYet
<1> QED BY <1>3, <1>5, <1>6, <1>7 DEF IInv

LEMMA CleanupPreserves == IInv /\ cleanup => IInv'
<1> SUFFICES ASSUME IInv, cleanup PROVE IInv'
  OBVIOUS
<1>1. /\ ~Elastic /\ base_ptr' = [p \in pages |-> NULL] /\ held' = {} /\ ret' = NULL
      /\ pages' = pages /\ is_free' = is_free /\ alloc_blocks_len' = alloc_blocks_len
      /\ call' \in Calls
  BY CallTypes DEF cleanup, tables
<1>2. ~Elastic' /\ Mapped' = {}
  BY <1>1 DEF Elastic, Mapped
<1>3. TypeOK'
  BY <1>1 DEF IInv, TypeOK, NULL
<1>4. TablesAgree' /\ FreshPages'
  BY <1>2 DEF TablesAgree, FreshPages
<1>5. BasesApart' /\ MappedFirst' /\ HeldPlaced' /\ NothingYet'
  BY <1>1, <1>2 DEF BasesApart, MappedFirst, HeldPlaced, NothingYet
<1> QED BY <1>3, <1>4, <1>5 DEF IInv

(* Mapping pages and taking a place in one of them. *)
LEMMA TakingPreserves ==
  ASSUME IInv, NEW n \in Int, Grown(LookedAt(n)), BasesApart', MappedFirst',
         NEW p, NEW i, TakenAt(p, i, n), Elastic \/ Mapped # {}, call' \in Calls
  PROVE  IInv'
<1>1. TypeOK /\ pages' = pages /\ p \in pages /\ i \in Idx
  BY DEF IInv, Grown, TakenAt
<1>2. Mapped' = Mapped \cup LookedAt(n) /\ p \in Mapped'
  BY DEF Grown, TakenAt
<1>3. Elastic' <=> Elastic
  BY <1>1 DEF Elastic
<1> DEFINE f == [k \in Idx |-> is_free[p][k] /\ k \notin i .. i + n - 1]
           l == [alloc_blocks_len[p] EXCEPT ![i] = n]
<1>4. /\ is_free' = [is_free EXCEPT ![p] = f]
      /\ alloc_blocks_len' = [alloc_blocks_len EXCEPT ![p] = l]
  BY DEF TakenAt
<1>5. i \in Int /\ i >= 0 /\ (n > 0 => i + n <= BLOCKS) /\ n <= BLOCKS
  <2>1. i \in 0 .. BLOCKS - 1 /\ BLOCKS \in Nat
    BY <1>1, Sizes DEF Idx
  <2>2. n > 0 => i + n <= BLOCKS
    BY DEF TakenAt, RowFree
  <2> QED BY <2>1, <2>2
<1>6. f \in [Idx -> BOOLEAN]
  BY <1>1, TableTypes
<1>7. l \in [Idx -> {m \in Int : m <= BLOCKS}]
  BY <1>1, <1>5, TableTypes
<1>8. Elastic \/ p \in Mapped => PageAgrees(f, l)
  <2> SUFFICES ASSUME Elastic \/ p \in Mapped PROVE PageAgrees(f, l)
    OBVIOUS
  <2>1. PageAgrees(is_free[p], alloc_blocks_len[p]) /\ RowFree(is_free[p], i, n)
    BY <1>1 DEF IInv, TablesAgree, TakenAt
  <2> QED BY <1>1, <2>1, TableTypes, TakeKeepsAgreement
<1> HIDE DEF f, l
<1>9. /\ \A q \in pages : q # p => is_free'[q] = is_free[q] /\ alloc_blocks_len'[q] = alloc_blocks_len[q]
      /\ is_free'[p] = f /\ alloc_blocks_len'[p] = l
  BY <1>1, <1>4 DEF TypeOK
<1>10. base_ptr'[p] \in Bases /\ base_ptr'[p] \in Nat
  <2>1. base_ptr'[p] \in Bases \cup {NULL} /\ base_ptr'[p] # NULL
    BY <1>1, <1>2 DEF Grown, Mapped
  <2> QED BY <2>1, BaseTypes
<1>11. ret' = base_ptr'[p] + i /\ ret' \in Nat
  BY <1>5, <1>10 DEF TakenAt
<1>12. TypeOK'
  <2>1. is_free' \in [pages -> [Idx -> BOOLEAN]]
    BY <1>1, <1>4, <1>6 DEF TypeOK
  <2>2. alloc_blocks_len' \in [pages -> [Idx -> {m \in Int : m <= BLOCKS}]]
    BY <1>1, <1>4, <1>7 DEF TypeOK
  <2>3. held' \subseteq [page : pages, ptr : Nat, blocks : Int]
    <3>1. held \subseteq [page : pages, ptr : Nat, blocks : Int]
      BY <1>1 DEF TypeOK
    <3>2. held' = held \cup {[page |-> p, ptr |-> ret', blocks |-> n]}
      BY DEF TakenAt
    <3> QED BY <1>1, <1>11, <3>1, <3>2
  <2> QED BY <1>1, <1>11, <2>1, <2>2, <2>3 DEF TypeOK, Grown
<1>13. TablesAgree'
  <2> SUFFICES ASSUME NEW q \in pages, Elastic \/ q \in Mapped'
               PROVE  PageAgrees(is_free'[q], alloc_blocks_len'[q])
    BY <1>1, <1>3 DEF TablesAgree
  <2>1. Elastic \/ q \in Mapped
    BY <1>1, Pages DEF Mapped
  <2> QED BY <1>8, <1>9, <2>1 DEF IInv, TablesAgree
<1>14. FreshPages'
  BY <1>1, <1>2, <1>3, <1>9 DEF IInv, FreshPages
<1>15. HeldPlaced'
  <2>1. \A h \in held : h.page \in Mapped /\ h.ptr - base_ptr'[h.page] \in Idx
    BY DEF IInv, HeldPlaced, Grown
  <2>2. (base_ptr'[p] + i) - base_ptr'[p] = i
    BY <1>5, <1>10
  <2>3. held' = held \cup {[page |-> p, ptr |-> ret', blocks |-> n]}
    BY DEF TakenAt
  <2> QED BY <1>1, <1>2, <1>11, <2>1, <2>2, <2>3 DEF HeldPlaced
<1>16. NothingYet'
  BY <1>2 DEF NothingYet
<1> QED BY <1>12, <1>13, <1>14, <1>15, <1>16 DEF IInv

(* Mapping pages only, in which no place was found. *)
LEMMA RefusingPreserves ==
  ASSUME IInv, NEW n \in Int, Grown(LookedAt(n)), BasesApart', MappedFirst', 0 \in LookedAt(n),
         Elastic \/ Mapped # {}, call' \in Calls, ret' = NULL, UNCHANGED <<tables, held>>
  PROVE  IInv'
<1>1. /\ pages' = pages /\ Mapped' = Mapped \cup LookedAt(n)
      /\ is_free' = is_free /\ alloc_blocks_len' = alloc_blocks_len /\ held' = held
  BY DEF Grown, tables
<1>2. Elastic' <=> Elastic
  BY <1>1 DEF Elastic
<1>3. TypeOK'
  BY <1>1 DEF IInv, TypeOK, Grown, NULL
<1>4. ~Elastic => Mapped = pages
  BY Pages DEF IInv, Mapped
<1>5. TablesAgree'
  BY <1>1, <1>2, <1>4 DEF IInv, TablesAgree
<1>6. FreshPages'
  BY <1>1, <1>2 DEF IInv, FreshPages
<1>7. HeldPlaced'
  BY <1>1 DEF IInv, HeldPlaced, Grown
<1>8. NothingYet'
  BY <1>1 DEF NothingYet
<1> QED BY <1>3, <1>5, <1>6, <1>7, <1>8 DEF IInv

LEMMA AllocPreserves ==
  ASSUME IInv, NEW len \in Int, alloc(len)
  PROVE  IInv'
<1>0. (Elastic \/ Mapped # {}) /\ call' \in Calls
  BY CallTypes DEF alloc
<1>1. CASE ret' = NULL /\ UNCHANGED <<pages, tables, base_ptr, held>>
  <2>1. /\ pages' = pages /\ is_free' = is_free /\ alloc_blocks_len' = alloc_blocks_len
        /\ base_ptr' = base_ptr /\ held' = held /\ ret' = NULL
    BY <1>1 DEF tables
  <2>2. Mapped' = Mapped /\ (Elastic' <=> Elastic)
    BY <2>1 DEF Mapped, Elastic
  <2> QED BY <1>0, <2>1, <2>2
       DEF IInv, TypeOK, TablesAgree, BasesApart, MappedFirst, FreshPages, HeldPlaced,
           NothingYet, NULL
<1>2. ASSUME NEW n \in Int, AllocSteps(n) PROVE IInv'
  BY <1>0, <1>2, TakingPreserves, RefusingPreserves DEF AllocSteps
<1> QED BY <1>1, <1>2, AllocCases

LEMMA DeallocPreserves ==
  ASSUME IInv, NEW h \in held, dealloc(h)
  PROVE  IInv'
<1>1. PICK p, i : GivenBack(h, p, i)
  BY DeallocGivesBack
<1>2. /\ TypeOK /\ p \in Mapped /\ p \in pages /\ i \in Idx
      /\ held' = held \ {h} /\ pages' = pages /\ base_ptr' = base_ptr
      /\ call' = Called("dealloc", h.ptr) /\ ret' = NULL
  BY <1>1 DEF GivenBack, Leads, IInv
<1>3. Mapped' = Mapped /\ (Elastic' <=> Elastic)
  BY <1>2 DEF Mapped, Elastic
<1> DEFINE f == [k \in Idx |-> is_free[p][k] \/ k \in FreedCells(i, alloc_blocks_len[p][i])]
           l == [alloc_blocks_len[p] EXCEPT ![i] = 0]
<1>4. /\ is_free' = [is_free EXCEPT ![p] = f]
      /\ alloc_blocks_len' = [alloc_blocks_len EXCEPT ![p] = l]
  BY <1>1 DEF GivenBack
<1>5. PageAgrees(f, l)
  <2>1. PageAgrees(is_free[p], alloc_blocks_len[p])
    BY <1>2 DEF IInv, TablesAgree
  <2> QED BY <1>2, <2>1, TableTypes, GiveKeepsAgreement
<1>6. f \in [Idx -> BOOLEAN]
  BY <1>2, TableTypes
<1>7. l \in [Idx -> {m \in Int : m <= BLOCKS}]
  BY <1>2, TableTypes, Sizes
<1> HIDE DEF f, l
<1>8. /\ \A q \in pages : q # p => is_free'[q] = is_free[q] /\ alloc_blocks_len'[q] = alloc_blocks_len[q]
      /\ is_free'[p] = f /\ alloc_blocks_len'[p] = l
  BY <1>2, <1>4 DEF TypeOK
<1>9. TypeOK'
  <2>1. is_free' \in [pages -> [Idx -> BOOLEAN]]
    BY <1>2, <1>4, <1>6 DEF TypeOK
  <2>2. alloc_blocks_len' \in [pages -> [Idx -> {m \in Int : m <= BLOCKS}]]
    BY <1>2, <1>4, <1>7 DEF TypeOK
  <2>3. call' \in Calls
    <3>1. h.ptr \in Int
      BY <1>2 DEF TypeOK
    <3> QED BY <1>2, <3>1, CallTypes
  <2> QED BY <1>2, <2>1, <2>2, <2>3 DEF TypeOK, NULL
<1>10. TablesAgree'
  BY <1>2, <1>3, <1>5, <1>8 DEF IInv, TablesAgree
<1>11. FreshPages'
  BY <1>2, <1>3, <1>8 DEF IInv, FreshPages
<1>12. BasesApart' /\ MappedFirst' /\ HeldPlaced' /\ NothingYet'
  BY <1>2, <1>3 DEF IInv, BasesApart, MappedFirst, HeldPlaced, NothingYet
<1> QED BY <1>9, <1>10, <1>11, <1>12 DEF IInv

LEMMA Inductive == IInv /\ [Next]_vars => IInv'
<1> SUFFICES ASSUME IInv, [Next]_vars PROVE IInv'
  OBVIOUS
<1>1. CASE init_alloc
  BY <1>1, InitAllocPreserves
<1>2. CASE cleanup
  BY <1>2, CleanupPreserves
<1>3. ASSUME NEW len \in ReqLens, alloc(len) PROVE IInv'
  <2>1. len \in Int
    BY AllocatorAssumption
  <2> QED BY <1>3, <2>1, AllocPreserves
<1>4. ASSUME NEW h \in held, dealloc(h) PROVE IInv'
  BY <1>4, DeallocPreserves
<1>5. CASE UNCHANGED vars
  BY <1>5 DEF vars, tables, IInv, TypeOK, TablesAgree, BasesApart, MappedFirst, FreshPages,
              HeldPlaced, NothingYet, Mapped, Elastic
<1> QED BY <1>1, <1>2, <1>3, <1>4, <1>5 DEF Next

(* The tables keep their types, and dealloc finds in them the page that    *)
(* each pointer came from, wherever mmap put the pages, unless an earlier  *)
(* page lies a multiple of the span of an int away.                        *)
THEOREM TablesCorrect == Spec => []TablesInv
<1>1. IInv => TablesInv
  BY PointerLeads DEF TablesInv, IInv, PointersFound, Leads
<1> QED BY <1>1, InitEstablishes, Inductive, PTL DEF Spec

-----------------------------------------------------------------------------
(* The caller's pieces.  A piece of one block or more is a row of blocks   *)
(* of its page that are not free.                                          *)
HeldAt(h) ==
  LET idx == h.ptr - base_ptr[h.page] IN
    h.blocks > 0 =>
      /\ alloc_blocks_len[h.page][idx] = h.blocks
      /\ \A k \in idx .. idx + h.blocks - 1 : ~is_free[h.page][k]

LEMMA HeldTypes ==
  ASSUME IInv, NEW h \in held
  PROVE  /\ h.page \in Mapped /\ h.page \in pages /\ h.blocks \in Int /\ h.ptr \in Nat
         /\ base_ptr[h.page] \in Bases \cup {NULL} /\ base_ptr[h.page] \in Nat
         /\ h.ptr - base_ptr[h.page] \in Idx
         /\ h.ptr - base_ptr[h.page] \in Nat
<1>1. h.page \in Mapped /\ h.page \in pages /\ h.ptr - base_ptr[h.page] \in Idx
  BY DEF IInv, HeldPlaced, Mapped
<1>2. held \subseteq [page : pages, ptr : Nat, blocks : Int]
  BY DEF IInv, TypeOK
<1>3. base_ptr[h.page] \in Bases \cup {NULL}
  BY <1>1 DEF IInv, TypeOK
<1>4. Bases \cup {NULL} \subseteq Nat
  BY BaseTypes DEF NULL
<1>5. Idx \subseteq Nat
  BY Sizes DEF Idx
<1> QED BY <1>1, <1>2, <1>3, <1>4, <1>5

(* The cells of a piece are blocks of its page. *)
LEMMA HeldCells ==
  ASSUME IInv, HeldBlocksExclusive, NEW h \in held, NEW a \in CellsOf(h)
  PROVE  /\ a - base_ptr[h.page] \in Idx
         /\ ~is_free[h.page][a - base_ptr[h.page]]
         /\ Covers(alloc_blocks_len[h.page], h.ptr - base_ptr[h.page], a - base_ptr[h.page])
<1> DEFINE p == h.page
           b == base_ptr[p]
           i == h.ptr - b
           k == a - b
           len == alloc_blocks_len[p]
<1>1. /\ h.blocks \in Int /\ h.ptr \in Nat /\ p \in pages /\ p \in Mapped
      /\ b \in Nat /\ i \in Idx /\ i \in Nat /\ BLOCKS \in Nat
  BY HeldTypes, Sizes
<1>2. a \in h.ptr .. h.ptr + h.blocks - 1
  BY DEF CellsOf
<1>3. h.blocks > 0 /\ a \in Int
  BY <1>1, <1>2
<1>4. /\ len[i] = h.blocks
      /\ \A c \in i .. i + h.blocks - 1 : ~is_free[p][c]
  BY <1>3 DEF HeldBlocksExclusive
<1>5. i + len[i] <= BLOCKS
  <2>1. PageAgrees(is_free[p], len)
    BY <1>1 DEF IInv, TablesAgree
  <2> QED BY <1>1, <1>3, <1>4, <2>1 DEF PageAgrees
<1>6. k \in i .. i + h.blocks - 1
  BY <1>1, <1>2, <1>3
<1>7. k \in Idx
  BY <1>1, <1>3, <1>4, <1>5, <1>6 DEF Idx
<1>8. Covers(len, i, k)
  BY <1>3, <1>4, <1>6 DEF Covers
<1> QED BY <1>4, <1>6, <1>7, <1>8

(* A call that takes nothing from the tables and moves no page that is     *)
(* mapped leaves the pieces as they are.                                   *)
LEMMA HeldUnchanged ==
  ASSUME IInv, HeldBlocksExclusive, held' = held, UNCHANGED tables,
         \A q \in Mapped : base_ptr'[q] = base_ptr[q]
  PROVE  HeldBlocksExclusive'
<1>1. \A h \in held : base_ptr'[h.page] = base_ptr[h.page]
  BY HeldTypes
<1> QED BY <1>1 DEF HeldBlocksExclusive, CellsOf, tables

LEMMA TakingKeepsHeld ==
  ASSUME IInv, IInv', HeldBlocksExclusive, NEW n \in Int, Grown(LookedAt(n)),
         NEW p, NEW i, TakenAt(p, i, n)
  PROVE  HeldBlocksExclusive'
<1> DEFINE new == [page |-> p, ptr |-> ret', blocks |-> n]
<1>1. /\ held' = held \cup {new} /\ ret' = base_ptr'[p] + i
      /\ p \in pages /\ i \in Idx /\ i \in Int /\ RowFree(is_free[p], i, n)
  BY Sizes DEF TakenAt, Idx
<1>2. /\ is_free' = [is_free EXCEPT ![p] =
           [k \in Idx |-> is_free[p][k] /\ k \notin i .. i + n - 1]]
      /\ alloc_blocks_len' = [alloc_blocks_len EXCEPT ![p] = [alloc_blocks_len[p] EXCEPT ![i] = n]]
  BY DEF TakenAt
<1>3. \A h \in held : base_ptr'[h.page] = base_ptr[h.page]
  BY HeldTypes DEF Grown
<1>4. /\ TypeOK /\ pages' = pages
      /\ p \in Mapped' /\ base_ptr'[p] \in Bases \cup {NULL} /\ base_ptr'[p] \in Nat
  <2>1. p \in Mapped' /\ base_ptr'[p] \in Bases \cup {NULL}
    BY <1>1 DEF Grown, TakenAt
  <2>2. Bases \cup {NULL} \subseteq Nat
    BY BaseTypes DEF NULL
  <2> QED BY <2>1, <2>2 DEF IInv, Grown
<1>5. \A k \in i .. i + n - 1 : k \in Idx /\ is_free[p][k]
  <2>1. i \in 0 .. BLOCKS - 1 /\ BLOCKS \in Nat
    BY <1>1, Sizes DEF Idx
  <2>2. \A k \in i .. i + n - 1 : n > 0
    BY <1>1
  <2> QED BY <1>1, <2>1, <2>2 DEF RowFree, Idx
<1>6. ASSUME NEW h \in held PROVE CellsOf(h) \cap CellsOf(new) = {}
  <2> SUFFICES ASSUME NEW a \in CellsOf(h), a \in CellsOf(new) PROVE FALSE
    OBVIOUS
  <2> DEFINE b == base_ptr[h.page]
             c == base_ptr'[p]
             k == a - b
             m == a - c
  <2>1. k \in Idx /\ ~is_free[h.page][k]
    BY <1>6, HeldCells
  <2>2. b \in Bases \cup {NULL} /\ b \in Nat /\ h.page \in Mapped /\ h.page \in pages
    BY <1>6, HeldTypes
  <2>3. a \in c + i .. c + i + n - 1
    BY <1>1 DEF CellsOf
  <2>4. a \in Int /\ m \in i .. i + n - 1
    BY <1>1, <1>4, <2>3
  <2>5. m \in Idx /\ is_free[p][m]
    BY <1>5, <2>4
  <2>6. b + k = c + m
    BY <1>4, <2>2, <2>4
  <2>7. b = c /\ k = m
    <3>1. b \in Bases \cup {NULL} /\ c \in Bases \cup {NULL}
      BY <1>4, <2>2
    <3> HIDE DEF b, c, k, m
    <3> QED BY <2>1, <2>5, <2>6, <3>1, BlockAddress
  <2>8. h.page = p
    <3>1. h.page \in Mapped' /\ base_ptr'[h.page] = b
      BY <1>3, <1>6, <2>2 DEF Grown
    <3> QED BY <1>4, <2>7, <3>1 DEF IInv, BasesApart
  <2> QED BY <2>1, <2>5, <2>7, <2>8
<1>7. \A g, h \in held' : g # h => CellsOf(g) \cap CellsOf(h) = {}
  <2>1. \A g, h \in held : g # h => CellsOf(g) \cap CellsOf(h) = {}
    BY DEF HeldBlocksExclusive
  <2> HIDE DEF new
  <2> QED BY <1>1, <1>6, <2>1
<1>8. ASSUME NEW h \in held PROVE HeldAt(h)'
  <2> DEFINE idx == h.ptr - base_ptr[h.page]
  <2>1. /\ h.page \in Mapped /\ h.page \in pages /\ h.blocks \in Int
        /\ idx \in Idx /\ idx \in Nat
    BY <1>8, HeldTypes
  <2>2. h.ptr - base_ptr'[h.page] = idx
    BY <1>3, <1>8
  <2> HIDE DEF idx
  <2> SUFFICES ASSUME h.blocks > 0
               PROVE  /\ alloc_blocks_len'[h.page][idx] = h.blocks
                      /\ \A k \in idx .. idx + h.blocks - 1 : ~is_free'[h.page][k]
    BY <2>2 DEF HeldAt
  <2>3. /\ alloc_blocks_len[h.page][idx] = h.blocks
        /\ \A k \in idx .. idx + h.blocks - 1 : ~is_free[h.page][k]
    BY <1>8 DEF HeldBlocksExclusive, idx
  <2>4. idx \in idx .. idx + h.blocks - 1
    BY <2>1
  <2>5. h.page = p => idx # i
    BY <1>1, <2>3, <2>4 DEF RowFree
  <2>6. alloc_blocks_len'[h.page][idx] = h.blocks
    BY <1>1, <1>2, <1>4, <2>1, <2>3, <2>5 DEF TypeOK
  <2>7. \A k \in idx .. idx + h.blocks - 1 : k \in Idx
    <3>1. PageAgrees(is_free[h.page], alloc_blocks_len[h.page])
      BY <2>1 DEF IInv, TablesAgree
    <3>2. idx + h.blocks <= BLOCKS
      BY <2>1, <2>3, <3>1 DEF PageAgrees
    <3> QED BY <2>1, <3>2, Sizes DEF Idx
  <2>8. \A k \in idx .. idx + h.blocks - 1 : ~is_free'[h.page][k]
    BY <1>1, <1>2, <1>4, <2>1, <2>3, <2>7 DEF TypeOK
  <2> QED BY <2>6, <2>8
<1>9. ASSUME NEW g, g = new PROVE HeldAt(g)'
  <2>1. (base_ptr'[p] + i) - base_ptr'[p] = i
    BY <1>1, <1>4
  <2>2. g.ptr - base_ptr'[g.page] = i /\ g.page = p /\ g.blocks = n
    BY <1>1, <1>9, <2>1
  <2>3. alloc_blocks_len'[p][i] = n
    <3>1. alloc_blocks_len'[p] = [alloc_blocks_len[p] EXCEPT ![i] = n]
      BY <1>1, <1>2, <1>4 DEF TypeOK
    <3> QED BY <1>1, <1>4, <3>1, TableTypes
  <2>4. \A k \in i .. i + n - 1 : ~is_free'[p][k]
    BY <1>1, <1>2, <1>4, <1>5 DEF TypeOK
  <2> HIDE DEF new
  <2> QED BY <2>2, <2>3, <2>4 DEF HeldAt
<1>10. \A h \in held' : HeldAt(h)'
  <2> TAKE h \in held'
  <2>1. h \in held \/ h = new
    BY <1>1
  <2> HIDE DEF new
  <2> QED BY <1>8, <1>9, <2>1
<1> QED BY <1>7, <1>10 DEF HeldBlocksExclusive, HeldAt, CellsOf

LEMMA GivingKeepsHeld ==
  ASSUME IInv, HeldBlocksExclusive, NEW h \in held, dealloc(h), h.blocks > 0,
         ~Shadowed(h.page)
  PROVE  HeldBlocksExclusive'
<1> DEFINE p == h.page
           i == h.ptr - base_ptr[h.page]
<1>1. GivenBack(h, p, i)
  BY DeallocGivesBack DEF GivenBack, Leads
<1>2. /\ h.blocks \in Int /\ h.ptr \in Nat /\ p \in pages /\ i \in Idx /\ i \in Nat
      /\ base_ptr[p] \in Nat
  BY HeldTypes
<1>3. alloc_blocks_len[p][i] = h.blocks
  BY DEF HeldBlocksExclusive
<1>9. h.page = p /\ h.ptr = base_ptr[p] + i
  BY <1>2
<1> HIDE DEF p, i
<1>4. /\ TypeOK /\ h.page = p /\ h.ptr = base_ptr[p] + i
      /\ held' = held \ {h} /\ base_ptr' = base_ptr
      /\ alloc_blocks_len' = [alloc_blocks_len EXCEPT ![p] = [alloc_blocks_len[p] EXCEPT ![i] = 0]]
      /\ is_free' = [is_free EXCEPT ![p] =
           [k \in Idx |-> is_free[p][k] \/ k \in i .. i + h.blocks - 1]]
  BY <1>1, <1>2, <1>3, <1>9 DEF GivenBack, FreedCells, IInv
<1>5. ASSUME NEW g \in held, g # h PROVE HeldAt(g)'
  <2> DEFINE idx == g.ptr - base_ptr[g.page]
  <2>1. /\ g.page \in Mapped /\ g.page \in pages /\ g.blocks \in Int /\ g.ptr \in Nat
        /\ base_ptr[g.page] \in Nat /\ idx \in Idx /\ idx \in Nat
    BY <1>5, HeldTypes
  <2>2. g.ptr = base_ptr[g.page] + idx
    BY <2>1
  <2> HIDE DEF idx
  <2> SUFFICES ASSUME g.blocks > 0
               PROVE  /\ alloc_blocks_len'[g.page][idx] = g.blocks
                      /\ \A k \in idx .. idx + g.blocks - 1 : ~is_free'[g.page][k]
    BY <1>4 DEF HeldAt, idx
  <2>3. /\ alloc_blocks_len[g.page][idx] = g.blocks
        /\ \A k \in idx .. idx + g.blocks - 1 : ~is_free[g.page][k]
    BY <1>5 DEF HeldBlocksExclusive, idx
  <2>4. CellsOf(g) \cap CellsOf(h) = {}
    BY <1>5 DEF HeldBlocksExclusive
  <2>5. g.page = p => \A k \in idx .. idx + g.blocks - 1 : k \notin i .. i + h.blocks - 1
    <3> SUFFICES ASSUME g.page = p, NEW k \in idx .. idx + g.blocks - 1,
                        k \in i .. i + h.blocks - 1
                 PROVE  FALSE
      OBVIOUS
    <3>1. base_ptr[p] + k \in g.ptr .. g.ptr + g.blocks - 1
      BY <1>2, <2>1, <2>2
    <3>2. base_ptr[p] + k \in h.ptr .. h.ptr + h.blocks - 1
      BY <1>2, <1>4
    <3> QED BY <2>4, <3>1, <3>2 DEF CellsOf
  <2>6. g.page = p => idx # i
    <3>1. idx \in idx .. idx + g.blocks - 1 /\ i \in i .. i + h.blocks - 1
      BY <1>2, <2>1
    <3> QED BY <2>5, <3>1
  <2>7. alloc_blocks_len'[g.page][idx] = g.blocks
    BY <1>2, <1>4, <2>1, <2>3, <2>6 DEF TypeOK
  <2>8. \A k \in idx .. idx + g.blocks - 1 : k \in Idx
    <3>1. PageAgrees(is_free[g.page], alloc_blocks_len[g.page])
      BY <2>1 DEF IInv, TablesAgree
    <3>2. idx + g.blocks <= BLOCKS
      BY <2>1, <2>3, <3>1 DEF PageAgrees
    <3> QED BY <2>1, <3>2, Sizes DEF Idx
  <2>9. \A k \in idx .. idx + g.blocks - 1 : ~is_free'[g.page][k]
    BY <1>2, <1>4, <2>1, <2>3, <2>5, <2>8 DEF TypeOK
  <2> QED BY <2>7, <2>9
<1>6. \A g \in held' : HeldAt(g)'
  BY <1>4, <1>5
<1>7. \A f, g \in held' : f # g => CellsOf(f) \cap CellsOf(g) = {}
  BY <1>4 DEF HeldBlocksExclusive
<1> QED BY <1>6, <1>7 DEF HeldBlocksExclusive, HeldAt, CellsOf

(* No call takes a piece from the caller that holds it, unless one freed a *)
(* pointer to no blocks or into a shadowed page.                           *)
THEOREM PiecesCorrect == Spec => OnlyEmptyFreesCorrupt
<1>1. IInv /\ IInv' /\ [Next]_vars =>
        [HeldBlocksExclusive => FreesEmpty \/ FreesShadowed \/ HeldBlocksExclusive']_vars
  <2> SUFFICES ASSUME IInv, IInv', Next, HeldBlocksExclusive, ~FreesEmpty, ~FreesShadowed
               PROVE  HeldBlocksExclusive'
    OBVIOUS
  <2>1. CASE init_alloc
    <3>1. held' = {}
      BY <2>1 DEF init_alloc, IInv, NothingYet
    <3> QED BY <3>1 DEF HeldBlocksExclusive
  <2>2. CASE cleanup
    <3>1. held' = {}
      BY <2>2 DEF cleanup
    <3> QED BY <3>1 DEF HeldBlocksExclusive
  <2>3. ASSUME NEW len \in ReqLens, alloc(len) PROVE HeldBlocksExclusive'
    <3>0. len \in Int
      BY AllocatorAssumption
    <3>1. CASE ret' = NULL /\ UNCHANGED <<pages, tables, base_ptr, held>>
      BY <3>1, HeldUnchanged
    <3>2. ASSUME NEW n \in Int, AllocSteps(n) PROVE HeldBlocksExclusive'
      <4>1. Grown(LookedAt(n))
        BY <3>2 DEF AllocSteps
      <4>2. CASE \E p, i : TakenAt(p, i, n)
        BY <4>1, <4>2, TakingKeepsHeld
      <4>3. CASE UNCHANGED <<tables, held>>
        BY <4>1, <4>3, HeldUnchanged DEF Grown
      <4> QED BY <3>2, <4>2, <4>3 DEF AllocSteps
    <3> QED BY <2>3, <3>0, <3>1, <3>2, AllocCases
  <2>4. ASSUME NEW h \in held, dealloc(h) PROVE HeldBlocksExclusive'
    <3>1. h.blocks \in Int /\ ~(h.blocks <= 0)
      BY <2>4, HeldTypes DEF FreesEmpty
    <3>2. h.blocks > 0 /\ ~Shadowed(h.page)
      BY <2>4, <3>1 DEF FreesShadowed
    <3> QED BY <2>4, <3>2, GivingKeepsHeld
  <2> QED BY <2>1, <2>2, <2>3, <2>4 DEF Next
<1> QED BY <1>1, InitEstablishes, Inductive, PTL DEF Spec, OnlyEmptyFreesCorrupt

-----------------------------------------------------------------------------
(* The tables seen as a heap.  The pages of a new map B of addresses that  *)
(* keeps those there are; base_ptr and base_ptr' are such maps.            *)
Extended(B) ==
  /\ B \in [pages -> Bases \cup {NULL}]
  /\ \A q \in Mapped : B[q] = base_ptr[q]
  /\ \A p, q \in pages : B[p] # NULL /\ B[p] = B[q] => p = q

(* Whether page p has room for n blocks.                                   *)
HasRoom(p, n) == Fitting(p, n) # {}

(* A piece of the heap is a length in the tables of a mapped page.         *)
PieceAt(x, M, base, len) == \E p \in M : \E j \in Idx :
  len[p][j] > 0 /\ x = [start |-> base[p] + j, len |-> len[p][j]]

LEMMA PieceIsLength ==
  ASSUME NEW x
  PROVE  /\ x \in Pieces <=> PieceAt(x, Mapped, base_ptr, alloc_blocks_len)
         /\ x \in Pieces' <=> PieceAt(x, Mapped', base_ptr', alloc_blocks_len')
<1> DEFINE At(p, base, len) == {[start |-> base[p] + i, len |-> len[p][i]] :
                                  i \in {j \in Idx : len[p][j] > 0}}
<1>1. ASSUME NEW M, NEW base, NEW len
      PROVE  x \in UNION {At(p, base, len) : p \in M} <=> PieceAt(x, M, base, len)
  <2>1. x \in UNION {At(p, base, len) : p \in M} <=> \E p \in M : x \in At(p, base, len)
    BY Zenon
  <2>2. ASSUME NEW p \in M
        PROVE  x \in At(p, base, len) <=> \E j \in Idx : len[p][j] > 0 /\
                 x = [start |-> base[p] + j, len |-> len[p][j]]
    OBVIOUS
  <2> QED BY <2>1, <2>2 DEF PieceAt
<1>2. Pieces = UNION {At(p, base_ptr, alloc_blocks_len) : p \in Mapped}
  BY DEF Pieces
<1>3. Pieces' = UNION {At(p, base_ptr', alloc_blocks_len') : p \in Mapped'}
  BY DEF Pieces
<1> HIDE DEF At
<1> QED BY <1>1, <1>2, <1>3

(* A row of blocks is unused when the tables have all of it free. *)
LEMMA UnusedIsFree ==
  ASSUME IInv, NEW B, Extended(B), NEW p \in pages, B[p] # NULL, Elastic \/ p \in Mapped,
         NEW i \in Idx, NEW n \in 1 .. BLOCKS - i
  PROVE  Promise!Unused(B[p] + i, n) <=> \A k \in i .. i + n - 1 : is_free[p][k]
<1> DEFINE b == B[p]
           len(q) == alloc_blocks_len[q]
<1>1. /\ i \in Nat /\ BLOCKS \in Nat /\ Idx \subseteq Nat
      /\ \A k \in i .. i + n - 1 : k \in Idx
  BY Sizes DEF Idx
<1>2. b \in Bases \cup {NULL} /\ b \in Nat
  <2>1. Bases \cup {NULL} \subseteq Nat
    BY BaseTypes DEF NULL
  <2>2. b \in Bases \cup {NULL}
    BY DEF Extended
  <2> QED BY <2>1, <2>2
<1>3. PageAgrees(is_free[p], len(p))
  BY DEF IInv, TablesAgree
<1>4. ASSUME Promise!Unused(b + i, n), NEW k \in i .. i + n - 1, ~is_free[p][k] PROVE FALSE
  <2>1. k \in Idx /\ k \in Int
    BY <1>1
  <2>2. p \in Mapped
    BY <1>4, <2>1 DEF IInv, FreshPages
  <2>3. PICK j \in Idx : Covers(len(p), j, k)
    BY <1>3, <1>4, <2>1 DEF PageAgrees
  <2>4. len(p)[j] \in Int /\ j \in Nat
    BY <1>1, TableTypes DEF IInv
  <2>5. [start |-> base_ptr[p] + j, len |-> len(p)[j]] \in Pieces
    BY <2>2, <2>3, PieceIsLength DEF Covers, PieceAt
  <2>6. Promise!Cells(b + i, n) \cap Promise!Cells(base_ptr[p] + j, len(p)[j]) = {}
    <3> DEFINE x == [start |-> base_ptr[p] + j, len |-> len(p)[j]]
    <3>1. x.start = base_ptr[p] + j /\ x.len = len(p)[j]
      OBVIOUS
    <3> HIDE DEF x
    <3>2. x \in Pieces
      BY <2>5 DEF x
    <3>3. Promise!Cells(b + i, n) \cap Promise!Cells(x.start, x.len) = {}
      BY <1>4, <3>2 DEF Promise!Unused
    <3> QED BY <3>1, <3>3
  <2>7. base_ptr[p] = b
    BY <2>2 DEF Extended
  <2>8. b + k \in Promise!Cells(b + i, n)
    BY <1>1, <1>2, <2>1 DEF Promise!Cells
  <2>9. b + k \in Promise!Cells(b + j, len(p)[j])
    BY <1>2, <2>1, <2>3, <2>4 DEF Promise!Cells, Covers
  <2> QED BY <2>6, <2>7, <2>8, <2>9
<1>5. ASSUME \A k \in i .. i + n - 1 : is_free[p][k], NEW x \in Pieces,
             NEW a \in Promise!Cells(b + i, n), a \in Promise!Cells(x.start, x.len)
      PROVE  FALSE
  <2>1. PICK q \in Mapped, j \in Idx :
          len(q)[j] > 0 /\ x = [start |-> base_ptr[q] + j, len |-> len(q)[j]]
    BY PieceIsLength DEF PieceAt
  <2>2. /\ q \in pages /\ base_ptr[q] \in Bases \cup {NULL} /\ base_ptr[q] = B[q]
        /\ len(q)[j] \in Int /\ j \in Nat
    <3>1. q \in pages
      BY DEF Mapped
    <3> QED BY <1>1, <3>1, TableTypes DEF IInv, TypeOK, Extended
  <2>3. base_ptr[q] \in Nat
    <3>1. Bases \cup {NULL} \subseteq Nat
      BY BaseTypes DEF NULL
    <3> QED BY <2>2, <3>1
  <2> DEFINE c == base_ptr[q]
             k == a - b
             m == a - c
  <2>4. a \in b + i .. b + i + n - 1 /\ a \in c + j .. c + j + len(q)[j] - 1
    BY <1>5, <2>1 DEF Promise!Cells
  <2>5. k \in i .. i + n - 1 /\ a \in Int
    BY <1>1, <1>2, <2>4
  <2>6. m \in j .. j + len(q)[j] - 1
    BY <2>2, <2>3, <2>4
  <2>7. j + len(q)[j] <= BLOCKS /\ PageAgrees(is_free[q], len(q))
    <3>1. PageAgrees(is_free[q], len(q))
      BY <2>2 DEF IInv, TablesAgree
    <3> QED BY <2>1, <3>1 DEF PageAgrees
  <2>8. k \in Idx /\ m \in Idx
    BY <1>1, <2>2, <2>5, <2>6, <2>7 DEF Idx
  <2>9. b + k = c + m
    BY <1>2, <2>3, <2>5
  <2>10. b = c /\ k = m
    <3>1. b \in Bases \cup {NULL} /\ c \in Bases \cup {NULL}
      BY <1>2, <2>2
    <3> HIDE DEF b, c, k, m
    <3> QED BY <2>8, <2>9, <3>1, BlockAddress
  <2>11. p = q
    BY <2>2, <2>10 DEF Extended
  <2>12. is_free[p][k] /\ Covers(len(q), j, k)
    BY <1>5, <2>1, <2>5, <2>6, <2>10 DEF Covers
  <2> QED BY <2>7, <2>8, <2>11, <2>12 DEF PageAgrees
<1>6. (\A k \in i .. i + n - 1 : is_free[p][k]) => Promise!Unused(b + i, n)
  BY <1>5 DEF Promise!Unused
<1> QED BY <1>4, <1>6

(* The heap has room in a page when the search finds a place in it. *)
LEMMA RoomIsFitting ==
  ASSUME IInv, NEW B, Extended(B), NEW n \in Nat \ {0}, NEW P,
         \A b \in P : \E p \in pages : b = B[p] /\ b # NULL /\ (Elastic \/ p \in Mapped)
  PROVE  Promise!Room(P, n) =>
           \E p \in pages : B[p] \in P /\ B[p] # NULL /\ HasRoom(p, n)
<1> SUFFICES ASSUME Promise!Room(P, n)
             PROVE  \E p \in pages : B[p] \in P /\ B[p] # NULL /\ HasRoom(p, n)
  OBVIOUS
<1>1. PICK start : Promise!FitsIn(P, start, n) /\ Promise!Unused(start, n) /\
                   \E c \in P : start \in Promise!Cells(c, BLOCKS)
  BY DEF Promise!Room
<1>2. PICK b \in P : Promise!Cells(start, n) \subseteq Promise!Cells(b, BLOCKS)
  BY <1>1 DEF Promise!FitsIn
<1>3. PICK p \in pages : b = B[p] /\ b # NULL /\ (Elastic \/ p \in Mapped)
  OBVIOUS
<1>4. b \in Nat /\ BLOCKS \in Nat
  <2>1. Bases \cup {NULL} \subseteq Nat
    BY BaseTypes DEF NULL
  <2> QED BY <1>3, <2>1, Sizes DEF Extended
<1>5. start \in Int
  <2>1. PICK c \in P : start \in Promise!Cells(c, BLOCKS)
    BY <1>1
  <2> QED BY <2>1 DEF Promise!Cells
<1> DEFINE i == start - b
<1>6. start \in b .. b + BLOCKS - 1 /\ start + n - 1 \in b .. b + BLOCKS - 1
  <2>1. start \in start .. start + n - 1 /\ start + n - 1 \in start .. start + n - 1
    BY <1>5
  <2> QED BY <1>2, <2>1 DEF Promise!Cells
<1>7. i \in Idx /\ n \in 1 .. BLOCKS - i /\ start = b + i
  BY <1>4, <1>5, <1>6 DEF Idx
<1> HIDE DEF i
<1>8. \A k \in i .. i + n - 1 : is_free[p][k]
  BY <1>1, <1>3, <1>7, UnusedIsFree
<1>9. HasRoom(p, n)
  BY <1>7, <1>8, FreeRowFits DEF HasRoom, IInv
<1> QED BY <1>3, <1>9

(* The heap counts as the tables do. *)
LEMMA SameCardinality ==
  ASSUME NEW S
  PROVE  Promise!Cardinality(S) = Cardinality(S)
BY DEF Promise!Cardinality, Cardinality

(* Pages with addresses of their own have as many addresses. *)
LEMMA AsManyBases ==
  ASSUME NEW B, NEW S, IsFiniteSet(S), \A p, q \in S : B[p] = B[q] => p = q
  PROVE  Cardinality({B[p] : p \in S}) = Cardinality(S)
<1> DEFINE T == {B[p] : p \in S}
           f == [p \in S |-> B[p]]
<1>1. f \in Surjection(S, T) /\ f \in Injection(S, T)
  <2>1. f \in [S -> T] /\ \A p \in S : f[p] = B[p]
    OBVIOUS
  <2>2. \A t \in T : \E p \in S : f[p] = t
    BY <2>1
  <2> HIDE DEF f, T
  <2> QED BY <2>1, <2>2 DEF Surjection, Injection, IsInjective
<1> HIDE DEF f
<1>2. Cardinality(T) = Cardinality(S)
  BY <1>1, FS_Surjection
<1> QED BY <1>2

(* Pages are mapped while those there are have no room for m blocks, and   *)
(* no longer.                                                              *)
LEMMA MappingFetches ==
  ASSUME IInv, NEW n \in Int, NEW m \in Nat \ {0},
         \A q \in pages : Fitting(q, n) = Fitting(q, m),
         Grown(LookedAt(n)), BasesApart', Elastic \/ Mapped # {}
  PROVE  Promise!Fetch(m)
<1> DEFINE old == {base_ptr[p] : p \in Mapped}
           new == {base_ptr'[p] : p \in Mapped'}
<1>1. /\ pages' = pages /\ Mapped' = Mapped \cup LookedAt(n)
      /\ \A q \in Mapped : base_ptr'[q] = base_ptr[q]
      /\ base_ptr' \in [pages -> Bases \cup {NULL}]
  BY DEF Grown
<1>2. /\ Mapped \subseteq pages /\ Mapped' \subseteq pages /\ LookedAt(n) \subseteq pages
      /\ \A q \in pages : q \in Mapped' <=> base_ptr'[q] # NULL
  BY <1>1 DEF Mapped, LookedAt
<1>3. Extended(base_ptr')
  <2>1. \A p, q \in pages : base_ptr'[p] # NULL /\ base_ptr'[p] = base_ptr'[q] => p = q
    BY <1>2 DEF BasesApart
  <2> QED BY <1>1, <2>1 DEF Extended
<1>4. pages \subseteq Nat /\ IsFiniteSet(pages) /\ Cardinality(pages) \in Nat
      /\ (~Elastic => Mapped = pages)
  <2>1. ~Elastic => pages = {0}
    BY Pages DEF IInv
  <2> QED BY <1>2, <2>1, Pages DEF IInv
<1>5. old \subseteq new
  BY <1>1
<1>6. new \subseteq Bases
  BY <1>1, <1>2
<1>7. Cardinality(new) <= Cardinality(pages)
  <2>1. IsFiniteSet(Mapped') /\ Cardinality(Mapped') <= Cardinality(pages)
    BY <1>2, <1>4, FS_Subset
  <2>2. \A p, q \in Mapped' : base_ptr'[p] = base_ptr'[q] => p = q
    BY DEF BasesApart
  <2>3. Cardinality({base_ptr'[p] : p \in Mapped'}) = Cardinality(Mapped')
    BY <2>1, <2>2, AsManyBases
  <2> QED BY <2>1, <2>3
<1>8. ASSUME NEW P \in SUBSET new, old \subseteq P, Promise!Room(P, m)
      PROVE  P = new
  <2>1. \A b \in P : \E p \in pages : b = base_ptr'[p] /\ b # NULL /\ (Elastic \/ p \in Mapped)
    BY <1>2, <1>4
  <2>2. PICK q \in pages : base_ptr'[q] \in P /\ base_ptr'[q] # NULL /\ HasRoom(q, m)
    BY <1>3, <1>8, <2>1, RoomIsFitting
  <2>3. q \in Mapped' /\ Fitting(q, m) # {} /\ Fitting(q, n) # {}
    BY <1>2, <2>2 DEF HasRoom
  <2>4. m \in 1 .. BLOCKS - 0
    <3>1. PICK i \in RunStarts(q) : m <= RunLen(q, i)
      BY <2>3 DEF Fitting
    <3>2. i \in 0 .. BLOCKS - 1 /\ RunLen(q, i) \in 1 .. BLOCKS - i
      BY RunLength DEF IInv, Idx
    <3> QED BY <3>1, <3>2, Sizes
  <2>5. ASSUME NEW p \in pages, p \notin Mapped PROVE Fitting(p, n) # {}
    <3>1. 0 \in Idx /\ \A k \in 0 .. 0 + m - 1 : k \in Idx
      BY <2>4, Sizes DEF Idx
    <3>2. \A k \in 0 .. 0 + m - 1 : is_free[p][k]
      BY <1>4, <2>5, <3>1 DEF IInv, FreshPages
    <3> QED BY <2>4, <2>5, <3>1, <3>2, FreeRowFits DEF IInv
  <2>6. ASSUME NEW p \in Mapped' PROVE base_ptr'[p] \in P
    <3>1. CASE p \in Mapped
      BY <1>1, <1>8, <3>1
    <3>2. CASE p \notin Mapped
      <4>1. p \in LookedAt(n) /\ p \in pages /\ Fitting(p, n) # {}
        BY <1>1, <1>2, <2>5, <3>2
      <4>2. ~(q < p)
        BY <2>3, <4>1 DEF LookedAt
      <4>3. ~(p < q)
        <5>1. p < q => q \notin Mapped
          BY <3>2, <4>1 DEF IInv, MappedFirst
        <5>2. p < q => q \notin LookedAt(n)
          BY <4>1 DEF LookedAt
        <5> QED BY <1>1, <2>3, <5>1, <5>2
      <4>4. p = q
        BY <1>4, <4>1, <4>2, <4>3
      <4> QED BY <2>2, <4>4
    <3> QED BY <3>1, <3>2
  <2> QED BY <2>6
<1>9. \A P \in SUBSET new : old \subseteq P /\ Promise!Room(P, m) => P = new
  BY <1>8
<1>10. Promise!Fetch(m) <=>
        /\ old \subseteq new
        /\ new \subseteq Bases /\ Cardinality(new) <= Cardinality(pages)
        /\ \A P \in SUBSET new : old \subseteq P /\ Promise!Room(P, m) => P = new
  BY SameCardinality DEF Promise!Fetch
<1> HIDE DEF old, new
<1> QED BY <1>5, <1>6, <1>7, <1>9, <1>10

(* A request of no blocks or fewer looks for one block.                    *)
LEMMA NothingFitsAsOne ==
  ASSUME TypeOK, NEW n \in Int, n <= 0, NEW q \in pages
  PROVE  Fitting(q, n) = Fitting(q, 1)
<1>1. ASSUME NEW i \in RunStarts(q) PROVE n <= RunLen(q, i) /\ 1 <= RunLen(q, i)
  <2>1. i \in 0 .. BLOCKS - 1 /\ RunLen(q, i) \in 1 .. BLOCKS - i
    BY RunLength DEF Idx
  <2> QED BY <2>1, Sizes
<1> QED BY <1>1 DEF Fitting

(* What alloc does to the pieces of the heap.                              *)
LEMMA TakingAddsPiece ==
  ASSUME IInv, NEW n \in Int, Grown(LookedAt(n)), NEW p, NEW i, TakenAt(p, i, n),
         Elastic \/ Mapped # {}
  PROVE  Pieces' = IF n > 0 THEN Pieces \cup {[start |-> ret', len |-> n]} ELSE Pieces
<1>1. /\ TypeOK /\ p \in pages /\ i \in Idx /\ p \in Mapped' /\ ret' = base_ptr'[p] + i
      /\ Mapped \subseteq Mapped' /\ Mapped' = Mapped \cup LookedAt(n)
      /\ \A q \in Mapped : q \in pages /\ base_ptr'[q] = base_ptr[q]
      /\ \A q \in Mapped' : q \in pages
  BY DEF IInv, TakenAt, Grown, Mapped, LookedAt
<1>2. alloc_blocks_len' = [alloc_blocks_len EXCEPT ![p] = [alloc_blocks_len[p] EXCEPT ![i] = n]]
  BY DEF TakenAt
<1>3. \A q \in pages : \A j \in Idx :
        alloc_blocks_len'[q][j] = IF q = p /\ j = i THEN n ELSE alloc_blocks_len[q][j]
  BY <1>1, <1>2, TableTypes DEF TypeOK
<1>4. \A q \in Mapped' \ Mapped : \A j \in Idx : ~(alloc_blocks_len[q][j] > 0)
  <2>1. ~Elastic => Mapped = pages
    BY Pages DEF IInv, Mapped
  <2> QED BY <1>1, <2>1 DEF IInv, FreshPages
<1>5. ~(alloc_blocks_len[p][i] > 0)
  <2>1. CASE p \in Mapped
    <3>1. PageAgrees(is_free[p], alloc_blocks_len[p]) /\ is_free[p][i]
      BY <1>1, <2>1 DEF IInv, TablesAgree, TakenAt, RowFree
    <3>2. alloc_blocks_len[p][i] \in Int /\ i \in Int
      BY <1>1, TableTypes, Sizes DEF Idx
    <3>3. alloc_blocks_len[p][i] > 0 => Covers(alloc_blocks_len[p], i, i)
      BY <3>2 DEF Covers
    <3> QED BY <1>1, <3>1, <3>3 DEF PageAgrees
  <2>2. CASE p \notin Mapped
    BY <1>1, <1>4, <2>2
  <2> QED BY <2>1, <2>2
<1>6. ASSUME NEW x
      PROVE  PieceAt(x, Mapped', base_ptr', alloc_blocks_len') <=>
               \/ PieceAt(x, Mapped, base_ptr, alloc_blocks_len)
               \/ n > 0 /\ x = [start |-> ret', len |-> n]
  <2>1. ASSUME PieceAt(x, Mapped', base_ptr', alloc_blocks_len')
        PROVE  \/ PieceAt(x, Mapped, base_ptr, alloc_blocks_len)
               \/ n > 0 /\ x = [start |-> ret', len |-> n]
    <3>1. PICK q \in Mapped', j \in Idx :
            /\ alloc_blocks_len'[q][j] > 0
            /\ x = [start |-> base_ptr'[q] + j, len |-> alloc_blocks_len'[q][j]]
      BY <2>1 DEF PieceAt
    <3>2. CASE q = p /\ j = i
      BY <1>1, <1>3, <3>1, <3>2
    <3>3. CASE ~(q = p /\ j = i)
      <4>1. alloc_blocks_len'[q][j] = alloc_blocks_len[q][j]
        BY <1>1, <1>3, <3>3
      <4>2. q \in Mapped
        BY <1>4, <3>1, <4>1
      <4>3. base_ptr'[q] = base_ptr[q]
        BY <1>1, <4>2
      <4> QED BY <3>1, <4>1, <4>2, <4>3 DEF PieceAt
    <3> QED BY <3>2, <3>3
  <2>2. ASSUME PieceAt(x, Mapped, base_ptr, alloc_blocks_len)
        PROVE  PieceAt(x, Mapped', base_ptr', alloc_blocks_len')
    <3>1. PICK q \in Mapped, j \in Idx :
            /\ alloc_blocks_len[q][j] > 0
            /\ x = [start |-> base_ptr[q] + j, len |-> alloc_blocks_len[q][j]]
      BY <2>2 DEF PieceAt
    <3>2. alloc_blocks_len'[q][j] = alloc_blocks_len[q][j]
      BY <1>1, <1>3, <1>5, <3>1
    <3> QED BY <1>1, <3>1, <3>2 DEF PieceAt
  <2>3. n > 0 /\ x = [start |-> ret', len |-> n] =>
          PieceAt(x, Mapped', base_ptr', alloc_blocks_len')
    BY <1>1, <1>3 DEF PieceAt
  <2> QED BY <2>1, <2>2, <2>3
<1>7. \A x : x \in Pieces' <=> x \in Pieces \/ (n > 0 /\ x = [start |-> ret', len |-> n])
  BY <1>6, PieceIsLength
<1> QED BY <1>7

(* Pages that are mapped only have no pieces. *)
LEMMA MappingAddsNone ==
  ASSUME IInv, NEW n \in Int, Grown(LookedAt(n)), alloc_blocks_len' = alloc_blocks_len,
         Elastic \/ Mapped # {}
  PROVE  Pieces' = Pieces
<1>1. /\ Mapped' = Mapped \cup LookedAt(n)
      /\ \A q \in Mapped : base_ptr'[q] = base_ptr[q]
      /\ \A q \in Mapped' : q \in pages
  BY DEF Grown, Mapped, LookedAt
<1>2. \A q \in Mapped' \ Mapped : \A j \in Idx : ~(alloc_blocks_len[q][j] > 0)
  <2>1. ~Elastic => Mapped = pages
    BY Pages DEF IInv, Mapped
  <2> QED BY <1>1, <2>1 DEF IInv, FreshPages
<1>3. ASSUME NEW x
      PROVE  PieceAt(x, Mapped', base_ptr', alloc_blocks_len') <=>
               PieceAt(x, Mapped, base_ptr, alloc_blocks_len)
  BY <1>1, <1>2 DEF PieceAt
<1>4. \A x : x \in Pieces' <=> x \in Pieces
  BY <1>3, PieceIsLength
<1> QED BY <1>4

(* A request that found a place: the heap hands out what was asked for, or *)
(* points to a block that is not handed out.                               *)
LEMMA TakingRefines ==
  ASSUME IInv, NEW n \in Int, AllocSteps(n), Elastic \/ Mapped # {},
         NEW p, NEW i, TakenAt(p, i, n)
  PROVE  IF n > 0 THEN Promise!Allocate(n) ELSE Promise!AllocateNothing
<1> DEFINE m == IF n > 0 THEN n ELSE 1
<1>1. /\ Grown(LookedAt(n)) /\ BasesApart' /\ pages' = pages
      /\ p \in pages /\ i \in Idx /\ p \in Mapped' /\ ret' = base_ptr'[p] + i
      /\ base_ptr'[p] \in Bases \cup {NULL} /\ base_ptr'[p] # NULL
  BY DEF AllocSteps, Grown, TakenAt, Mapped
<1>2. /\ i \in Nat /\ BLOCKS \in Nat /\ i <= BLOCKS - 1
      /\ is_free[p][i] /\ (n > 0 => i + n <= BLOCKS /\ \A k \in i .. i + n - 1 : is_free[p][k])
  BY <1>1, Sizes DEF TakenAt, RowFree, Idx
<1>3. m \in 1 .. BLOCKS - i /\ m \in Nat \ {0} /\ i + m <= BLOCKS
  BY <1>2
<1>4. \A k \in i .. i + m - 1 : is_free[p][k]
  <2>1. ASSUME n <= 0, NEW k \in i .. i + m - 1 PROVE k = i
    BY <1>2, <2>1
  <2>2. CASE n > 0
    BY <1>2, <2>2
  <2> QED BY <1>2, <2>1, <2>2
<1>5. \A q \in pages : Fitting(q, n) = Fitting(q, m)
  <2>1. CASE n > 0
    BY <2>1
  <2>2. CASE ~(n > 0)
    BY <2>2, NothingFitsAsOne DEF IInv
  <2> QED BY <2>1, <2>2
<1> HIDE DEF m
<1>6. Promise!Fetch(m)
  BY <1>1, <1>3, <1>5, MappingFetches
<1>7. Extended(base_ptr')
  <2>1. \A q, o \in pages : base_ptr'[q] # NULL /\ base_ptr'[q] = base_ptr'[o] => q = o
    BY <1>1 DEF BasesApart, Mapped
  <2> QED BY <1>1, <2>1 DEF Extended, Grown
<1>8. Elastic \/ p \in Mapped
  BY <1>1, Pages DEF IInv, Mapped
<1>9. Promise!Unused(ret', m)
  BY <1>1, <1>3, <1>4, <1>7, <1>8, UnusedIsFree
<1>10. Promise!FitsIn({base_ptr[q] : q \in Mapped}', ret', m)
  <2>1. base_ptr'[p] \in {base_ptr[q] : q \in Mapped}'
    BY <1>1
  <2>2. base_ptr'[p] \in Nat
    <3>1. Bases \cup {NULL} \subseteq Nat
      BY BaseTypes DEF NULL
    <3> QED BY <1>1, <3>1
  <2>3. Promise!Cells(ret', m) \subseteq Promise!Cells(base_ptr'[p], BLOCKS)
    BY <1>1, <1>2, <1>3, <2>2 DEF Promise!Cells
  <2> QED BY <2>1, <2>3 DEF Promise!FitsIn
<1>11. Pieces' = IF n > 0 THEN Pieces \cup {[start |-> ret', len |-> n]} ELSE Pieces
  BY <1>1, TakingAddsPiece
<1>12. CASE n > 0
  <2>1. m = n
    BY <1>12 DEF m
  <2>2. Promise!Allocate(n)
    BY <1>6, <1>9, <1>10, <1>11, <1>12, <2>1 DEF Promise!Allocate
  <2> QED BY <1>12, <2>2
<1>13. CASE ~(n > 0)
  <2>1. m = 1
    BY <1>13 DEF m
  <2>2. Promise!AllocateNothing
    BY <1>6, <1>9, <1>10, <1>11, <1>13, <2>1 DEF Promise!AllocateNothing
  <2> QED BY <1>13, <2>2
<1> QED BY <1>12, <1>13

(* A request that found none: the heap has no room for it. *)
LEMMA RefusingRefines ==
  ASSUME IInv, NEW n \in Int, AllocSteps(n), Elastic \/ Mapped # {},
         \A q \in pages : Fitting(q, n) = {}, ret' = NULL, UNCHANGED <<tables, held>>
  PROVE  IF n > 0 THEN Promise!Refuse(n) ELSE Promise!AllocateNothing
<1> DEFINE m == IF n > 0 THEN n ELSE 1
           new == {base_ptr[q] : q \in Mapped}'
<1>1. /\ Grown(LookedAt(n)) /\ BasesApart' /\ pages' = pages
      /\ alloc_blocks_len' = alloc_blocks_len
  BY DEF AllocSteps, Grown, tables
<1>2. m \in Nat \ {0} /\ \A q \in pages : Fitting(q, n) = Fitting(q, m)
  <2>1. CASE n > 0
    BY <2>1
  <2>2. CASE ~(n > 0)
    BY <2>2, NothingFitsAsOne DEF IInv
  <2> QED BY <2>1, <2>2
<1> HIDE DEF m
<1>3. Promise!Fetch(m)
  BY <1>1, <1>2, MappingFetches
<1>4. Mapped' = pages
  <2>1. LookedAt(n) = pages /\ Mapped \subseteq pages
    BY DEF LookedAt, Mapped
  <2> QED BY <1>1, <2>1 DEF Grown
<1>5. Cardinality(new) = Cardinality(pages)
  <2>1. IsFiniteSet(pages)
    BY Pages DEF IInv
  <2>2. \A p, q \in pages : base_ptr'[p] = base_ptr'[q] => p = q
    BY <1>1, <1>4 DEF BasesApart
  <2>3. Cardinality({base_ptr'[p] : p \in pages}) = Cardinality(pages)
    BY <2>1, <2>2, AsManyBases
  <2>4. new = {base_ptr'[p] : p \in pages}
    BY <1>4
  <2> QED BY <2>3, <2>4
<1>6. Extended(base_ptr')
  <2>1. \A q, o \in pages : base_ptr'[q] # NULL /\ base_ptr'[q] = base_ptr'[o] => q = o
    BY <1>1 DEF BasesApart, Mapped
  <2> QED BY <1>1, <2>1 DEF Extended, Grown
<1>7. ~Promise!Room(new, m)
  <2>1. \A b \in new : \E p \in pages : b = base_ptr'[p] /\ b # NULL /\ (Elastic \/ p \in Mapped)
    <3>1. ~Elastic => Mapped = pages
      BY Pages DEF IInv, Mapped
    <3>2. \A p \in pages : base_ptr'[p] # NULL
      BY <1>1, <1>4 DEF Mapped
    <3> QED BY <1>4, <3>1, <3>2
  <2>2. \A p \in pages : ~HasRoom(p, m)
    BY <1>2 DEF HasRoom
  <2> HIDE DEF new
  <2> QED BY <1>2, <1>6, <2>1, <2>2, RoomIsFitting
<1>8. Pieces' = Pieces
  BY <1>1, MappingAddsNone
<1>9. Promise!Refuse(m)
  BY <1>3, <1>5, <1>7, <1>8, SameCardinality DEF Promise!Refuse
<1>10. CASE n > 0
  BY <1>9, <1>10 DEF m
<1>11. CASE ~(n > 0)
  <2>1. Promise!AllocateNothing
    BY <1>9, <1>11 DEF m, Promise!AllocateNothing
  <2> QED BY <1>11, <2>1
<1> QED BY <1>10, <1>11

(* A length of whole blocks is positive when its number of blocks is. *)
LEMMA WholeBlocks ==
  ASSUME NEW len \in Int, len % MINALLOC = 0
  PROVE  len > 0 <=> len \div MINALLOC > 0
<1> DEFINE n == len \div MINALLOC
<1>1. MINALLOC \in Nat \ {0} /\ n \in Int
  BY Sizes
<1>2. len = MINALLOC * n + (len % MINALLOC)
  BY Sizes
<1> HIDE DEF n
<1>3. len = MINALLOC * n /\ MINALLOC * n \in Int
  BY <1>1, <1>2
<1>4. CASE n > 0
  <2>1. MINALLOC * n >= MINALLOC * 0 + MINALLOC
    BY <1>1, <1>4, NextMultiple
  <2> QED BY <1>1, <1>3, <1>4, <2>1 DEF n
<1>5. CASE n <= 0
  <2>1. MINALLOC * (-n) \in Nat /\ MINALLOC * (-n) = -(MINALLOC * n)
    BY <1>1, <1>5
  <2> QED BY <1>1, <1>3, <1>5, <2>1 DEF n
<1> QED BY <1>1, <1>4, <1>5

(* What alloc does is what the heap does with the length asked for. *)
LEMMA AllocRefines ==
  ASSUME IInv, NEW len \in ReqLens, alloc(len)
  PROVE  Promise!Next
<1> DEFINE n == len \div MINALLOC
<1>0. len \in Int
  BY AllocatorAssumption
<1>1. /\ Elastic \/ Mapped # {}
      /\ call' = [op |-> "alloc", arg |-> len]
      /\ Cardinality(pages') = Cardinality(pages)
  BY DEF alloc, Called
<1>2. n \in Int
  BY <1>0, AllocCases
<1>3. CASE len % MINALLOC # 0 /\ ret' = NULL /\ UNCHANGED <<pages, tables, base_ptr, held>>
  <2>1. /\ len % MINALLOC # 0 /\ pages' = pages /\ ret' = NULL /\ base_ptr' = base_ptr
        /\ alloc_blocks_len' = alloc_blocks_len
    BY <1>3 DEF tables
  <2>2. Mapped' = Mapped
    BY <2>1 DEF Mapped
  <2>3. Pieces' = Pieces
    BY <2>1, <2>2 DEF Pieces
  <2>4. Promise!RefuseLength
    BY <2>1, <2>2, <2>3 DEF Promise!RefuseLength
  <2>5. Promise!Request(len)
    BY <2>1, <2>4 DEF Promise!Request
  <2> QED BY <1>1, <2>5 DEF Promise!Next
<1>4. CASE len % MINALLOC = 0 /\ AllocSteps(n)
  <2>1. len > 0 <=> n > 0
    BY <1>0, <1>4, WholeBlocks
  <2> HIDE DEF n
  <2>2. \/ n > 0 /\ (Promise!Allocate(n) \/ Promise!Refuse(n))
        \/ ~(n > 0) /\ Promise!AllocateNothing
    BY <1>1, <1>2, <1>4, TakingRefines, RefusingRefines DEF AllocSteps
  <2>3. ~(n > 0) => len <= 0
    BY <1>0, <2>1
  <2> USE DEF n
  <2>4. Promise!Request(len)
    BY <1>4, <2>1, <2>2, <2>3 DEF Promise!Request
  <2> QED BY <1>1, <2>4 DEF Promise!Next
<1> QED BY <1>0, <1>3, <1>4, AllocCases

LEMMA GivingRefines ==
  ASSUME IInv, NEW h \in held, dealloc(h), ~Shadowed(h.page)
  PROVE  Promise!Next
<1> DEFINE p == h.page
           i == h.ptr - base_ptr[h.page]
<1>1. GivenBack(h, p, i) /\ h.ptr = base_ptr[p] + i
  <2>1. GivenBack(h, p, i)
    BY DeallocGivesBack DEF GivenBack, Leads
  <2> QED BY <2>1, HeldTypes
<1> HIDE DEF p, i
<1>2. /\ TypeOK /\ pages' = pages /\ base_ptr' = base_ptr /\ ret' = NULL
      /\ call'.op = "dealloc" /\ call'.arg = h.ptr
      /\ p \in Mapped /\ p \in pages /\ i \in Idx /\ h.ptr = base_ptr[p] + i
      /\ alloc_blocks_len' = [alloc_blocks_len EXCEPT ![p] = [alloc_blocks_len[p] EXCEPT ![i] = 0]]
  BY <1>1 DEF GivenBack, Leads, Called, IInv
<1>3. Mapped' = Mapped /\ \A q \in Mapped : q \in pages
  BY <1>2 DEF Mapped
<1>4. \A q \in pages : \A j \in Idx :
        alloc_blocks_len'[q][j] = IF q = p /\ j = i THEN 0 ELSE alloc_blocks_len[q][j]
  BY <1>2, TableTypes DEF TypeOK
<1>5. ASSUME NEW q \in Mapped, NEW j \in Idx
      PROVE  base_ptr[q] + j = h.ptr <=> q = p /\ j = i
  <2> SUFFICES ASSUME base_ptr[q] + j = base_ptr[p] + i PROVE q = p /\ j = i
    BY <1>2
  <2>1. base_ptr[q] \in Bases \cup {NULL} /\ base_ptr[p] \in Bases \cup {NULL}
    BY <1>2, <1>3 DEF TypeOK
  <2>2. base_ptr[q] = base_ptr[p] /\ j = i
    BY <1>2, <2>1, BlockAddress
  <2> QED BY <1>2, <2>2 DEF IInv, BasesApart
<1>6. ASSUME NEW x
      PROVE  PieceAt(x, Mapped', base_ptr', alloc_blocks_len') <=>
               PieceAt(x, Mapped, base_ptr, alloc_blocks_len) /\ x.start # h.ptr
  <2>1. ASSUME PieceAt(x, Mapped', base_ptr', alloc_blocks_len')
        PROVE  PieceAt(x, Mapped, base_ptr, alloc_blocks_len) /\ x.start # h.ptr
    <3>1. PICK q \in Mapped, j \in Idx :
            /\ alloc_blocks_len'[q][j] > 0
            /\ x = [start |-> base_ptr[q] + j, len |-> alloc_blocks_len'[q][j]]
      BY <1>2, <1>3, <2>1 DEF PieceAt
    <3>2. ~(q = p /\ j = i) /\ alloc_blocks_len'[q][j] = alloc_blocks_len[q][j]
      BY <1>3, <1>4, <3>1
    <3>3. x.start = base_ptr[q] + j
      BY <3>1
    <3> QED BY <1>5, <3>1, <3>2, <3>3 DEF PieceAt
  <2>2. ASSUME PieceAt(x, Mapped, base_ptr, alloc_blocks_len), x.start # h.ptr
        PROVE  PieceAt(x, Mapped', base_ptr', alloc_blocks_len')
    <3>1. PICK q \in Mapped, j \in Idx :
            /\ alloc_blocks_len[q][j] > 0
            /\ x = [start |-> base_ptr[q] + j, len |-> alloc_blocks_len[q][j]]
      BY <2>2 DEF PieceAt
    <3>2. ~(q = p /\ j = i)
      <4>1. x.start = base_ptr[q] + j
        BY <3>1
      <4> QED BY <1>5, <2>2, <4>1
    <3>3. alloc_blocks_len'[q][j] = alloc_blocks_len[q][j]
      BY <1>3, <1>4, <3>2
    <3> QED BY <1>2, <1>3, <3>1, <3>3 DEF PieceAt
  <2> QED BY <2>1, <2>2
<1>7. Pieces' = {x \in Pieces : x.start # h.ptr}
  <2>1. \A x : x \in Pieces' <=> x \in Pieces /\ x.start # h.ptr
    BY <1>6, PieceIsLength
  <2> QED BY <2>1
<1>8. {base_ptr[q] : q \in Mapped}' = {base_ptr[q] : q \in Mapped}
  BY <1>2, <1>3
<1>9. Promise!Release(call'.arg)
  BY <1>2, <1>7, <1>8 DEF Promise!Release
<1>10. Cardinality(pages') = Cardinality(pages) /\ call'.op = "dealloc"
  BY <1>2
<1> QED BY <1>9, <1>10 DEF Promise!Next

LEMMA InitRefines == Init => Promise!Init
<1> SUFFICES ASSUME Init PROVE Promise!Init
  OBVIOUS
<1>1. IInv /\ base_ptr = [p \in pages |-> NULL] /\ ret = NULL /\ call.op = "reset"
  BY InitEstablishes DEF Init, Called
<1>2. Mapped = {}
  BY <1>1 DEF Mapped
<1>3. \A x : x \notin Pieces
  BY <1>2, PieceIsLength DEF PieceAt
<1>4. Cardinality(pages) \in Nat
  BY <1>1, Pages DEF IInv
<1> QED BY <1>1, <1>2, <1>3, <1>4 DEF Promise!Init

LEMMA StepRefines == IInv /\ [Next]_vars => [FreesShadowed \/ Promise!Next]_Promise!vars
<1> SUFFICES ASSUME IInv, [Next]_vars
             PROVE  FreesShadowed \/ Promise!Next \/ UNCHANGED Promise!vars
  OBVIOUS
<1>1. CASE init_alloc \/ cleanup
  <2>1. pages' = pages /\ ret' = NULL /\ call'.op = "reset"
    BY <1>1 DEF init_alloc, cleanup, Called
  <2>2. {base_ptr[q] : q \in Mapped}' \in SUBSET Bases
    <3>1. \A q \in Mapped' : base_ptr'[q] \in Bases
      BY <1>1, <2>1 DEF init_alloc, cleanup, MapPages, Mapped
    <3> QED BY <3>1
  <2>3. Pieces' = {}
    <3>1. CASE init_alloc
      <4>1. alloc_blocks_len' = NoLengths /\ \A q \in Mapped' : q \in pages
        BY <2>1, <3>1 DEF init_alloc, Mapped
      <4>2. \A x : ~PieceAt(x, Mapped', base_ptr', alloc_blocks_len')
        BY <4>1 DEF PieceAt, NoLengths
      <4> QED BY <4>2, PieceIsLength
    <3>2. CASE cleanup
      <4>1. Mapped' = {}
        BY <2>1, <3>2 DEF cleanup, Mapped
      <4>2. \A x : ~PieceAt(x, Mapped', base_ptr', alloc_blocks_len')
        BY <4>1 DEF PieceAt
      <4> QED BY <4>2, PieceIsLength
    <3> QED BY <1>1, <3>1, <3>2
  <2>4. Promise!Reset
    BY <2>1, <2>2, <2>3 DEF Promise!Reset
  <2> QED BY <2>1, <2>4 DEF Promise!Next
<1>2. ASSUME NEW len \in ReqLens, alloc(len) PROVE Promise!Next
  BY <1>2, AllocRefines
<1>3. ASSUME NEW h \in held, dealloc(h) PROVE FreesShadowed \/ Promise!Next
  BY <1>3, GivingRefines DEF FreesShadowed
<1>4. CASE UNCHANGED vars
  <2>1. /\ pages' = pages /\ ret' = ret /\ call' = call /\ base_ptr' = base_ptr
        /\ alloc_blocks_len' = alloc_blocks_len
    BY <1>4 DEF vars, tables
  <2>2. Mapped' = Mapped
    BY <2>1 DEF Mapped
  <2>3. Pieces' = Pieces
    BY <2>1, <2>2 DEF Pieces
  <2> QED BY <2>1, <2>2, <2>3 DEF Promise!vars
<1> QED BY <1>1, <1>2, <1>3, <1>4 DEF Next

(* The tables implement the heap of alloc.h and ealloc.h: each piece is    *)
(* made of blocks nobody else has and is given back by its own pointer, a  *)
(* page is fetched only when what is free has no room for the blocks asked *)
(* for, and a whole number of blocks is refused only then.  Only a free    *)
(* into a shadowed page escapes it.                                        *)
THEOREM Refinement == Spec => ImplementsHeap
<1>1. IInv /\ [Next]_vars => [FreesShadowed \/ Promise!Next]_Promise!vars
  BY StepRefines
<1> QED BY <1>1, InitRefines, InitEstablishes, Inductive, PTL DEF Spec, ImplementsHeap
=============================================================================
