--------------------------- MODULE SimpleFSProofs ---------------------------
(***************************************************************************)
(* Proofs about SimpleFS, for any sizes of the disk, its blocks and its    *)
(* files, any number of open files and any data.  The inductive invariant  *)
(* adds to BlocksExclusive what a running write knows of the file it       *)
(* extends: the copy of the inode in memory is the one on disk with more   *)
(* blocks, and holds in them the data copied so far.                       *)
(***************************************************************************)
EXTENDS SimpleFS, FiniteSetTheorems, SequenceTheorems, WellFoundedInduction, TLAPS

-----------------------------------------------------------------------------
(* The inductive invariant.  Positions in a file are written as the start  *)
(* of a block plus a cell, to keep division out of it.                     *)
Start(k) == k * BLOCKSIZE

(* A file has the blocks its size needs and is not too large. *)
Sized(node) ==
  /\ node.file_size <= MaxBytes
  /\ \A k \in FileBlocks : node.direct_blocks[k] # -1 <=> Start(k) < node.file_size

(* Every byte of the file was written. *)
Written(node) ==
  \A k \in FileBlocks, c \in Cells :
    Start(k) + c < node.file_size => block[node.direct_blocks[k]][c] \in Bytes

DiskInv == \A i \in Inodes : Sized(inode[i]) /\ Written(inode[i])

(* The inode that a running write will replace. *)
Target == inode[InodeOf(write.handle)]

(* A write goes through an open handle, fits as far as the offset tells,   *)
(* has the blocks of the file on disk and more of them, and has stored     *)
(* the data that it counts as copied.                                      *)
HandleOpen ==
  /\ write.handle \in OpenHandles
  /\ write.data \in WriteData
  /\ CanWrite(write.handle, write.data)

CopyAhead ==
  /\ write.node.name = Target.name
  /\ write.node.file_size = Target.file_size + write.copied
  /\ write.copied <= Len(write.data)
  /\ \A k \in FileBlocks : Target.direct_blocks[k] # -1 =>
       write.node.direct_blocks[k] = Target.direct_blocks[k]

DataStored ==
  \A k \in FileBlocks, c \in Cells :
    Start(k) + c \in Target.file_size .. write.node.file_size - 1 =>
      block[write.node.direct_blocks[k]][c] =
        write.data[Start(k) + c - Target.file_size + 1]

WriteInv ==
  program = "writing" => HandleOpen /\ CopyAhead /\ Sized(write.node) /\ DataStored

IInv == TypeOK /\ DiskInv /\ WriteInv /\ BlocksExclusive /\ AppendsFit

-----------------------------------------------------------------------------
(* A nonempty set of numbers has a least one, and FirstOf is it.           *)
LEMMA FirstIsLeast ==
  ASSUME NEW n \in Nat, NEW S \in SUBSET (0 .. n - 1), S # {}
  PROVE  FirstOf(S) \in S /\ \A y \in S : FirstOf(S) <= y
<1> DEFINE R == StrictSubsetOrdering(0 .. n - 1)
           F == FiniteSubsetsOf(0 .. n - 1)
           T == {0 .. x : x \in S}
<1>1. IsWellFoundedOn(R, F)
  BY FS_StrictSubsetOrderingWellFounded
<1>2. T \subseteq F
  BY FS_Interval, FS_FiniteSubsetsOfFinite
<1>3. T # {}
  OBVIOUS
<1>4. PICK U \in T : \A V \in T : ~ (<<V, U>> \in R)
  <2> HIDE DEF T, R, F
  <2> QED BY <1>1, <1>2, <1>3, WFMin, Zenon
<1>5. PICK m \in S : U = 0 .. m
  BY <1>4
<1>6. ASSUME NEW y \in S, y < m PROVE FALSE
  <2>1. /\ 0 .. y \in SUBSET (0 .. n - 1) /\ 0 .. m \in SUBSET (0 .. n - 1)
        /\ 0 .. y \subseteq 0 .. m /\ m \in 0 .. m /\ m \notin 0 .. y
    BY <1>6
  <2>2. <<0 .. y, 0 .. m>> \in R
    BY <2>1, Zenon DEF StrictSubsetOrdering
  <2>3. 0 .. y \in T
    OBVIOUS
  <2> QED BY <1>4, <1>5, <2>2, <2>3, Zenon
<1>7. \A y \in S : m <= y
  BY <1>6
<1> QED BY <1>7 DEF FirstOf

(* The sizes alone, for steps of arithmetic. *)
LEMMA Sizes ==
  /\ BLOCKSIZE \in Nat \ {0} /\ NUM_DATA_BLOCKS \in Nat \ {0}
  /\ NUM_INODES \in Nat \ {0} /\ MAX_FILE_SIZE \in Nat \ {0}
  /\ MAX_OPEN_FILES \in Nat \ {0}
BY FSAssumption

(* Division with rest. *)
LEMMA Division ==
  ASSUME NEW m \in Nat \ {0}, NEW n \in Int
  PROVE  /\ n \div m \in Int
         /\ n % m \in 0 .. m - 1
         /\ n = (n \div m) * m + (n % m)
BY SMTT(30)

(* Where the blocks of a file start. *)
LEMMA Starts ==
  /\ MaxBytes = Start(MAX_FILE_SIZE) /\ MaxBytes \in Nat
  /\ \A k \in Int : Start(k) \in Int /\ Start(k + 1) = Start(k) + BLOCKSIZE
  /\ \A k \in Nat : Start(k) \in Nat
  /\ \A k, l \in Int : k < l => Start(k) + BLOCKSIZE <= Start(l)
<1> USE Sizes
<1>1. /\ MaxBytes = Start(MAX_FILE_SIZE) /\ MaxBytes \in Nat
      /\ \A k \in Int : Start(k) \in Int /\ Start(k + 1) = Start(k) + BLOCKSIZE
  BY DEF Start, MaxBytes
<1>2. ASSUME NEW k \in Nat PROVE Start(k) \in Nat
  BY DEF Start
<1>3. ASSUME NEW k \in Int, NEW l \in Int, k < l
      PROVE  Start(k) + BLOCKSIZE <= Start(l)
  <2> DEFINE d == l - k - 1
  <2>1. d \in Nat /\ l = k + 1 + d
    BY <1>3
  <2> HIDE DEF d
  <2>2. d * BLOCKSIZE \in Nat
    BY <2>1
  <2>3. Start(l) = Start(k) + BLOCKSIZE + d * BLOCKSIZE
    BY <1>3, <2>1 DEF Start
  <2> QED BY <1>1, <2>2, <2>3
<1> QED BY <1>1, <1>2, <1>3

(* A position lies in one block and one cell of it. *)
LEMMA Positions ==
  ASSUME NEW p \in Nat
  PROVE  /\ p \div BLOCKSIZE \in Nat /\ p % BLOCKSIZE \in Cells
         /\ p = Start(p \div BLOCKSIZE) + (p % BLOCKSIZE)
<1> DEFINE q == p \div BLOCKSIZE
           r == p % BLOCKSIZE
<1>1. q \in Int /\ r \in 0 .. BLOCKSIZE - 1 /\ p = q * BLOCKSIZE + r
  BY Division, Sizes
<1> HIDE DEF q, r
<1>2. p = Start(q) + r
  BY <1>1 DEF Start
<1>3. q >= 0
  <2>1. CASE q < 0
    <3>1. Start(q) + BLOCKSIZE <= Start(0) /\ Start(0) = 0 /\ Start(q) \in Int
      BY <1>1, <2>1, Starts, Sizes DEF Start
    <3> QED BY <1>1, <1>2, <3>1, Sizes
  <2> QED BY <1>1, <2>1
<1>4. q \in Nat /\ r \in Cells /\ p = Start(q) + r
  BY <1>1, <1>2, <1>3 DEF Cells
<1> QED BY <1>4, Zenon DEF q, r

(* No other block and cell have that position. *)
LEMMA UniqueCell ==
  ASSUME NEW k \in Nat, NEW l \in Nat, NEW c \in Cells, NEW d \in Cells,
         Start(k) + c = Start(l) + d
  PROVE  k = l /\ c = d
<1>1. /\ Start(k) \in Int /\ Start(l) \in Int /\ c \in Int /\ d \in Int
      /\ 0 <= c /\ 0 <= d /\ c < BLOCKSIZE /\ d < BLOCKSIZE
  BY Starts, Sizes DEF Cells
<1>2. ASSUME k < l PROVE FALSE
  <2>1. Start(k) + BLOCKSIZE <= Start(l)
    BY <1>2, Starts
  <2> QED BY <1>1, <2>1, Sizes
<1>3. ASSUME l < k PROVE FALSE
  <2>1. Start(l) + BLOCKSIZE <= Start(k)
    BY <1>3, Starts
  <2> QED BY <1>1, <2>1, Sizes
<1>4. k = l
  BY <1>2, <1>3
<1> QED BY <1>1, <1>4

-----------------------------------------------------------------------------
(* Facts about one state. *)
LEMMA Typing ==
  ASSUME TypeOK
  PROVE  /\ \A i \in Inodes :
              /\ inode[i].file_size \in Nat
              /\ \A k \in FileBlocks : inode[i].direct_blocks[k] \in Blocks \cup {-1}
         /\ \A k \in FileBlocks : write.node.direct_blocks[k] \in Blocks \cup {-1}
         /\ write.node \in InodeType /\ write.node.file_size \in Nat
         /\ write.copied \in Nat /\ Len(write.data) \in Nat
         /\ \A n \in 1 .. Len(write.data) : write.data[n] \in Bytes
         /\ \A h \in OpenHandles : h \in Handles /\ InodeOf(h) \in Inodes /\ OffsetOf(h) \in Nat
         /\ -1 \notin Blocks
<1>1. \A i \in Inodes : inode[i] \in InodeType
  BY DEF TypeOK
<1>2. /\ write.node \in InodeType /\ write.data \in Seq(Bytes) /\ write.copied \in Nat
  BY DEF TypeOK
<1>3. \A node \in InodeType :
        /\ node.file_size \in Nat
        /\ \A k \in FileBlocks : node.direct_blocks[k] \in Blocks \cup {-1}
  BY DEF InodeType
<1>4. Len(write.data) \in Nat /\ \A n \in 1 .. Len(write.data) : write.data[n] \in Bytes
  BY <1>2
<1>5. \A h \in OpenHandles : h \in Handles /\ InodeOf(h) \in Inodes /\ OffsetOf(h) \in Nat
  BY DEF TypeOK, OpenHandles, InodeOf, OffsetOf
<1>6. -1 \notin Blocks
  BY Sizes DEF Blocks
<1> QED BY <1>1, <1>2, <1>3, <1>4, <1>5, <1>6

LEMMA NamedInode ==
  ASSUME NEW f, InodesNamed(f) # {}
  PROVE  /\ get_inode_num(f) \in Inodes /\ inode[get_inode_num(f)].name = f
         /\ \A i \in InodesNamed(f) : get_inode_num(f) <= i
<1>1. InodesNamed(f) \in SUBSET (0 .. NUM_INODES - 1)
  BY DEF InodesNamed, Inodes
<1>2. FirstOf(InodesNamed(f)) \in InodesNamed(f)
  BY <1>1, FirstIsLeast, Sizes
<1>3. \A i \in InodesNamed(f) : FirstOf(InodesNamed(f)) <= i
  BY <1>1, FirstIsLeast, Sizes
<1> QED BY <1>2, <1>3 DEF get_inode_num, InodesNamed

LEMMA FirstFree ==
  ASSUME TypeOK
  PROVE  /\ inode_freelist # {} => /\ FreeInode \in inode_freelist
                                  /\ \A i \in inode_freelist : FreeInode <= i
         /\ datablock_freelist # {} => FirstOf(datablock_freelist) \in datablock_freelist
BY FirstIsLeast, Sizes DEF TypeOK, FreeInode, Inodes, Blocks

LEMMA FirstHandle ==
  ASSUME Handles \ OpenHandles # {}
  PROVE  FirstOf(Handles \ OpenHandles) \in Handles \ OpenHandles
BY FirstIsLeast, Sizes DEF Handles

(* Where the next iteration of simplefs_write stores, and how much. *)
LEMMA WritePosition ==
  ASSUME TypeOK, BytesLeft > 0
  PROVE  /\ wblock_idx \in Nat /\ woffset \in Cells /\ woffset \in Nat
         /\ write.node.file_size = Start(wblock_idx) + woffset
         /\ BufSize \in Nat /\ 0 < BufSize /\ woffset + BufSize <= BLOCKSIZE
         /\ write.copied + BufSize <= Len(write.data)
<1>0. write.node.file_size \in Nat
  BY Typing
<1>1. /\ wblock_idx \in Nat /\ woffset \in Cells
      /\ write.node.file_size = Start(wblock_idx) + woffset
  BY <1>0, Positions DEF wblock_idx, woffset
<1>2. woffset \in Nat /\ woffset < BLOCKSIZE
  BY <1>1, Sizes DEF Cells
<1>3. /\ BytesLeft \in Nat /\ write.copied + BytesLeft = Len(write.data)
  BY Typing DEF BytesLeft
<1>4. BufSize = (IF BLOCKSIZE - woffset < BytesLeft THEN BLOCKSIZE - woffset ELSE BytesLeft)
  BY DEF BufSize
<1>5. /\ BufSize \in Nat /\ 0 < BufSize /\ woffset + BufSize <= BLOCKSIZE
      /\ BufSize <= BytesLeft
  BY <1>2, <1>3, <1>4, Sizes
<1> QED BY <1>1, <1>2, <1>3, <1>5, Typing

(* The inode in memory gets its new block and keeps its type. *)
LEMMA NodeWithBlockType ==
  ASSUME TypeOK, wblock_idx \in FileBlocks, woffset = 0 => datablock_freelist # {}
  PROVE  /\ NodeWithBlock \in InodeType
         /\ NodeWithBlock.file_size = write.node.file_size
         /\ NodeWithBlock.name = write.node.name
         /\ \A k \in FileBlocks \ {wblock_idx} :
              NodeWithBlock.direct_blocks[k] = write.node.direct_blocks[k]
         /\ woffset = 0 => NodeWithBlock.direct_blocks[wblock_idx] = FirstOf(datablock_freelist)
         /\ woffset # 0 => NodeWithBlock = write.node
<1>1. woffset = 0 => FirstOf(datablock_freelist) \in Blocks
  BY FirstFree DEF TypeOK
<1> HIDE DEF woffset, wblock_idx
<1> QED BY <1>1, Typing DEF NodeWithBlock, InodeType

(* A block keeps its type, whatever the iteration writes to it. *)
LEMMA NewBlockType ==
  ASSUME TypeOK, BytesLeft > 0, NEW b \in Blocks
  PROVE  NewBlock(block[b]) \in [Cells -> Bytes \cup {Junk}]
<1>1. \A c \in Cells : KeptByte(block[b], c) \in Bytes \cup {Junk}
  <2>1. block[b] \in [Cells -> Bytes \cup {Junk}]
    BY DEF TypeOK
  <2> QED BY <2>1 DEF KeptByte
<1>2. ASSUME NEW c \in woffset .. woffset + BufSize - 1 PROVE NewByte(c) \in Bytes
  <2>1. write.copied + c - woffset + 1 \in 1 .. Len(write.data)
    <3>1. write.copied \in Nat /\ Len(write.data) \in Nat
      BY Typing
    <3>2. /\ woffset \in Nat /\ BufSize \in Nat
          /\ write.copied + BufSize <= Len(write.data)
      BY WritePosition
    <3> HIDE DEF woffset
    <3> QED BY <1>2, <3>1, <3>2
  <2> QED BY <2>1, Typing DEF NewByte
<1> HIDE DEF woffset
<1> QED BY <1>1, <1>2 DEF NewBlock

-----------------------------------------------------------------------------
(* Every step keeps the types. *)
LEMMA InitType == Init => TypeOK
<1> SUFFICES ASSUME Init PROVE TypeOK
  OBVIOUS
<1> USE Sizes DEF Init, simplefs_formatDisk
<1>1. FormattedInode \in InodeType
  BY DEF FormattedInode, InodeType
<1>2. NoWrite \in [handle : Handles \cup {-1}, node : InodeType,
                   data : Seq(Bytes), copied : Nat]
  BY <1>1 DEF NoWrite
<1> QED BY <1>1, <1>2 DEF TypeOK

LEMMA TypeStep == TypeOK /\ [Next]_vars => TypeOK'
<1> SUFFICES ASSUME TypeOK, [Next]_vars PROVE TypeOK'
  OBVIOUS
<1> DEFINE WriteType == [handle : Handles \cup {-1}, node : InodeType,
                         data : Seq(Bytes), copied : Nat]
<1>0. NoWrite \in WriteType
  <2>1. FormattedInode \in InodeType
    BY DEF FormattedInode, InodeType
  <2> QED BY <2>1 DEF NoWrite
<1>1. CASE UNCHANGED vars
  BY <1>1 DEF TypeOK, vars, disk
<1>2. ASSUME NEW f \in Names, simplefs_create(f) PROVE TypeOK'
  <2>1. FreeInode \in Inodes
    BY <1>2, FirstFree DEF simplefs_create, TypeOK
  <2>2. inode' \in [Inodes -> InodeType]
    BY <1>2, <2>1 DEF simplefs_create, TypeOK, InodeType
  <2> QED BY <1>2, <2>2 DEF simplefs_create, TypeOK
<1>3. ASSUME NEW f \in Names, simplefs_delete(f) PROVE TypeOK'
  <2>1. get_inode_num(f) \in Inodes
    BY <1>3, NamedInode DEF simplefs_delete
  <2>2. BlocksOf(inode[get_inode_num(f)]) \subseteq Blocks
    BY <2>1, Typing DEF BlocksOf
  <2>3. datablock_freelist' \in SUBSET Blocks
    BY <1>3, <2>2 DEF simplefs_delete, FreedBlocks, TypeOK
  <2>4. inode' \in [Inodes -> InodeType] /\ inode_freelist' \in SUBSET Inodes
    <3>1. Freed(inode[get_inode_num(f)]) \in InodeType
      BY <2>1 DEF Freed, TypeOK, InodeType
    <3> QED BY <1>3, <2>1, <3>1 DEF simplefs_delete, DeleteInode, TypeOK
  <2> QED BY <1>3, <2>3, <2>4 DEF simplefs_delete, AfterDelete, TypeOK
<1>4. ASSUME NEW f \in Names, simplefs_open(f) PROVE TypeOK'
  <2>1. get_inode_num(f) \in Inodes
    BY <1>4, NamedInode DEF simplefs_open
  <2> QED BY <1>4, <2>1 DEF simplefs_open, TypeOK, disk
<1>5. ASSUME NEW h \in Handles, simplefs_close(h) PROVE TypeOK'
  BY <1>5 DEF simplefs_close, TypeOK, disk
<1>6. ASSUME NEW h \in Handles, NEW nseek \in -MaxBytes .. MaxBytes, simplefs_seek(h, nseek)
      PROVE  TypeOK'
  <2>1. OffsetOf(h) + nseek \in Nat
    BY <1>6, Typing DEF simplefs_seek, Offsets
  <2>2. file_handle_array' \in [Handles -> [offset : Nat, inode_number : Inodes \cup {-1}]]
    BY <1>6, <2>1 DEF simplefs_seek, TypeOK, OffsetOf
  <2> QED BY <1>6, <2>2 DEF simplefs_seek, TypeOK, disk
<1>7. ASSUME NEW h \in Handles, NEW data \in WriteData, WriteBegin(h, data) PROVE TypeOK'
  <2>1. inode[InodeOf(h)] \in InodeType
    BY <1>7, Typing DEF WriteBegin, TypeOK
  <2>2. data \in Seq(Bytes)
    BY FSAssumption
  <2> QED BY <1>7, <2>1, <2>2 DEF WriteBegin, TypeOK, disk
<1>8. CASE WriteFails
  BY <1>0, <1>8 DEF WriteFails, TypeOK, disk
<1>9. CASE WriteOverruns
  BY <1>9 DEF WriteOverruns, TypeOK
<1>10. CASE WriteBlock
  <2>1. NodeWithBlock \in InodeType /\ NodeWithBlock.direct_blocks[wblock_idx] \in Blocks \cup {-1}
    BY <1>10, NodeWithBlockType DEF WriteBlock, InodeType
  <2>2. BufSize \in Nat
    BY <1>10, WritePosition DEF WriteBlock
  <2>3. write' \in WriteType
    <3> DEFINE node == [NodeWithBlock EXCEPT !.file_size = @ + BufSize]
    <3>1. node \in InodeType
      BY <2>1, <2>2 DEF InodeType
    <3>2. write' = [write EXCEPT !.copied = @ + BufSize, !.node = node]
      BY <1>10 DEF WriteBlock
    <3> HIDE DEF node
    <3> DEFINE D == Seq(Bytes)
    <3>3. write \in [handle : Handles \cup {-1}, node : InodeType, data : D, copied : Nat]
      BY DEF TypeOK
    <3>4. write.copied + BufSize \in Nat
      BY <2>2, <3>3
    <3> HIDE DEF D
    <3>5. write' \in [handle : Handles \cup {-1}, node : InodeType, data : D, copied : Nat]
      BY <3>1, <3>2, <3>3, <3>4
    <3> QED BY <3>5 DEF D
  <2>4. block' \in [Blocks -> [Cells -> Bytes \cup {Junk}]]
    BY <1>10, NewBlockType DEF WriteBlock, TypeOK
  <2> QED BY <1>10, <2>3, <2>4 DEF WriteBlock, Allocated, TypeOK
<1>11. CASE WriteEnd
  BY <1>0, <1>11 DEF WriteEnd, TypeOK
<1> QED BY <1>1, <1>2, <1>3, <1>4, <1>5, <1>6, <1>7, <1>8, <1>9, <1>10, <1>11 DEF Next

-----------------------------------------------------------------------------
(* What the invariant says of a running write. *)
LEMMA Writing ==
  ASSUME TypeOK, WriteInv, program = "writing"
  PROVE  /\ write.handle \in Handles /\ InodeOf(write.handle) \in Inodes
         /\ OffsetOf(write.handle) \in Nat
         /\ Target \in InodeType /\ Target.file_size \in Nat
         /\ Target.file_size <= write.node.file_size
BY Typing DEF WriteInv, HandleOpen, CopyAhead, Target, TypeOK

(* A block of a file on disk is in its place in Node as well. *)
LEMMA DiskInNode ==
  ASSUME TypeOK, WriteInv, NEW i \in Inodes, NEW k \in FileBlocks,
         inode[i].direct_blocks[k] # -1
  PROVE  Node(i).direct_blocks[k] = inode[i].direct_blocks[k]
BY DEF WriteInv, CopyAhead, Target, Node

(* So blocks of files on disk are exclusive too. *)
LEMMA DiskExclusive ==
  ASSUME TypeOK, WriteInv, BlocksExclusive, program \in {"idle", "writing"},
         NEW i \in Inodes, NEW k \in FileBlocks, inode[i].direct_blocks[k] # -1
  PROVE  /\ inode[i].direct_blocks[k] \notin datablock_freelist
         /\ \A j \in Inodes, l \in FileBlocks :
              Node(j).direct_blocks[l] = inode[i].direct_blocks[k] => i = j /\ k = l
<1>1. Node(i).direct_blocks[k] = inode[i].direct_blocks[k]
  BY DiskInNode
<1>2. \A j \in Inodes, l \in FileBlocks :
        /\ inode[i].direct_blocks[k] \notin datablock_freelist
        /\ Node(j).direct_blocks[l] = inode[i].direct_blocks[k] => i = j /\ k = l
  <2> SUFFICES ASSUME NEW j \in Inodes, NEW l \in FileBlocks
               PROVE  /\ inode[i].direct_blocks[k] \notin datablock_freelist
                      /\ Node(j).direct_blocks[l] = inode[i].direct_blocks[k] => i = j /\ k = l
    OBVIOUS
  <2>1. LET b == Node(i).direct_blocks[k] IN
        b # -1 => /\ b \notin datablock_freelist
                  /\ Node(j).direct_blocks[l] = b => i = j /\ k = l
    BY DEF BlocksExclusive
  <2> QED BY <1>1, <2>1
<1> QED BY <1>2

(* One iteration of simplefs_write: it extends the copy of the inode and   *)
(* stores to a block of this file only, behind what the file had in it.    *)
LEMMA Iteration ==
  ASSUME IInv, WriteBlock,
         NEW b, b = NodeWithBlock.direct_blocks[wblock_idx]
  PROVE  /\ b \in Blocks
         /\ write'.handle = write.handle /\ write'.data = write.data
         /\ write'.copied = write.copied + BufSize
         /\ write'.node.name = write.node.name
         /\ write'.node.file_size = write.node.file_size + BufSize
         /\ \A k \in FileBlocks \ {wblock_idx} :
              write'.node.direct_blocks[k] = write.node.direct_blocks[k]
         /\ write'.node.direct_blocks[wblock_idx] = b
         /\ IF woffset = 0 THEN b \in datablock_freelist
            ELSE b = write.node.direct_blocks[wblock_idx]
         /\ \A x \in Blocks \ {b} : block'[x] = block[x]
         /\ \A c \in Cells : c < woffset => block'[b][c] = block[b][c]
         /\ \A c \in woffset .. woffset + BufSize - 1 :
              block'[b][c] = write.data[write.copied + c - woffset + 1]
         /\ woffset # 0 => write.node.direct_blocks[wblock_idx] # -1
         /\ woffset = 0 => write.node.direct_blocks[wblock_idx] = -1
<1> USE DEF IInv
<1>1. wblock_idx \in FileBlocks /\ program = "writing" /\ (woffset = 0 => datablock_freelist # {})
  BY DEF WriteBlock
<1>2. /\ wblock_idx \in Nat /\ woffset \in Cells /\ woffset \in Nat
      /\ write.node.file_size = Start(wblock_idx) + woffset
      /\ BufSize \in Nat /\ 0 < BufSize /\ woffset + BufSize <= BLOCKSIZE
  BY WritePosition DEF WriteBlock
<1>3. write.node.direct_blocks[wblock_idx] # -1 <=> woffset # 0
  <2>1. Sized(write.node) /\ Start(wblock_idx) \in Int
    BY <1>1, <1>2, Starts DEF WriteInv
  <2>2. write.node.direct_blocks[wblock_idx] # -1 <=> Start(wblock_idx) < write.node.file_size
    BY <1>1, <2>1 DEF Sized
  <2> HIDE DEF woffset, wblock_idx
  <2> QED BY <1>2, <2>1, <2>2
<1>4. /\ IF woffset = 0 THEN b \in datablock_freelist
         ELSE b = write.node.direct_blocks[wblock_idx]
      /\ b \in Blocks
  <2> HIDE DEF woffset, wblock_idx
  <2>1. CASE woffset = 0
    BY <1>1, <2>1, NodeWithBlockType, FirstFree DEF TypeOK
  <2>2. CASE woffset # 0
    BY <1>1, <1>3, <2>2, NodeWithBlockType, Typing
  <2> QED BY <2>1, <2>2
<1>5. /\ write'.node = [NodeWithBlock EXCEPT !.file_size = @ + BufSize]
      /\ write'.handle = write.handle /\ write'.data = write.data
      /\ write'.copied = write.copied + BufSize
      /\ block' = [block EXCEPT ![b] = NewBlock(@)]
  BY DEF WriteBlock, TypeOK
<1>6. /\ write'.node.name = write.node.name
      /\ write'.node.file_size = write.node.file_size + BufSize
      /\ write'.node.direct_blocks = NodeWithBlock.direct_blocks
  BY <1>1, <1>5, NodeWithBlockType DEF InodeType
<1>7. \A k \in FileBlocks \ {wblock_idx} :
        write'.node.direct_blocks[k] = write.node.direct_blocks[k]
  BY <1>1, <1>6, NodeWithBlockType
<1>8. \A x \in Blocks \ {b} : block'[x] = block[x]
  BY <1>5 DEF TypeOK
<1>9. block'[b] = NewBlock(block[b])
  BY <1>4, <1>5 DEF TypeOK
<1>10. \A c \in Cells : c < woffset => block'[b][c] = block[b][c]
  <2> SUFFICES ASSUME NEW c \in Cells, c < woffset PROVE block'[b][c] = block[b][c]
    OBVIOUS
  <2> HIDE DEF woffset
  <2>1. NewBlock(block[b])[c] = KeptByte(block[b], c)
    BY <1>2 DEF NewBlock
  <2> QED BY <1>9, <2>1 DEF KeptByte
<1>11. \A c \in woffset .. woffset + BufSize - 1 :
         block'[b][c] = write.data[write.copied + c - woffset + 1]
  <2> SUFFICES ASSUME NEW c \in woffset .. woffset + BufSize - 1
               PROVE  block'[b][c] = write.data[write.copied + c - woffset + 1]
    OBVIOUS
  <2> HIDE DEF woffset
  <2>1. c \in Cells /\ ~ (c < woffset)
    BY <1>2, Sizes DEF Cells
  <2>2. NewBlock(block[b])[c] = NewByte(c)
    BY <2>1 DEF NewBlock
  <2> QED BY <1>9, <2>2 DEF NewByte
<1> QED BY <1>3, <1>4, <1>5, <1>6, <1>7, <1>8, <1>10, <1>11, Zenon

-----------------------------------------------------------------------------
(* Initially and after every step, what is on disk is in order. *)
LEMMA FormattedFile ==
  ASSUME NEW node, node.file_size = 0, \A k \in FileBlocks : node.direct_blocks[k] = -1
  PROVE  Sized(node) /\ Written(node)
<1>1. \A k \in FileBlocks : Start(k) \in Nat /\ MaxBytes \in Nat
  BY Starts DEF FileBlocks
<1>2. \A k \in FileBlocks, c \in Cells : Start(k) + c \in Nat
  BY <1>1 DEF Cells
<1> QED BY <1>1, <1>2, Starts DEF Sized, Written

(* The delete of a file either stops the program or frees its inode. *)
LEMMA DeletedInode ==
  ASSUME TypeOK, NEW f, simplefs_delete(f)
  PROVE  /\ get_inode_num(f) \in Inodes
         /\ \/ program' = "idle" /\ inode' = [inode EXCEPT ![get_inode_num(f)] = Freed(@)]
            \/ program' # "idle" /\ inode' = inode
         /\ program' \in {"block not used", "inode not in use", "idle"}
BY NamedInode DEF simplefs_delete, DeleteInode, AfterDelete

LEMMA FreedFile ==
  ASSUME TypeOK, NEW i \in Inodes
  PROVE  /\ Freed(inode[i]).file_size = 0 /\ Freed(inode[i]).name = inode[i].name
         /\ \A k \in FileBlocks : Freed(inode[i]).direct_blocks[k] = -1
<1>1. inode[i] \in InodeType
  BY DEF TypeOK
<1> QED BY <1>1 DEF Freed, InodeType

(* An iteration of simplefs_write keeps the bytes of all files on disk,    *)
(* also those it stores again with the block.                              *)
LEMMA DiskBytesKept ==
  ASSUME IInv, WriteBlock,
         NEW j \in Inodes, NEW k \in FileBlocks, NEW c \in Cells,
         Start(k) + c < inode[j].file_size
  PROVE  block'[inode[j].direct_blocks[k]][c] = block[inode[j].direct_blocks[k]][c]
<1> USE DEF IInv
<1> DEFINE b == NodeWithBlock.direct_blocks[wblock_idx]
           i == InodeOf(write.handle)
<1>1. program = "writing" /\ BytesLeft > 0 /\ wblock_idx \in FileBlocks
  BY DEF WriteBlock
<1>2. /\ b \in Blocks /\ b # -1
      /\ woffset = 0 => b \in datablock_freelist
      /\ woffset # 0 => b = write.node.direct_blocks[wblock_idx]
      /\ \A x \in Blocks \ {b} : block'[x] = block[x]
      /\ \A d \in Cells : d < woffset => block'[b][d] = block[b][d]
  BY Iteration, Typing
<1> HIDE DEF b
<1>3. /\ Target.file_size <= Start(wblock_idx) + woffset /\ woffset \in Nat
      /\ Target.file_size \in Nat /\ Start(wblock_idx) \in Int
  BY <1>1, Writing, WritePosition, Starts
<1> HIDE DEF woffset, wblock_idx
<1>4. inode[j].direct_blocks[k] # -1
  <2>1. Start(k) \in Nat /\ c \in Nat /\ inode[j].file_size \in Nat
    BY Starts, Typing DEF Cells, FileBlocks
  <2>2. Start(k) < inode[j].file_size
    BY <2>1
  <2> QED BY <2>2 DEF DiskInv, Sized
<1>5. inode[j].direct_blocks[k] \in Blocks
  BY <1>4, Typing
<1>6. CASE inode[j].direct_blocks[k] # b
  BY <1>2, <1>5, <1>6
<1>7. CASE inode[j].direct_blocks[k] = b
  <2>1. woffset # 0
    BY <1>1, <1>2, <1>4, <1>7, DiskExclusive
  <2>2. Node(i).direct_blocks[wblock_idx] = b /\ i \in Inodes
    BY <1>1, <1>2, <2>1, Writing DEF Node
  <2>3. j = i /\ k = wblock_idx
    BY <1>1, <1>4, <1>7, <2>2, DiskExclusive
  <2>4. Start(wblock_idx) + c < Target.file_size
    BY <2>3 DEF Target
  <2>5. c < woffset
    BY <1>3, <2>4 DEF Cells
  <2> QED BY <1>2, <1>7, <2>5
<1> QED BY <1>6, <1>7

LEMMA DiskStep == IInv /\ [Next]_vars => DiskInv'
<1> SUFFICES ASSUME IInv, [Next]_vars PROVE DiskInv'
  OBVIOUS
<1> USE DEF IInv
<1>1. CASE UNCHANGED <<inode, block>>
  BY <1>1 DEF DiskInv, Written
<1>2. ASSUME NEW f \in Names, simplefs_create(f) PROVE DiskInv'
  <2>1. \A i \in Inodes : /\ inode'[i].file_size = inode[i].file_size
                          /\ inode'[i].direct_blocks = inode[i].direct_blocks
    BY <1>2 DEF simplefs_create, TypeOK, InodeType
  <2> QED BY <1>2, <2>1 DEF simplefs_create, DiskInv, Sized, Written
<1>3. ASSUME NEW f \in Names, simplefs_delete(f) PROVE DiskInv'
  <2>1. ASSUME NEW i \in Inodes PROVE Sized(inode'[i]) /\ Written(inode'[i])
    <3>1. inode'[i] \in {inode[i], Freed(inode[i])}
      BY <1>3, DeletedInode DEF TypeOK
    <3> QED BY <3>1, FreedFile, FormattedFile DEF DiskInv
  <2> QED BY <1>3, <2>1 DEF simplefs_delete, DiskInv, Written
<1>4. CASE WriteBlock
  <2>1. UNCHANGED inode
    BY <1>4 DEF WriteBlock
  <2> QED BY <1>4, <2>1, DiskBytesKept DEF DiskInv, Written
<1>5. CASE WriteEnd
  <2>1. ASSUME NEW j \in Inodes PROVE Sized(inode'[j]) /\ Written(inode'[j])
    <3>1. program = "writing" /\ inode'[j] \in {inode[j], write.node}
      BY <1>5 DEF WriteEnd, TypeOK
    <3>2. ASSUME NEW k \in FileBlocks, NEW c \in Cells,
                 Start(k) + c < write.node.file_size
          PROVE  block[write.node.direct_blocks[k]][c] \in Bytes
      <4>1. /\ Start(k) \in Nat /\ c \in Nat /\ Target.file_size \in Nat
            /\ write.node.file_size \in Nat
        BY <3>1, Starts, Writing, Typing DEF Cells, FileBlocks
      <4>2. CASE Start(k) + c < Target.file_size
        <5>1. InodeOf(write.handle) \in Inodes
          BY <3>1, Writing
        <5>2. Target.direct_blocks[k] # -1
          BY <4>1, <4>2, <5>1 DEF DiskInv, Sized, Target
        <5>3. write.node.direct_blocks[k] = Target.direct_blocks[k]
          BY <3>1, <5>2 DEF WriteInv, CopyAhead
        <5> QED BY <4>2, <5>1, <5>3 DEF DiskInv, Written, Target
      <4>3. CASE Start(k) + c >= Target.file_size
        <5>1. Start(k) + c \in Target.file_size .. write.node.file_size - 1
          BY <3>2, <4>1, <4>3
        <5>2. block[write.node.direct_blocks[k]][c]
                = write.data[Start(k) + c - Target.file_size + 1]
          BY <3>1, <5>1 DEF WriteInv, DataStored
        <5>3. Start(k) + c - Target.file_size + 1 \in 1 .. Len(write.data)
          <6>1. /\ write.node.file_size = Target.file_size + write.copied
                /\ write.copied <= Len(write.data)
            BY <3>1 DEF WriteInv, CopyAhead
          <6>2. write.copied \in Nat /\ Len(write.data) \in Nat
            BY Typing
          <6>3. /\ Target.file_size <= Start(k) + c
                /\ Start(k) + c <= write.node.file_size - 1
            BY <4>1, <5>1
          <6>4. /\ Start(k) + c - Target.file_size + 1 \in Int
                /\ 1 <= Start(k) + c - Target.file_size + 1
                /\ Start(k) + c - Target.file_size + 1 <= Len(write.data)
            BY <4>1, <6>1, <6>2, <6>3
          <6> QED BY <6>2, <6>4
        <5> QED BY <5>2, <5>3, Typing
      <4> QED BY <4>1, <4>2, <4>3
    <3>3. Sized(write.node) /\ Written(write.node)
      BY <3>1, <3>2 DEF WriteInv, Written
    <3> QED BY <3>1, <3>3 DEF DiskInv
  <2> QED BY <1>5, <2>1 DEF WriteEnd, DiskInv, Written
<1> QED BY <1>1, <1>2, <1>3, <1>4, <1>5 DEF Next, vars, disk, simplefs_open,
  simplefs_close, simplefs_seek, WriteBegin, WriteFails, WriteOverruns

-----------------------------------------------------------------------------
(* Every step keeps what the invariant says of a running write. *)
LEMMA WriteStep == IInv /\ [Next]_vars => WriteInv'
<1> SUFFICES ASSUME IInv, [Next]_vars, program' = "writing"
             PROVE  (HandleOpen /\ CopyAhead /\ Sized(write.node) /\ DataStored)'
  BY DEF WriteInv
<1> USE DEF IInv
<1>1. CASE UNCHANGED vars
  BY <1>1 DEF vars, disk, WriteInv, HandleOpen, OpenHandles, CanWrite, OffsetOf, InodeOf,
    CopyAhead, DataStored, Target
<1>2. ASSUME NEW h \in Handles, NEW data \in WriteData, WriteBegin(h, data)
      PROVE  (HandleOpen /\ CopyAhead /\ Sized(write.node) /\ DataStored)'
  <2>1. /\ write'.handle = h /\ write'.data = data /\ write'.copied = 0
        /\ write'.node = inode[InodeOf(h)]
        /\ UNCHANGED <<disk, file_handle_array>> /\ h \in OpenHandles /\ CanWrite(h, data)
    BY <1>2 DEF WriteBegin
  <2>2. Target' = inode[InodeOf(h)] /\ InodeOf(h) \in Inodes /\ Len(data) \in Nat
    <3>1. data \in Seq(Bytes)
      BY FSAssumption
    <3>2. Len(data) \in Nat
      BY <3>1
    <3> QED BY <2>1, <3>2, Typing DEF Target, InodeOf, disk
  <2>3. HandleOpen'
    BY <2>1 DEF HandleOpen, OpenHandles, CanWrite, OffsetOf
  <2>4. CopyAhead'
    BY <2>1, <2>2, Typing DEF CopyAhead
  <2>5. Sized(write'.node)
    BY <2>1, <2>2 DEF DiskInv
  <2>6. DataStored'
    <3>1. inode[InodeOf(h)].file_size .. inode[InodeOf(h)].file_size - 1 = {}
      BY <2>2, Typing
    <3> QED BY <2>1, <2>2, <3>1 DEF DataStored
  <2> QED BY <2>3, <2>4, <2>5, <2>6
<1>3. CASE WriteBlock
  <2> DEFINE b == NodeWithBlock.direct_blocks[wblock_idx]
  <2>1. /\ program = "writing" /\ BytesLeft > 0 /\ wblock_idx \in FileBlocks
        /\ UNCHANGED <<inode, file_handle_array>>
    BY <1>3 DEF WriteBlock
  <2>2. /\ b \in Blocks
        /\ write'.handle = write.handle /\ write'.data = write.data
        /\ write'.copied = write.copied + BufSize
        /\ write'.node.name = write.node.name
        /\ write'.node.file_size = write.node.file_size + BufSize
        /\ \A k \in FileBlocks \ {wblock_idx} :
             write'.node.direct_blocks[k] = write.node.direct_blocks[k]
        /\ write'.node.direct_blocks[wblock_idx] = b
        /\ IF woffset = 0 THEN b \in datablock_freelist
           ELSE b = write.node.direct_blocks[wblock_idx]
        /\ \A x \in Blocks \ {b} : block'[x] = block[x]
        /\ \A c \in Cells : c < woffset => block'[b][c] = block[b][c]
        /\ \A c \in woffset .. woffset + BufSize - 1 :
             block'[b][c] = write.data[write.copied + c - woffset + 1]
        /\ woffset # 0 => write.node.direct_blocks[wblock_idx] # -1
        /\ woffset = 0 => write.node.direct_blocks[wblock_idx] = -1
    BY <1>3, Iteration
  <2> HIDE DEF b
  <2>3. /\ wblock_idx \in Nat /\ woffset \in Cells /\ woffset \in Nat
        /\ write.node.file_size = Start(wblock_idx) + woffset
        /\ BufSize \in Nat /\ 0 < BufSize /\ woffset + BufSize <= BLOCKSIZE
        /\ write.copied + BufSize <= Len(write.data)
    BY <2>1, WritePosition
  <2>4. /\ InodeOf(write.handle) \in Inodes /\ Target.file_size \in Nat
        /\ write.copied \in Nat /\ Target' = Target
        /\ HandleOpen /\ CopyAhead /\ Sized(write.node) /\ DataStored
    BY <2>1, <2>2, Writing, Typing DEF WriteInv, Target, InodeOf
  <2>5. HandleOpen'
    BY <2>1, <2>2, <2>4 DEF HandleOpen, OpenHandles, CanWrite, OffsetOf
  <2> HIDE DEF woffset, wblock_idx
  <2>6. /\ write'.node.file_size = Target.file_size + write'.copied
        /\ write'.copied <= Len(write'.data) /\ write'.node.name = Target.name
    BY <2>2, <2>3, <2>4 DEF CopyAhead
  <2>7. ASSUME NEW k \in FileBlocks, Target.direct_blocks[k] # -1
        PROVE  write'.node.direct_blocks[k] = Target.direct_blocks[k]
    <3>1. write.node.direct_blocks[k] = Target.direct_blocks[k]
      BY <2>4, <2>7 DEF CopyAhead
    <3>2. CASE k # wblock_idx
      BY <2>2, <3>1, <3>2
    <3>3. CASE k = wblock_idx
      BY <2>2, <2>7, <3>1, <3>3
    <3> QED BY <3>2, <3>3
  <2>8. CopyAhead'
    BY <2>4, <2>6, <2>7 DEF CopyAhead
  <2>9. Sized(write'.node)
    <3>1. /\ Start(wblock_idx) \in Nat /\ MaxBytes = Start(MAX_FILE_SIZE)
          /\ Start(wblock_idx) + BLOCKSIZE <= Start(MAX_FILE_SIZE)
          /\ Start(MAX_FILE_SIZE) \in Int
      BY <2>1, <2>3, Starts, Sizes DEF FileBlocks
    <3>2. write'.node.file_size <= MaxBytes
      BY <2>2, <2>3, <3>1, Sizes
    <3>3. ASSUME NEW k \in FileBlocks
          PROVE  write'.node.direct_blocks[k] # -1 <=> Start(k) < write'.node.file_size
      <4>0. Start(k) \in Int /\ k \in Int
        BY Starts DEF FileBlocks
      <4>1. CASE k = wblock_idx
        BY <2>2, <2>3, <3>1, <4>1, Typing
      <4>2. CASE k < wblock_idx
        <5>1. Start(k) + BLOCKSIZE <= Start(wblock_idx)
          BY <2>3, <4>0, <4>2, Starts
        <5>2. Start(k) < write.node.file_size /\ Start(k) < write'.node.file_size
          BY <2>2, <2>3, <3>1, <4>0, <5>1, Sizes
        <5>3. write.node.direct_blocks[k] # -1
          BY <2>4, <5>2 DEF Sized
        <5> QED BY <2>2, <4>2, <5>2, <5>3
      <4>3. CASE k > wblock_idx
        <5>1. Start(wblock_idx) + BLOCKSIZE <= Start(k)
          BY <2>3, <4>0, <4>3, Starts
        <5>2. ~ (Start(k) < write.node.file_size) /\ ~ (Start(k) < write'.node.file_size)
          BY <2>2, <2>3, <3>1, <4>0, <5>1, Sizes
        <5>3. write.node.direct_blocks[k] = -1
          BY <2>4, <5>2 DEF Sized
        <5>4. k \in FileBlocks \ {wblock_idx}
          BY <2>3, <4>0, <4>3
        <5>5. write'.node.direct_blocks[k] = -1
          BY <2>2, <5>3, <5>4
        <5> QED BY <5>2, <5>5
      <4> QED BY <2>3, <4>0, <4>1, <4>2, <4>3
    <3> QED BY <3>2, <3>3 DEF Sized
  <2>10. ASSUME NEW k \in FileBlocks, NEW c \in Cells,
                Start(k) + c \in Target.file_size .. write'.node.file_size - 1
         PROVE  block'[write'.node.direct_blocks[k]][c]
                  = write.data[Start(k) + c - Target.file_size + 1]
    <3>1. /\ Start(k) \in Int /\ k \in Int /\ c \in Nat /\ c < BLOCKSIZE
          /\ Start(wblock_idx) \in Int
      BY <2>3, Starts, Sizes DEF FileBlocks, Cells
    <3>2. write.node.file_size = Target.file_size + write.copied
      BY <2>4 DEF CopyAhead
    <3>0. /\ Target.file_size \in Nat /\ write.copied \in Nat /\ wblock_idx \in Int
          /\ write.node.file_size = Start(wblock_idx) + woffset /\ woffset \in Nat
          /\ BufSize \in Nat /\ woffset + BufSize <= BLOCKSIZE /\ BLOCKSIZE \in Nat
          /\ Target.file_size <= Start(k) + c
          /\ Start(k) + c <= Start(wblock_idx) + woffset + BufSize - 1
      <4>1. /\ Target.file_size \in Nat /\ write.copied \in Nat
            /\ write'.node.file_size = write.node.file_size + BufSize
        BY <2>2, <2>4
      <4>2. Target.file_size <= Start(k) + c /\ Start(k) + c <= write'.node.file_size - 1
        BY <2>3, <2>10, <3>1, <4>1
      <4> QED BY <2>3, <3>1, <4>1, <4>2, Sizes
    <3>3. CASE k = wblock_idx /\ c < woffset
      <4>1. Start(k) + c \in Target.file_size .. write.node.file_size - 1
        BY <3>0, <3>1, <3>3
      <4>2. block[write.node.direct_blocks[k]][c]
              = write.data[Start(k) + c - Target.file_size + 1]
        BY <2>4, <4>1 DEF DataStored
      <4>3. block'[b][c] = block[b][c]
        BY <2>2, <3>3
      <4>4. write'.node.direct_blocks[k] = b /\ write.node.direct_blocks[k] = b
        BY <2>2, <2>3, <3>1, <3>3
      <4> QED BY <4>2, <4>3, <4>4
    <3>4. CASE k = wblock_idx /\ c >= woffset
      <4>1. c \in woffset .. woffset + BufSize - 1
        BY <3>0, <3>1, <3>4
      <4>2. write.copied + c - woffset + 1 = Start(k) + c - Target.file_size + 1
        BY <3>0, <3>1, <3>2, <3>4
      <4> QED BY <2>2, <3>4, <4>1, <4>2
    <3>5. CASE k < wblock_idx
      <4>1. Start(k) + BLOCKSIZE <= Start(wblock_idx)
        BY <3>0, <3>1, <3>5, Starts
      <4>2. Start(k) < write.node.file_size
        BY <3>0, <3>1, <4>1
      <4>3. Start(k) + c \in Target.file_size .. write.node.file_size - 1
        BY <3>0, <3>1, <4>1
      <4>4. block[write.node.direct_blocks[k]][c]
              = write.data[Start(k) + c - Target.file_size + 1]
        BY <2>4, <4>3 DEF DataStored
      <4>5. write.node.direct_blocks[k] # -1
        BY <2>4, <4>2 DEF Sized
      <4>6. write.node.direct_blocks[k] # b
        <5>1. Node(InodeOf(write.handle)).direct_blocks = write.node.direct_blocks
          BY <2>1 DEF Node
        <5>2. write.node.direct_blocks[k] \notin datablock_freelist
          BY <2>1, <2>4, <4>5, <5>1 DEF BlocksExclusive
        <5>3. write.node.direct_blocks[wblock_idx] # write.node.direct_blocks[k]
          BY <2>1, <2>4, <3>5, <4>5, <5>1, <2>3, <3>1 DEF BlocksExclusive
        <5> QED BY <2>2, <5>2, <5>3
      <4>7. write.node.direct_blocks[k] \in Blocks
        BY <4>5, Typing
      <4>8. write'.node.direct_blocks[k] = write.node.direct_blocks[k]
        BY <2>2, <2>3, <3>1, <3>5
      <4>9. block'[write.node.direct_blocks[k]] = block[write.node.direct_blocks[k]]
        BY <2>2, <4>6, <4>7
      <4> QED BY <4>4, <4>8, <4>9
    <3>6. CASE k > wblock_idx
      <4>1. Start(wblock_idx) + BLOCKSIZE <= Start(k)
        BY <3>0, <3>1, <3>6, Starts
      <4> QED BY <3>0, <3>1, <4>1
    <3> QED BY <3>0, <3>1, <3>3, <3>4, <3>5, <3>6
  <2>11. DataStored'
    BY <2>2, <2>4, <2>10 DEF DataStored
  <2> QED BY <2>5, <2>8, <2>9, <2>11
<1>4. CASE program' # "writing"
  BY <1>4
<1>5. ASSUME NEW f, simplefs_delete(f) PROVE FALSE
  BY <1>5, DeletedInode
<1> QED BY <1>1, <1>2, <1>3, <1>4, <1>5 DEF Next, simplefs_create, simplefs_open,
  simplefs_close, simplefs_seek, WriteFails, WriteOverruns, WriteEnd

-----------------------------------------------------------------------------
(* Every step keeps the blocks of the files apart. *)
LEMMA ExclusiveStep == IInv /\ [Next]_vars => BlocksExclusive'
<1> SUFFICES ASSUME IInv, [Next]_vars PROVE BlocksExclusive'
  OBVIOUS
<1> USE DEF IInv
<1> DEFINE Apart(i, j, k, l) ==
      Node(i).direct_blocks[k] # -1 =>
        /\ Node(i).direct_blocks[k] \notin datablock_freelist
        /\ Node(j).direct_blocks[l] = Node(i).direct_blocks[k] => i = j /\ k = l
<1>a. ASSUME program' # "block not used",
             program' \in {"idle", "writing"} =>
               \A i, j \in Inodes, k, l \in FileBlocks : Apart(i, j, k, l)'
      PROVE  BlocksExclusive'
  BY <1>a DEF BlocksExclusive
<1>0. /\ program \in {"idle", "writing"} =>
           \A i, j \in Inodes, k, l \in FileBlocks : Apart(i, j, k, l)
      /\ program # "block not used"
  BY DEF BlocksExclusive
<1>1. ASSUME \A i \in Inodes : Node(i)'.direct_blocks = Node(i).direct_blocks,
             UNCHANGED datablock_freelist, program' # "block not used",
             program' \in {"idle", "writing"} => program \in {"idle", "writing"}
      PROVE  BlocksExclusive'
  <2> SUFFICES ASSUME program' \in {"idle", "writing"},
                      NEW i \in Inodes, NEW j \in Inodes,
                      NEW k \in FileBlocks, NEW l \in FileBlocks
               PROVE  Apart(i, j, k, l)'
    BY <1>a, <1>1
  <2>1. program \in {"idle", "writing"}
    BY <1>1
  <2>2. Apart(i, j, k, l)
    BY <1>0, <2>1, Zenon
  <2> QED BY <1>1, <2>2
<1>2. CASE UNCHANGED vars
  BY <1>0, <1>1, <1>2 DEF vars, disk, Node, InodeOf
<1>3. ASSUME NEW f \in Names, simplefs_create(f) PROVE BlocksExclusive'
  <2>1. \A i \in Inodes : inode'[i].direct_blocks = inode[i].direct_blocks
    BY <1>3 DEF simplefs_create, TypeOK, InodeType
  <2> QED BY <1>1, <1>3, <2>1 DEF simplefs_create, Node
<1>4. ASSUME NEW f \in Names, simplefs_delete(f) PROVE BlocksExclusive'
  <2> DEFINE d == get_inode_num(f)
  <2>1. d \in Inodes /\ program = "idle" /\ \A i \in Inodes : Node(i) = inode[i]
    BY <1>4, DeletedInode DEF simplefs_delete, Node
  <2>2. ~ BlockAssertionFails(d)
    BY <2>1, DiskExclusive DEF BlockAssertionFails, HasBlockTwice, BlocksOf
  <2>3. program' # "block not used"
    BY <1>4, <2>2 DEF simplefs_delete, AfterDelete
  <2>4. ASSUME program' = "idle", NEW i \in Inodes, NEW j \in Inodes,
               NEW k \in FileBlocks, NEW l \in FileBlocks
        PROVE  Apart(i, j, k, l)'
    <3>1. /\ \A x \in Inodes : Node(x)' = inode'[x]
          /\ \A x \in Inodes \ {d} : inode'[x] = inode[x]
          /\ inode'[d] = Freed(inode[d])
          /\ datablock_freelist' = datablock_freelist \cup BlocksOf(inode[d])
      BY <1>4, <2>1, <2>4, DeletedInode DEF Node, TypeOK, simplefs_delete, FreedBlocks
    <3>2. \A y \in FileBlocks : inode'[d].direct_blocks[y] = -1
      BY <2>1, <3>1, FreedFile
    <3>3. CASE i = d
      BY <3>1, <3>2, <3>3
    <3>4. CASE i # d /\ inode[i].direct_blocks[k] # -1
      <4>1. inode[i].direct_blocks[k] \notin datablock_freelist \cup BlocksOf(inode[d])
        BY <2>1, <3>4, DiskExclusive DEF BlocksOf
      <4>2. Apart(i, j, k, l)
        BY <1>0, <2>1
      <4>3. CASE j = d
        BY <3>1, <3>2, <3>4, <4>1, <4>3
      <4>4. CASE j # d
        BY <2>1, <3>1, <3>4, <4>1, <4>2, <4>4
      <4> QED BY <4>3, <4>4
    <3>5. CASE i # d /\ inode[i].direct_blocks[k] = -1
      BY <3>1, <3>5
    <3> QED BY <3>3, <3>4, <3>5
  <2>5. program' \in {"idle", "writing"} => program' = "idle"
    BY <1>4, DeletedInode
  <2> QED BY <1>a, <2>3, <2>4, <2>5
<1>5. ASSUME NEW f \in Names, simplefs_open(f) PROVE BlocksExclusive'
  BY <1>1, <1>5 DEF simplefs_open, disk, Node
<1>6. ASSUME NEW h \in Handles, simplefs_close(h) PROVE BlocksExclusive'
  BY <1>1, <1>6 DEF simplefs_close, disk, Node
<1>7. ASSUME NEW h \in Handles, NEW nseek \in -MaxBytes .. MaxBytes, simplefs_seek(h, nseek)
      PROVE  BlocksExclusive'
  BY <1>1, <1>7 DEF simplefs_seek, disk, Node
<1>8. ASSUME NEW h \in Handles, NEW data \in WriteData, WriteBegin(h, data)
      PROVE  BlocksExclusive'
  <2>1. \A i \in Inodes : Node(i)' = inode[i] /\ Node(i) = inode[i]
    BY <1>8 DEF WriteBegin, disk, Node, InodeOf
  <2> QED BY <1>1, <1>8, <2>1 DEF WriteBegin, disk
<1>9. CASE WriteFails
  <2>1. program = "writing" /\ program' = "idle" /\ UNCHANGED datablock_freelist
        /\ \A i \in Inodes : Node(i)' = inode[i]
    BY <1>9 DEF WriteFails, disk, Node
  <2>2. ASSUME NEW i \in Inodes, NEW j \in Inodes,
               NEW k \in FileBlocks, NEW l \in FileBlocks
        PROVE  Apart(i, j, k, l)'
    <3>1. SUFFICES ASSUME inode[i].direct_blocks[k] # -1
                   PROVE  /\ inode[i].direct_blocks[k] \notin datablock_freelist
                          /\ inode[j].direct_blocks[l] = inode[i].direct_blocks[k] =>
                               i = j /\ k = l
      BY <2>1
    <3>2. inode[i].direct_blocks[k] \notin datablock_freelist
      BY <2>1, <3>1, DiskExclusive
    <3>3. ASSUME inode[j].direct_blocks[l] = inode[i].direct_blocks[k]
          PROVE  i = j /\ k = l
      <4>1. Node(j).direct_blocks[l] = inode[i].direct_blocks[k]
        BY <3>1, <3>3, DiskInNode
      <4> QED BY <2>1, <3>1, <4>1, DiskExclusive
    <3> QED BY <3>2, <3>3
  <2> QED BY <1>a, <2>1, <2>2
<1>10. CASE WriteOverruns
  BY <1>a, <1>10 DEF WriteOverruns
<1>11. CASE WriteBlock
  <2> DEFINE b == NodeWithBlock.direct_blocks[wblock_idx]
             t == InodeOf(write.handle)
  <2>1. /\ program = "writing" /\ wblock_idx \in FileBlocks /\ program' = program
        /\ datablock_freelist' = Allocated
        /\ UNCHANGED <<inode, file_handle_array>>
    BY <1>11 DEF WriteBlock
  <2>2. /\ b \in Blocks
        /\ write'.handle = write.handle
        /\ \A k \in FileBlocks \ {wblock_idx} :
             write'.node.direct_blocks[k] = write.node.direct_blocks[k]
        /\ write'.node.direct_blocks[wblock_idx] = b
        /\ IF woffset = 0 THEN b \in datablock_freelist
           ELSE b = write.node.direct_blocks[wblock_idx]
    BY <1>11, Iteration
  <2>3. t \in Inodes
    BY <2>1, Writing
  <2>4. \A i \in Inodes : /\ Node(i)' = IF i = t THEN write'.node ELSE inode[i]
                          /\ Node(i) = IF i = t THEN write.node ELSE inode[i]
    BY <2>1, <2>2, <2>3 DEF Node, InodeOf
  <2>5. datablock_freelist' = IF woffset = 0 THEN datablock_freelist \ {b}
                              ELSE datablock_freelist
    BY <1>11, <2>1, NodeWithBlockType DEF Allocated, WriteBlock
  <2> HIDE DEF b, t, woffset, wblock_idx
  <2>6. ASSUME NEW i \in Inodes, NEW k \in FileBlocks
        PROVE  /\ i = t /\ k = wblock_idx => Node(i)'.direct_blocks[k] = b
               /\ ~ (i = t /\ k = wblock_idx) =>
                    Node(i)'.direct_blocks[k] = Node(i).direct_blocks[k]
    BY <2>2, <2>4
  <2>7. ASSUME NEW i \in Inodes, NEW k \in FileBlocks, ~ (i = t /\ k = wblock_idx)
        PROVE  Node(i).direct_blocks[k] # b
    <3>1. CASE woffset = 0
      BY <1>0, <2>1, <2>2, <3>1, Typing
    <3>2. CASE woffset # 0
      <4>1. Apart(t, i, wblock_idx, k)
        BY <1>0, <2>1, <2>3
      <4>2. Node(t).direct_blocks[wblock_idx] = b /\ b # -1
        BY <2>2, <2>3, <2>4, <3>2, Typing
      <4> QED BY <2>7, <4>1, <4>2
    <3> QED BY <3>1, <3>2
  <2>8. b \notin datablock_freelist'
    <3>1. CASE woffset = 0
      BY <2>5, <3>1
    <3>2. CASE woffset # 0
      <4>1. Apart(t, t, wblock_idx, wblock_idx)
        BY <1>0, <2>1, <2>3
      <4> QED BY <2>2, <2>3, <2>4, <2>5, <3>2, <4>1, Typing
    <3> QED BY <3>1, <3>2
  <2>9. ASSUME NEW i \in Inodes, NEW j \in Inodes,
               NEW k \in FileBlocks, NEW l \in FileBlocks
        PROVE  Apart(i, j, k, l)'
    <3>1. CASE i = t /\ k = wblock_idx
      BY <2>6, <2>7, <2>8, <3>1
    <3>2. CASE ~ (i = t /\ k = wblock_idx)
      <4>1. Apart(i, j, k, l) /\ Node(i).direct_blocks[k] # b
        BY <1>0, <2>1, <2>7, <3>2
      <4>2. datablock_freelist' \subseteq datablock_freelist
        BY <2>5
      <4> QED BY <2>6, <3>2, <4>1, <4>2
    <3> QED BY <3>1, <3>2
  <2> QED BY <1>0, <1>a, <2>1, <2>9
<1>12. CASE WriteEnd
  <2>1. program = "writing" /\ program' = "idle" /\ UNCHANGED datablock_freelist
        /\ inode' = [inode EXCEPT ![InodeOf(write.handle)] = write.node]
    BY <1>12 DEF WriteEnd
  <2>2. \A i \in Inodes : Node(i)' = Node(i)
    BY <2>1 DEF Node, TypeOK
  <2> QED BY <1>1, <2>1, <2>2
<1> QED BY <1>2, <1>3, <1>4, <1>5, <1>6, <1>7, <1>8, <1>9, <1>10, <1>11, <1>12 DEF Next

-----------------------------------------------------------------------------
(* Every step keeps AppendsFit.  An overrun needs a full file, and what    *)
(* the write copied before it counts in the check of the offset.           *)
LEMMA AppendsStep == IInv /\ [Next]_vars => AppendsFit'
<1> SUFFICES ASSUME IInv, [Next]_vars, program' = "overrun"
             PROVE  (OffsetOf(write.handle) < inode[InodeOf(write.handle)].file_size)'
  BY DEF AppendsFit
<1> USE DEF IInv
<1>1. CASE UNCHANGED vars
  BY <1>1 DEF vars, disk, AppendsFit, OffsetOf, InodeOf
<1>2. CASE WriteOverruns
  <2>1. /\ program = "writing" /\ BytesLeft > 0 /\ wblock_idx \notin FileBlocks
        /\ UNCHANGED <<inode, file_handle_array, write>>
    BY <1>2 DEF WriteOverruns
  <2>2. /\ wblock_idx \in Nat /\ woffset \in Nat
        /\ write.node.file_size = Start(wblock_idx) + woffset
    BY <2>1, WritePosition
  <2> HIDE DEF wblock_idx, woffset
  <2>3. wblock_idx >= MAX_FILE_SIZE
    BY <2>1, <2>2, Sizes DEF FileBlocks
  <2>4. MaxBytes <= Start(wblock_idx) /\ Start(wblock_idx) \in Int /\ MaxBytes \in Nat
    <3>1. MaxBytes = Start(MAX_FILE_SIZE) /\ MaxBytes \in Nat /\ Start(wblock_idx) \in Int
      BY <2>2, Starts
    <3>2. CASE wblock_idx = MAX_FILE_SIZE
      BY <3>1, <3>2
    <3>3. CASE MAX_FILE_SIZE < wblock_idx
      <4>1. Start(MAX_FILE_SIZE) + BLOCKSIZE <= Start(wblock_idx)
        BY <2>2, <3>3, Starts, Sizes
      <4> QED BY <3>1, <4>1, Sizes
    <3> QED BY <2>2, <2>3, <3>2, <3>3, Sizes
  <2>5. /\ write.node.file_size = Target.file_size + write.copied
        /\ OffsetOf(write.handle) + Len(write.data) <= MaxBytes
    BY <2>1 DEF WriteInv, CopyAhead, HandleOpen, CanWrite, MaxBytes
  <2>6. /\ write.copied \in Nat /\ Len(write.data) \in Nat /\ write.copied < Len(write.data)
        /\ OffsetOf(write.handle) \in Nat /\ Target.file_size \in Nat
    BY <2>1, Typing, Writing DEF BytesLeft
  <2>7. OffsetOf(write.handle) < Target.file_size
    BY <2>2, <2>4, <2>5, <2>6
  <2> QED BY <2>1, <2>7 DEF Target, OffsetOf, InodeOf
<1>3. ASSUME NEW f, simplefs_delete(f) PROVE FALSE
  BY <1>3, DeletedInode
<1> QED BY <1>1, <1>2, <1>3 DEF Next, simplefs_create, simplefs_open,
  simplefs_close, simplefs_seek, WriteBegin, WriteFails, WriteBlock, WriteEnd

LEMMA InitIInv == Init => IInv
<1> SUFFICES ASSUME Init PROVE IInv
  OBVIOUS
<1>1. TypeOK
  BY InitType
<1>2. \A i \in Inodes : /\ inode[i].file_size = 0
                        /\ \A k \in FileBlocks : inode[i].direct_blocks[k] = -1
  BY DEF Init, simplefs_formatDisk, FormattedInode
<1>3. DiskInv
  BY <1>2, FormattedFile DEF DiskInv
<1>4. program = "idle"
  BY DEF Init
<1>5. BlocksExclusive
  BY <1>2, <1>4 DEF BlocksExclusive, Node
<1> QED BY <1>1, <1>3, <1>4, <1>5 DEF IInv, WriteInv, AppendsFit

LEMMA NextIInv == IInv /\ [Next]_vars => IInv'
BY TypeStep, DiskStep, WriteStep, ExclusiveStep, AppendsStep DEF IInv

LEMMA Inductive == Spec => []IInv
BY InitIInv, NextIInv, PTL DEF Spec

(* Every variable keeps its type: numbers of inodes and blocks stay on the *)
(* disk, and sizes and offsets are never negative.                         *)
THEOREM TypeCorrect == Spec => []TypeOK
<1>1. IInv => TypeOK
  BY DEF IInv
<1> QED BY <1>1, Inductive, PTL

(* No block belongs to two files or to a file and the free list, so that   *)
(* the assertion of simplefs_freeDataBlock never fails.                    *)
THEOREM BlocksCorrect == Spec => []BlocksExclusive
<1>1. IInv => BlocksExclusive
  BY DEF IInv
<1> QED BY <1>1, Inductive, PTL

(* direct_blocks is overrun only through a handle that stands before the   *)
(* end of its file.                                                        *)
THEOREM AppendsCorrect == Spec => []AppendsFit
<1>1. IInv => AppendsFit
  BY DEF IInv
<1> QED BY <1>1, Inductive, PTL

(* A position in a file lies in one of its blocks. *)
LEMMA PositionInFile ==
  ASSUME NEW size \in Nat, size <= MaxBytes, NEW p \in 0 .. size - 1
  PROVE  /\ p \div BLOCKSIZE \in FileBlocks /\ p % BLOCKSIZE \in Cells
         /\ p = Start(p \div BLOCKSIZE) + (p % BLOCKSIZE)
<1> DEFINE q == p \div BLOCKSIZE
           r == p % BLOCKSIZE
<1>1. q \in Nat /\ r \in Cells /\ p = Start(q) + r
  BY Positions
<1> HIDE DEF q, r
<1>2. q < MAX_FILE_SIZE
  <2>1. Start(q) < Start(MAX_FILE_SIZE) /\ Start(q) \in Int /\ Start(MAX_FILE_SIZE) \in Int
    BY <1>1, Starts DEF Cells
  <2>2. CASE MAX_FILE_SIZE < q
    <3>1. Start(MAX_FILE_SIZE) + BLOCKSIZE <= Start(q)
      BY <1>1, <2>2, Starts, Sizes
    <3> QED BY <2>1, <3>1, Sizes
  <2>3. CASE MAX_FILE_SIZE = q
    BY <2>1, <2>3
  <2> QED BY <1>1, <2>2, <2>3, Sizes
<1>3. q \in FileBlocks /\ r \in Cells /\ p = Start(q) + r
  BY <1>1, <1>2, Sizes DEF FileBlocks
<1> QED BY <1>3, Zenon DEF q, r

(* A file has the blocks its size needs, and a read returns only bytes     *)
(* that were written, whatever writes failed and whatever the buffers of   *)
(* simplefs_write held.                                                    *)
THEOREM FilesCorrect == Spec => []FilesIntact
<1>1. IInv => FilesIntact
  <2> SUFFICES ASSUME IInv PROVE FilesIntact
    OBVIOUS
  <2> USE DEF IInv
  <2>1. BlocksMatchSize
    <3>1. \A i \in Inodes : Sized(Node(i))
      BY DEF DiskInv, WriteInv, Node
    <3> QED BY <3>1 DEF BlocksMatchSize, Sized, Start
  <2>2. ASSUME NEW h \in OpenHandles, NEW n \in 1 .. MaxBytes, NEW k \in 1 .. n, CanRead(h, n)
        PROVE  simplefs_read(h, n)[k] \in Bytes
    <3> DEFINE node == inode[InodeOf(h)]
               p == OffsetOf(h) + k - 1
    <3>1. /\ node.file_size \in Nat /\ node.file_size <= MaxBytes
          /\ Written(node) /\ OffsetOf(h) \in Nat /\ MaxBytes \in Nat
      BY Typing, Starts DEF DiskInv, Sized
    <3>2. p \in 0 .. node.file_size - 1
      BY <2>2, <3>1 DEF CanRead
    <3>3. simplefs_read(h, n)[k] = ByteAt(node, p)
      BY <3>1 DEF simplefs_read
    <3> HIDE DEF p, node
    <3>4. block[node.direct_blocks[p \div BLOCKSIZE]][p % BLOCKSIZE] \in Bytes
      <4>1. /\ p \div BLOCKSIZE \in FileBlocks /\ p % BLOCKSIZE \in Cells
            /\ p = Start(p \div BLOCKSIZE) + (p % BLOCKSIZE)
        BY <3>1, <3>2, PositionInFile
      <4> DEFINE q == p \div BLOCKSIZE
                 r == p % BLOCKSIZE
      <4>2. q \in FileBlocks /\ r \in Cells /\ p = Start(q) + r
        BY <4>1
      <4> HIDE DEF q, r
      <4>3. Start(q) + r < node.file_size
        BY <3>1, <3>2, <4>2
      <4>4. block[node.direct_blocks[q]][r] \in Bytes
        BY <3>1, <4>2, <4>3 DEF Written
      <4> QED BY <4>4, Zenon DEF q, r
    <3> QED BY <3>3, <3>4, Zenon DEF ByteAt
  <2>3. ReadsWrittenBytes
    BY <2>2 DEF ReadsWrittenBytes
  <2> QED BY <2>1, <2>3 DEF FilesIntact
<1> QED BY <1>1, Inductive, PTL

-----------------------------------------------------------------------------
(* Which blocks are lost, before a step and after it. *)
InUse(b) == \E i \in Inodes, k \in FileBlocks : Node(i).direct_blocks[k] = b

LEMMA OrphansAre ==
  /\ Orphans = {b \in Blocks : b \notin datablock_freelist /\ ~ InUse(b)}
  /\ Orphans' = {b \in Blocks : b \notin datablock_freelist' /\ ~ InUse(b)'}
<1>1. -1 \notin Blocks
  BY Sizes DEF Blocks
<1>2. \A b \in Blocks : b \in UNION {BlocksOf(Node(i)) : i \in Inodes} <=> InUse(b)
  BY <1>1 DEF BlocksOf, InUse
<1>3. \A b \in Blocks : b \in UNION {BlocksOf(Node(i)') : i \in Inodes} <=> InUse(b)'
  BY <1>1 DEF BlocksOf, InUse
<1>4. Orphans = {b \in Blocks : b \notin datablock_freelist /\ ~ InUse(b)}
  BY <1>2 DEF Orphans
<1>5. Orphans' = {b \in Blocks : b \notin datablock_freelist' /\ ~ InUse(b)'}
  BY <1>3 DEF Orphans
<1> QED BY <1>4, <1>5

LEMMA LeakStep ==
  IInv /\ [Next]_vars => WriteFails \/ WriteOverruns \/ Orphans' \subseteq Orphans
<1> SUFFICES ASSUME IInv, [Next]_vars, ~ WriteFails, ~ WriteOverruns
             PROVE  Orphans' \subseteq Orphans
  OBVIOUS
<1> USE DEF IInv
<1>a. ASSUME \A b \in Blocks : b \in datablock_freelist => b \in datablock_freelist' \/ InUse(b)',
             \A i \in Inodes, k \in FileBlocks : Node(i).direct_blocks[k] # -1 =>
               \/ Node(i).direct_blocks[k] \in datablock_freelist'
               \/ Node(i)'.direct_blocks[k] = Node(i).direct_blocks[k]
      PROVE  Orphans' \subseteq Orphans
  <2>1. ASSUME NEW b \in Blocks, InUse(b) PROVE b \in datablock_freelist' \/ InUse(b)'
    <3>1. PICK i \in Inodes, k \in FileBlocks : Node(i).direct_blocks[k] = b
      BY <2>1 DEF InUse
    <3>2. b # -1
      BY Typing
    <3>3. b \in datablock_freelist' \/ Node(i)'.direct_blocks[k] = b
      BY <1>a, <3>1, <3>2
    <3> QED BY <3>3 DEF InUse
  <2> QED BY <1>a, <2>1, OrphansAre
<1>b. ASSUME datablock_freelist' = datablock_freelist,
             \A i \in Inodes : Node(i)'.direct_blocks = Node(i).direct_blocks
      PROVE  Orphans' \subseteq Orphans
  BY <1>a, <1>b
<1>1. CASE UNCHANGED vars
  BY <1>1, <1>b DEF vars, disk, Node, InodeOf
<1>2. ASSUME NEW f \in Names, simplefs_create(f) PROVE Orphans' \subseteq Orphans
  <2>1. \A i \in Inodes : inode'[i].direct_blocks = inode[i].direct_blocks
    BY <1>2 DEF simplefs_create, TypeOK, InodeType
  <2> QED BY <1>2, <1>b, <2>1 DEF simplefs_create, Node
<1>3. ASSUME NEW f \in Names, simplefs_delete(f) PROVE Orphans' \subseteq Orphans
  <2> DEFINE d == get_inode_num(f)
  <2>1. /\ d \in Inodes /\ program = "idle" /\ program' # "writing"
        /\ datablock_freelist' = datablock_freelist \cup BlocksOf(inode[d])
        /\ \A i \in Inodes \ {d} : inode'[i] = inode[i]
    <3>1. d \in Inodes /\ program = "idle" /\ program' = AfterDelete(d)
      BY <1>3, NamedInode DEF simplefs_delete
    <3>2. program' # "writing"
      BY <3>1 DEF AfterDelete
    <3>3. datablock_freelist' = datablock_freelist \cup BlocksOf(inode[d])
      BY <1>3 DEF simplefs_delete, FreedBlocks
    <3>4. \A i \in Inodes \ {d} : inode'[i] = inode[i]
      BY <1>3, DeletedInode DEF TypeOK
    <3> HIDE DEF d
    <3> QED BY <3>1, <3>2, <3>3, <3>4
  <2>2. \A i \in Inodes : Node(i) = inode[i] /\ Node(i)' = inode'[i]
    BY <2>1 DEF Node
  <2> HIDE DEF d
  <2>3. ASSUME NEW i \in Inodes, NEW k \in FileBlocks, Node(i).direct_blocks[k] # -1
        PROVE  \/ Node(i).direct_blocks[k] \in datablock_freelist'
               \/ Node(i)'.direct_blocks[k] = Node(i).direct_blocks[k]
    BY <2>1, <2>2, <2>3 DEF BlocksOf
  <2> QED BY <1>a, <2>1, <2>3
<1>4. ASSUME NEW f \in Names, simplefs_open(f) PROVE Orphans' \subseteq Orphans
  BY <1>4, <1>b DEF simplefs_open, disk, Node
<1>5. ASSUME NEW h \in Handles, simplefs_close(h) PROVE Orphans' \subseteq Orphans
  BY <1>5, <1>b DEF simplefs_close, disk, Node
<1>6. ASSUME NEW h \in Handles, NEW nseek \in -MaxBytes .. MaxBytes, simplefs_seek(h, nseek)
      PROVE  Orphans' \subseteq Orphans
  BY <1>6, <1>b DEF simplefs_seek, disk, Node
<1>7. ASSUME NEW h \in Handles, NEW data \in WriteData, WriteBegin(h, data)
      PROVE  Orphans' \subseteq Orphans
  <2>1. \A i \in Inodes : Node(i)' = inode[i] /\ Node(i) = inode[i]
    BY <1>7 DEF WriteBegin, disk, Node, InodeOf
  <2> QED BY <1>7, <1>b, <2>1 DEF WriteBegin, disk
<1>8. CASE WriteBlock
  <2> DEFINE b == NodeWithBlock.direct_blocks[wblock_idx]
             t == InodeOf(write.handle)
  <2>1. /\ program = "writing" /\ wblock_idx \in FileBlocks /\ program' = program
        /\ datablock_freelist' = Allocated /\ t \in Inodes
        /\ UNCHANGED <<inode, file_handle_array>>
    BY <1>8, Writing DEF WriteBlock
  <2>2. /\ write'.handle = write.handle
        /\ \A k \in FileBlocks \ {wblock_idx} :
             write'.node.direct_blocks[k] = write.node.direct_blocks[k]
        /\ write'.node.direct_blocks[wblock_idx] = b
        /\ woffset # 0 => b = write.node.direct_blocks[wblock_idx]
        /\ woffset = 0 => write.node.direct_blocks[wblock_idx] = -1
    BY <1>8, Iteration
  <2>3. datablock_freelist' = IF woffset = 0 THEN datablock_freelist \ {b}
                              ELSE datablock_freelist
    BY <1>8, <2>1, NodeWithBlockType DEF Allocated, WriteBlock
  <2>4. \A i \in Inodes : /\ Node(i)' = IF i = t THEN write'.node ELSE inode[i]
                          /\ Node(i) = IF i = t THEN write.node ELSE inode[i]
    BY <2>1, <2>2 DEF Node, InodeOf
  <2> HIDE DEF b, t, woffset, wblock_idx
  <2>5. ASSUME NEW x \in Blocks, x = b PROVE InUse(x)'
    <3>1. \A i \in Inodes : i = t => Node(i)'.direct_blocks[wblock_idx] = x
      BY <2>2, <2>4, <2>5
    <3>2. \E i \in Inodes, k \in FileBlocks : Node(i)'.direct_blocks[k] = x
      BY <2>1, <3>1
    <3> QED BY <3>2 DEF InUse
  <2>6. \A x \in Blocks : x \in datablock_freelist => x \in datablock_freelist' \/ InUse(x)'
    BY <2>3, <2>5
  <2>7. ASSUME NEW i \in Inodes, NEW k \in FileBlocks, Node(i).direct_blocks[k] # -1
        PROVE  Node(i)'.direct_blocks[k] = Node(i).direct_blocks[k]
    BY <2>2, <2>4, <2>7
  <2> QED BY <1>a, <2>6, <2>7
<1>9. CASE WriteEnd
  <2>1. program = "writing" /\ program' = "idle" /\ UNCHANGED datablock_freelist
        /\ inode' = [inode EXCEPT ![InodeOf(write.handle)] = write.node]
    BY <1>9 DEF WriteEnd
  <2>2. \A i \in Inodes : Node(i)' = Node(i)
    BY <2>1 DEF Node, TypeOK
  <2> QED BY <1>b, <2>1, <2>2
<1> QED BY <1>1, <1>2, <1>3, <1>4, <1>5, <1>6, <1>7, <1>8, <1>9 DEF Next

(* A block is lost only in a write that runs out of blocks (simplefs_write *)
(* then returns without giving back the ones it took) or overruns.         *)
THEOREM LeaksCorrect == Spec => OnlyFailedWritesLeak
<1>1. IInv /\ [Next]_vars => [WriteFails \/ WriteOverruns \/ Orphans' \subseteq Orphans]_vars
  BY LeakStep
<1> QED BY <1>1, Inductive, PTL DEF Spec, OnlyFailedWritesLeak

-----------------------------------------------------------------------------
(* The first inode with a name is inode i when it has the name and no      *)
(* inode before it does.                                                   *)
LEMMA FirstOfName ==
  ASSUME NEW files, NEW f, NEW i \in Inodes, files[i].name = f
  PROVE  FirstOf({j \in Inodes : files[j].name = f}) = i
           <=> \A j \in Inodes : files[j].name = f => i <= j
<1> DEFINE S == {j \in Inodes : files[j].name = f}
<1>1. S \in SUBSET (0 .. NUM_INODES - 1) /\ S # {}
  BY DEF Inodes
<1>2. FirstOf(S) \in S /\ \A y \in S : FirstOf(S) <= y
  <2> HIDE DEF S
  <2> QED BY <1>1, FirstIsLeast, Sizes
<1> QED BY <1>2, Sizes DEF Inodes

(* Whether files are found, before a step and after it. *)
LEMMA FilesFound ==
  /\ LiveFilesFound <=> \A i \in Live, j \in Inodes :
                         inode[j].name = inode[i].name => i <= j
  /\ LiveFilesFound' <=> \A i \in Live', j \in Inodes :
                          inode'[j].name = inode'[i].name => i <= j
<1>1. ASSUME NEW i \in Inodes
      PROVE  get_inode_num(inode[i].name) = i
               <=> \A j \in Inodes : inode[j].name = inode[i].name => i <= j
  BY FirstOfName DEF get_inode_num, InodesNamed
<1>2. ASSUME NEW i \in Inodes
      PROVE  get_inode_num(inode[i].name)' = i
               <=> \A j \in Inodes : inode'[j].name = inode'[i].name => i <= j
  BY FirstOfName DEF get_inode_num, InodesNamed
<1>3. LiveFilesFound <=> \A i \in Live : get_inode_num(inode[i].name) = i
  BY DEF LiveFilesFound
<1>4. LiveFilesFound' <=> \A i \in Live' : get_inode_num(inode[i].name)' = i
  BY DEF LiveFilesFound
<1>5. Live \subseteq Inodes /\ Live' \subseteq Inodes
  BY DEF Live
<1> QED BY <1>1, <1>2, <1>3, <1>4, <1>5

(* Only create changes a name. *)
LEMMA NamesKept ==
  ASSUME IInv, Next, \A f \in Names : ~ simplefs_create(f)
  PROVE  /\ \A i \in Inodes : inode'[i].name = inode[i].name
         /\ inode_freelist \subseteq inode_freelist'
<1> USE DEF IInv
<1>1. ASSUME NEW f \in Names, simplefs_delete(f)
      PROVE  /\ \A i \in Inodes : inode'[i].name = inode[i].name
             /\ inode_freelist \subseteq inode_freelist'
  <2>1. \A i \in Inodes : inode'[i] \in {inode[i], Freed(inode[i])}
    BY <1>1, DeletedInode DEF TypeOK
  <2>2. \A i \in Inodes : inode'[i].name = inode[i].name
    BY <2>1, FreedFile
  <2> QED BY <1>1, <2>2 DEF simplefs_delete, DeleteInode
<1>2. CASE WriteEnd
  <2>1. /\ program = "writing" /\ UNCHANGED inode_freelist
        /\ inode' = [inode EXCEPT ![InodeOf(write.handle)] = write.node]
        /\ write.node.name = inode[InodeOf(write.handle)].name
    BY <1>2 DEF WriteEnd, WriteInv, CopyAhead, Target
  <2> QED BY <2>1 DEF TypeOK
<1>3. CASE UNCHANGED <<inode, inode_freelist>>
  BY <1>3
<1> QED BY <1>1, <1>2, <1>3 DEF Next, disk, simplefs_open, simplefs_close, simplefs_seek,
  WriteBegin, WriteFails, WriteOverruns, WriteBlock

LEMMA StaleNamesStep ==
  IInv /\ [Next]_vars => (UniqueNames /\ UniqueNames' /\ LiveFilesFound => LiveFilesFound')
<1> SUFFICES ASSUME IInv, [Next]_vars, UniqueNames', LiveFilesFound PROVE LiveFilesFound'
  OBVIOUS
<1> USE DEF IInv
<1>1. CASE UNCHANGED vars
  BY <1>1, FilesFound DEF vars, disk, Live
<1>2. CASE Next /\ \A f \in Names : ~ simplefs_create(f)
  <2>1. /\ \A i \in Inodes : inode'[i].name = inode[i].name
        /\ inode_freelist \subseteq inode_freelist'
    BY <1>2, NamesKept
  <2>2. Live' \subseteq Live /\ Live \subseteq Inodes
    BY <2>1 DEF Live
  <2> QED BY <2>1, <2>2, FilesFound
<1>3. ASSUME NEW f \in Names, simplefs_create(f) PROVE LiveFilesFound'
  <2> DEFINE n == FreeInode
  <2>1. /\ n \in inode_freelist /\ n \in Inodes
        /\ \A i \in inode_freelist : n <= i
        /\ Live' = Live \cup {n} /\ Live \subseteq Inodes
    BY <1>3, FirstFree DEF simplefs_create, TypeOK, Live
  <2>2. /\ inode'[n].name = f
        /\ \A i \in Inodes \ {n} : inode'[i].name = inode[i].name
    BY <1>3, <2>1 DEF simplefs_create, TypeOK, InodeType
  <2> HIDE DEF n
  <2>3. \A i, j \in Live' : inode'[i].name = inode'[j].name => i = j
    BY DEF UniqueNames
  <2>4. n \notin Live
    BY <2>1 DEF Live
  <2>5. ASSUME NEW i \in Live', NEW j \in Inodes, inode'[j].name = inode'[i].name
        PROVE  i <= j
    <3>1. CASE i = n
      <4>1. CASE j \in Live'
        BY <2>1, <2>3, <2>5, <4>1 DEF Inodes
      <4>2. CASE j \notin Live'
        <5>1. j \in inode_freelist
          BY <2>1, <4>2 DEF Live
        <5> QED BY <2>1, <3>1, <5>1
      <4> QED BY <4>1, <4>2
    <3>2. CASE i # n /\ j = n
      BY <2>1, <2>3, <2>5, <3>2
    <3>3. CASE i # n /\ j # n
      <4>1. i \in Live /\ inode[j].name = inode[i].name
        BY <2>1, <2>2, <2>5, <3>3
      <4> QED BY <4>1, FilesFound
    <3> QED BY <3>1, <3>2, <3>3
  <2> QED BY <2>5, FilesFound
<1> QED BY <1>1, <1>2, <1>3

(* As long as no name is created twice, the names that deleted inodes keep *)
(* never hide a file, because simplefs_allocInode takes the first free     *)
(* inode.                                                                  *)
THEOREM NamesCorrect == Spec => StaleNamesHarmless
<1>1. IInv /\ [Next]_vars =>
        [UniqueNames /\ UniqueNames' /\ LiveFilesFound => LiveFilesFound']_vars
  BY StaleNamesStep
<1> QED BY <1>1, Inductive, PTL DEF Spec, StaleNamesHarmless

-----------------------------------------------------------------------------
(* The refinement of FileStore.  BytesOf is the content of a file on a     *)
(* given set of blocks.                                                    *)
BytesOf(node, blocks) ==
  [p \in 1 .. node.file_size |->
     blocks[node.direct_blocks[(p - 1) \div BLOCKSIZE]][(p - 1) % BLOCKSIZE]]

LEMMA ContentIs ==
  /\ \A i \in Inodes : Content(i) = BytesOf(inode[i], block)
  /\ \A i \in Inodes : Content(i)' = BytesOf(inode'[i], block')
BY Zenon DEF Content, ByteAt, BytesOf

(* Each byte of a file has a block and a cell. *)
LEMMA ByteHasCell ==
  ASSUME NEW node, node.file_size \in Nat, node.file_size <= MaxBytes,
         NEW blocks, NEW p \in 1 .. node.file_size
  PROVE  \E k \in FileBlocks, c \in Cells :
           /\ p = Start(k) + c + 1
           /\ BytesOf(node, blocks)[p] = blocks[node.direct_blocks[k]][c]
<1> DEFINE q == (p - 1) \div BLOCKSIZE
           r == (p - 1) % BLOCKSIZE
<1>1. p - 1 \in 0 .. node.file_size - 1
  OBVIOUS
<1>2. q \in FileBlocks /\ r \in Cells /\ p - 1 = Start(q) + r
  BY <1>1, PositionInFile
<1>3. BytesOf(node, blocks)[p] = blocks[node.direct_blocks[q]][r]
  BY Zenon DEF BytesOf
<1> HIDE DEF q, r
<1>4. Start(q) \in Int /\ r \in Int
  BY <1>2, Starts DEF FileBlocks, Cells
<1>5. p = Start(q) + r + 1
  BY <1>2, <1>4
<1> QED BY <1>2, <1>3, <1>5

LEMMA SameBytes ==
  ASSUME NEW node, NEW other, NEW blocks, NEW others,
         node.file_size \in Nat, node.file_size <= MaxBytes,
         other.file_size = node.file_size,
         other.direct_blocks = node.direct_blocks,
         \A k \in FileBlocks, c \in Cells : Start(k) + c < node.file_size =>
           others[node.direct_blocks[k]][c] = blocks[node.direct_blocks[k]][c]
  PROVE  BytesOf(other, others) = BytesOf(node, blocks)
<1>1. ASSUME NEW p \in 1 .. node.file_size
      PROVE  BytesOf(other, others)[p] = BytesOf(node, blocks)[p]
  <2> DEFINE q == (p - 1) \div BLOCKSIZE
             r == (p - 1) % BLOCKSIZE
  <2>1. p - 1 \in 0 .. node.file_size - 1
    OBVIOUS
  <2>2. q \in FileBlocks /\ r \in Cells /\ p - 1 = Start(q) + r
    BY <2>1, PositionInFile
  <2>3. /\ BytesOf(node, blocks)[p] = blocks[node.direct_blocks[q]][r]
        /\ BytesOf(other, others)[p] = others[node.direct_blocks[q]][r]
    BY Zenon DEF BytesOf
  <2> HIDE DEF q, r
  <2> QED BY <2>1, <2>2, <2>3
<1>2. /\ BytesOf(node, blocks) = [p \in 1 .. node.file_size |-> BytesOf(node, blocks)[p]]
      /\ BytesOf(other, others) = [p \in 1 .. node.file_size |-> BytesOf(other, others)[p]]
  BY Zenon DEF BytesOf
<1> QED BY <1>1, <1>2

LEMMA FunctionIsSequence ==
  ASSUME NEW n \in Nat, NEW S, NEW f \in [1 .. n -> S]
  PROVE  f \in Seq(S) /\ Len(f) = n
OBVIOUS

(* The content of a file of which every byte was written. *)
LEMMA ContentIsSequence ==
  ASSUME NEW node, node.file_size \in Nat, node.file_size <= MaxBytes, Written(node)
  PROVE  /\ BytesOf(node, block) \in Seq(Bytes)
         /\ Len(BytesOf(node, block)) = node.file_size
<1>1. ASSUME NEW p \in 1 .. node.file_size PROVE BytesOf(node, block)[p] \in Bytes
  <2>1. PICK k \in FileBlocks, c \in Cells :
          /\ p = Start(k) + c + 1
          /\ BytesOf(node, block)[p] = block[node.direct_blocks[k]][c]
    BY ByteHasCell
  <2>2. Start(k) \in Int /\ c \in Int
    BY Starts DEF FileBlocks, Cells
  <2>3. Start(k) + c < node.file_size
    BY <2>1, <2>2
  <2> QED BY <2>1, <2>3 DEF Written
<1>2. BytesOf(node, block) = [p \in 1 .. node.file_size |-> BytesOf(node, block)[p]]
  BY Zenon DEF BytesOf
<1>3. BytesOf(node, block) \in [1 .. node.file_size -> Bytes]
  BY <1>1, <1>2
<1> QED BY <1>3, FunctionIsSequence

LEMMA EmptyContent ==
  ASSUME NEW node, node.file_size = 0, NEW blocks
  PROVE  BytesOf(node, blocks) = <<>>
BY DEF BytesOf

(* The end of a write appends its data to the file. *)
LEMMA WriteAppends ==
  ASSUME IInv, WriteEnd
  PROVE  BytesOf(write.node, block) = BytesOf(Target, block) \o write.data
<1> USE DEF IInv
<1>1. /\ program = "writing" /\ InodeOf(write.handle) \in Inodes
      /\ Target.file_size \in Nat /\ write.node.file_size \in Nat
      /\ HandleOpen /\ CopyAhead /\ Sized(write.node) /\ DataStored
      /\ Sized(Target) /\ Written(Target)
  BY Writing, Typing DEF WriteEnd, WriteInv, DiskInv, Target
<1>2. write.data \in Seq(Bytes) /\ Len(write.data) \in Nat
  BY Typing DEF TypeOK
<1>3. write.node.file_size = Target.file_size + Len(write.data)
  <2>1. write.copied = Len(write.data)
    BY Typing DEF WriteEnd, BytesLeft
  <2> QED BY <1>1, <2>1 DEF CopyAhead
<1>4. /\ write.node.file_size <= MaxBytes /\ Target.file_size <= MaxBytes
  BY <1>1 DEF Sized
<1> DEFINE old == BytesOf(Target, block)
           new == BytesOf(write.node, block)
           data == write.data
<1>5. old \in Seq(Bytes) /\ Len(old) = Target.file_size
  BY <1>1, <1>4, ContentIsSequence
<1>6. ASSUME NEW p \in 1 .. write.node.file_size
      PROVE  new[p] = IF p <= Target.file_size THEN old[p] ELSE data[p - Target.file_size]
  <2>0. write.node.file_size \in Nat /\ write.node.file_size <= MaxBytes
    BY <1>1, <1>4
  <2>1. PICK k \in FileBlocks, c \in Cells :
          /\ p = Start(k) + c + 1
          /\ BytesOf(write.node, block)[p] = block[write.node.direct_blocks[k]][c]
    BY <2>0, ByteHasCell
  <2>2. Start(k) \in Nat /\ c \in Nat /\ k \in Nat
    BY Starts DEF FileBlocks, Cells
  <2>3. CASE p <= Target.file_size
    <3>1. old[p] = block[Target.direct_blocks[k]][c]
      <4> DEFINE q == (p - 1) \div BLOCKSIZE
                 r == (p - 1) % BLOCKSIZE
      <4>1. p - 1 \in 0 .. Target.file_size - 1
        BY <1>1, <2>3
      <4>2. q \in FileBlocks /\ r \in Cells /\ p - 1 = Start(q) + r
        BY <1>1, <1>4, <4>1, PositionInFile
      <4>3. p \in 1 .. Target.file_size => old[p] = block[Target.direct_blocks[q]][r]
        BY Zenon DEF BytesOf
      <4> HIDE DEF q, r, old
      <4>4. q \in Nat /\ Start(q) \in Int /\ r \in Int
        BY <4>2, Starts DEF FileBlocks, Cells
      <4>5. Start(q) + r = Start(k) + c
        BY <2>1, <2>2, <4>2, <4>4
      <4>6. q = k /\ r = c
        BY <2>1, <2>2, <4>2, <4>4, <4>5, UniqueCell
      <4> QED BY <2>3, <4>3, <4>6
    <3>2. Target.direct_blocks[k] # -1
      <4>1. Start(k) < Target.file_size
        BY <1>1, <2>1, <2>2, <2>3
      <4> QED BY <1>1, <4>1 DEF Sized
    <3>3. write.node.direct_blocks[k] = Target.direct_blocks[k]
      BY <1>1, <3>2 DEF CopyAhead
    <3> QED BY <2>1, <2>3, <3>1, <3>3
  <2>4. CASE p > Target.file_size
    <3>1. Start(k) + c \in Target.file_size .. write.node.file_size - 1
      BY <1>1, <2>1, <2>2, <2>4
    <3>2. new[p] = data[Start(k) + c - Target.file_size + 1]
      BY <1>1, <2>1, <3>1 DEF DataStored
    <3>3. Start(k) + c - Target.file_size + 1 = p - Target.file_size
      BY <1>1, <2>1, <2>2
    <3> QED BY <1>1, <2>4, <3>2, <3>3
  <2> QED BY <1>1, <2>3, <2>4
<1>7. /\ old \o data \in Seq(Bytes)
      /\ Len(old \o data) = write.node.file_size
      /\ \A p \in 1 .. write.node.file_size :
           (old \o data)[p] = IF p <= Target.file_size THEN old[p] ELSE data[p - Target.file_size]
  <2> HIDE DEF old
  <2> QED BY <1>2, <1>3, <1>5, ConcatProperties
<1>8. new \in [1 .. write.node.file_size -> Bytes]
  <2>1. ASSUME NEW p \in 1 .. write.node.file_size PROVE new[p] \in Bytes
    <3>1. (old \o data)[p] \in Bytes
      <4> HIDE DEF old
      <4> QED BY <1>7, ElementOfSeq
    <3> HIDE DEF old, new
    <3> QED BY <1>6, <1>7, <3>1
  <2>2. new = [p \in 1 .. write.node.file_size |-> new[p]]
    BY Zenon DEF BytesOf
  <2> HIDE DEF new
  <2> QED BY <2>1, <2>2
<1> HIDE DEF old, new
<1>9. new \in Seq(Bytes) /\ Len(new) = write.node.file_size
  BY <1>1, <1>8, FunctionIsSequence
<1>10. \A p \in 1 .. Len(new) : new[p] = (old \o data)[p]
  BY <1>6, <1>7, <1>9
<1>11. new = old \o data
  BY <1>7, <1>9, <1>10, SeqEqual
<1> QED BY <1>11 DEF new, old

(* Writing over what follows the last byte of a file is appending. *)
LEMMA OverwrittenAtEnd ==
  ASSUME NEW bytes \in Seq(Bytes), NEW data \in Seq(Bytes)
  PROVE  Store!Overwritten(bytes, Len(bytes), data) = bytes \o data
<1>1. SubSeq(bytes, 1, Len(bytes)) = bytes
  BY SubSeqFull
<1>2. SubSeq(bytes, Len(bytes) + Len(data) + 1, Len(bytes)) = <<>>
  BY LenProperties, SubSeqEmpty
<1>3. (bytes \o data) \o <<>> = bytes \o data
  BY ConcatProperties, ConcatEmptySeq
<1> QED BY <1>1, <1>2, <1>3 DEF Store!Overwritten

(* The state of the abstract files, by name and content, and the handles. *)
LEMMA StoreUnchanged ==
  ASSUME inode_freelist' = inode_freelist,
         \A i \in Inodes : inode'[i].name = inode[i].name,
         \A i \in Inodes : Content(i)' = Content(i),
         file_handle_array' = file_handle_array
  PROVE  UNCHANGED Store!vars
<1>1. [i \in Inodes |-> inode[i].name]' = [i \in Inodes |-> inode[i].name]
  OBVIOUS
<1>2. [i \in Inodes |-> Content(i)]' = [i \in Inodes |-> Content(i)]
  OBVIOUS
<1> QED BY <1>1, <1>2, Zenon DEF Store!vars

LEMMA StoreInit == Init => Store!Init
<1> SUFFICES ASSUME Init PROVE Store!Init
  OBVIOUS
<1>1. \A i \in Inodes : inode[i].name = NoName /\ inode[i].file_size = 0
  BY DEF Init, simplefs_formatDisk, FormattedInode
<1>2. \A i \in Inodes : Content(i) = <<>>
  BY <1>1, ContentIs, EmptyContent
<1>3. [i \in Inodes |-> inode[i].name] = [i \in Inodes |-> NoName]
  BY <1>1
<1>4. [i \in Inodes |-> Content(i)] = [i \in Inodes |-> <<>>]
  BY <1>2
<1>5. inode_freelist = Inodes
  BY DEF Init, simplefs_formatDisk
<1>6. file_handle_array = [h \in Handles |-> [offset |-> 0, inode_number |-> -1]]
  BY DEF Init, simplefs_formatDisk
<1> QED BY <1>3, <1>4, <1>5, <1>6 DEF Store!Init

(* A step that changes no file and no name, and perhaps a handle. *)
LEMMA FilesUnchanged ==
  ASSUME UNCHANGED <<inode_freelist, inode, block>>
  PROVE  /\ [i \in Inodes |-> Content(i)]' = [i \in Inodes |-> Content(i)]
         /\ [i \in Inodes |-> inode[i].name]' = [i \in Inodes |-> inode[i].name]
<1>1. \A i \in Inodes : Content(i)' = Content(i)
  BY ContentIs
<1> QED BY <1>1

LEMMA OpenRefines ==
  ASSUME TypeOK, NEW f \in Names, simplefs_open(f)
  PROVE  Store!Next
<1> DEFINE n == get_inode_num(f)
           h == FirstOf(Handles \ OpenHandles)
<1>1. /\ n \in Inodes /\ inode[n].name = f /\ \A i \in InodesNamed(f) : n <= i
      /\ h \in Handles \ OpenHandles
      /\ file_handle_array' = [file_handle_array EXCEPT ![h] = [offset |-> 0, inode_number |-> n]]
      /\ UNCHANGED <<inode_freelist, inode, block>>
  BY NamedInode, FirstHandle DEF simplefs_open, disk
<1> HIDE DEF n, h
<1>2. file_handle_array[h].inode_number = -1
  BY <1>1 DEF OpenHandles
<1>3. \A j \in Inodes : inode[j].name = inode[n].name => n <= j
  BY <1>1 DEF InodesNamed
<1>4. Store!Named(n)
  BY <1>1, <1>3 DEF Store!Named
<1>5. Store!Open(h, n)
  BY <1>1, <1>2, <1>4, FilesUnchanged DEF Store!Open, Store!IsOpen
<1> QED BY <1>1, <1>5, Zenon DEF Store!Next

LEMMA CloseRefines ==
  ASSUME NEW h \in Handles, simplefs_close(h)
  PROVE  Store!Next
<1>1. /\ file_handle_array[h].inode_number # -1
      /\ file_handle_array' = [file_handle_array EXCEPT ![h] = [offset |-> 0, inode_number |-> -1]]
      /\ UNCHANGED <<inode_freelist, inode, block>>
  BY DEF simplefs_close, OpenHandles, disk
<1>2. Store!Close(h)
  BY <1>1, FilesUnchanged DEF Store!Close, Store!IsOpen
<1> QED BY <1>2, Zenon DEF Store!Next

LEMMA SeekRefines ==
  ASSUME IInv, NEW h \in Handles, NEW nseek \in -MaxBytes .. MaxBytes,
         simplefs_seek(h, nseek)
  PROVE  Store!Next
<1> USE DEF IInv
<1> DEFINE n == InodeOf(h)
           offset == OffsetOf(h) + nseek
<1>1. /\ h \in OpenHandles /\ n \in Inodes /\ offset \in Offsets(h)
      /\ file_handle_array[h].inode_number # -1
      /\ file_handle_array' = [file_handle_array EXCEPT ![h].offset = @ + nseek]
      /\ UNCHANGED <<inode_freelist, inode, block>>
  BY Typing DEF simplefs_seek, OpenHandles, disk
<1>2. file_handle_array' = [file_handle_array EXCEPT ![h].offset = offset]
  BY <1>1 DEF OffsetOf
<1>3. Len(Content(n)) = inode[n].file_size
  BY <1>1, Typing, ContentIsSequence, ContentIs DEF DiskInv, Sized
<1>4. offset \in 0 .. Len([i \in Inodes |-> Content(i)][file_handle_array[h].inode_number])
  BY <1>1, <1>3 DEF Offsets, InodeOf
<1> HIDE DEF n, offset
<1>5. Store!Seek(h)
  BY <1>1, <1>2, <1>4, FilesUnchanged DEF Store!Seek, Store!IsOpen
<1> QED BY <1>5, Zenon DEF Store!Next

LEMMA StoreStep ==
  IInv /\ [Next]_vars => [Store!Next \/ AppendsElsewhere]_(Store!vars)
<1> SUFFICES ASSUME IInv, [Next]_vars
             PROVE  Store!Next \/ AppendsElsewhere \/ UNCHANGED Store!vars
  OBVIOUS
<1> USE DEF IInv
<1>0. \A i \in Inodes : /\ inode[i].file_size \in Nat /\ inode[i].file_size <= MaxBytes
                        /\ inode[i] \in InodeType
  BY Typing DEF DiskInv, Sized, TypeOK
<1>1. ASSUME UNCHANGED <<inode_freelist, inode, block, file_handle_array>>
      PROVE  UNCHANGED Store!vars
  <2>1. \A i \in Inodes : Content(i)' = Content(i)
    BY <1>1, ContentIs
  <2> QED BY <1>1, <2>1, StoreUnchanged
<1>2. ASSUME NEW f \in Names, simplefs_create(f) PROVE Store!Next
  <2> DEFINE n == FreeInode
  <2>1. n \in Inodes /\ n \in inode_freelist /\ \A j \in inode_freelist : n <= j
    BY <1>2, FirstFree DEF simplefs_create, TypeOK
  <2>2. /\ inode'[n].name = f
        /\ \A i \in Inodes \ {n} : inode'[i].name = inode[i].name
        /\ \A i \in Inodes : /\ inode'[i].file_size = inode[i].file_size
                             /\ inode'[i].direct_blocks = inode[i].direct_blocks
    BY <1>2, <2>1 DEF simplefs_create, TypeOK, InodeType
  <2>3. /\ inode_freelist' = inode_freelist \ {n} /\ UNCHANGED <<block, file_handle_array>>
    BY <1>2 DEF simplefs_create
  <2> HIDE DEF n
  <2>4. \A i \in Inodes : Content(i)' = Content(i)
    BY <1>0, <2>2, <2>3, ContentIs, SameBytes
  <2>5. [i \in Inodes |-> Content(i)]' = [i \in Inodes |-> Content(i)]
    BY <2>4
  <2>6. [i \in Inodes |-> inode[i].name]' = [[i \in Inodes |-> inode[i].name] EXCEPT ![n] = f]
    BY <2>1, <2>2
  <2>7. Store!Create(n, f)
    BY <2>1, <2>3, <2>5, <2>6 DEF Store!Create
  <2> QED BY <2>1, <2>7, Zenon DEF Store!Next
<1>3. ASSUME NEW f \in Names, simplefs_delete(f) PROVE Store!Next \/ UNCHANGED Store!vars
  <2> DEFINE n == get_inode_num(f)
  <2>1. /\ n \in Inodes /\ inode[n].name = f /\ \A i \in InodesNamed(f) : n <= i
        /\ UNCHANGED <<block, file_handle_array>>
        /\ program' = AfterDelete(n) /\ DeleteInode(n)
    BY <1>3, NamedInode DEF simplefs_delete
  <2> HIDE DEF n
  <2>2. CASE AfterDelete(n) # "idle"
    <3>1. UNCHANGED <<inode_freelist, inode, block, file_handle_array>>
      BY <2>1, <2>2 DEF DeleteInode
    <3> QED BY <1>1, <3>1
  <2>3. CASE AfterDelete(n) = "idle"
    <3>1. /\ n \notin inode_freelist
          /\ inode_freelist' = inode_freelist \cup {n}
          /\ inode' = [inode EXCEPT ![n] = Freed(@)]
      BY <2>1, <2>3 DEF AfterDelete, DeleteInode
    <3>2. /\ inode'[n] = Freed(inode[n])
          /\ \A i \in Inodes \ {n} : inode'[i] = inode[i]
      BY <2>1, <3>1 DEF TypeOK
    <3>3. \A i \in Inodes : Content(i)' = IF i = n THEN <<>> ELSE Content(i)
      <4>1. BytesOf(inode'[n], block') = <<>>
        BY <2>1, <3>2, FreedFile, EmptyContent
      <4>2. \A i \in Inodes \ {n} : BytesOf(inode'[i], block') = BytesOf(inode[i], block)
        BY <2>1, <3>2
      <4> QED BY <2>1, <4>1, <4>2, ContentIs
    <3>4. [i \in Inodes |-> Content(i)]' = [[i \in Inodes |-> Content(i)] EXCEPT ![n] = <<>>]
      BY <3>3
    <3>5. \A i \in Inodes : inode'[i].name = inode[i].name
      BY <2>1, <3>2, FreedFile
    <3>6. [i \in Inodes |-> inode[i].name]' = [i \in Inodes |-> inode[i].name]
      BY <3>5
    <3>7. \A j \in Inodes : inode[j].name = inode[n].name => n <= j
      BY <2>1 DEF InodesNamed
    <3>8. Store!Delete(n)
      BY <2>1, <3>1, <3>4, <3>6, <3>7 DEF Store!Delete, Store!Named
    <3> QED BY <2>1, <3>8, Zenon DEF Store!Next
  <2> QED BY <2>2, <2>3
<1>4. CASE WriteBlock
  <2>1. UNCHANGED <<inode_freelist, inode, file_handle_array>>
    BY <1>4 DEF WriteBlock
  <2>2. ASSUME NEW i \in Inodes PROVE Content(i)' = Content(i)
    <3>1. BytesOf(inode'[i], block') = BytesOf(inode[i], block)
      BY <1>0, <1>4, <2>1, DiskBytesKept, SameBytes
    <3> QED BY <3>1, ContentIs
  <2> QED BY <2>1, <2>2, StoreUnchanged
<1>5. CASE WriteEnd
  <2> DEFINE n == InodeOf(write.handle)
  <2>1. /\ program = "writing" /\ n \in Inodes
        /\ UNCHANGED <<inode_freelist, block, file_handle_array>>
        /\ inode' = [inode EXCEPT ![n] = write.node] /\ Target = inode[n]
        /\ write.node.name = inode[n].name /\ write.data \in WriteData
    BY <1>5, Writing DEF WriteEnd, WriteInv, CopyAhead, HandleOpen, Target
  <2> HIDE DEF n
  <2>2. inode'[n] = write.node /\ \A i \in Inodes \ {n} : inode'[i] = inode[i]
    BY <2>1 DEF TypeOK
  <2>3. \A i \in Inodes : Content(i)' = IF i = n THEN Content(i) \o write.data ELSE Content(i)
    <3>1. BytesOf(inode'[n], block') = BytesOf(inode[n], block) \o write.data
      BY <1>5, <2>1, <2>2, WriteAppends
    <3>2. \A i \in Inodes \ {n} : BytesOf(inode'[i], block') = BytesOf(inode[i], block)
      BY <2>1, <2>2
    <3> QED BY <2>1, <3>1, <3>2, ContentIs
  <2>4. [i \in Inodes |-> Content(i)]'
          = [[i \in Inodes |-> Content(i)] EXCEPT ![n] = @ \o write.data]
    BY <2>3
  <2>5. \A i \in Inodes : inode'[i].name = inode[i].name
    BY <2>1, <2>2
  <2>6. [i \in Inodes |-> inode[i].name]' = [i \in Inodes |-> inode[i].name]
    BY <2>5
  <2>7. Store!PutBytes(n, Content(n) \o write.data)
    BY <2>1, <2>4, <2>6 DEF Store!PutBytes
  <2>8. CASE OffsetOf(write.handle) # Len(Content(n))
    BY <1>5, <2>7, <2>8 DEF AppendsElsewhere, n
  <2>9. CASE OffsetOf(write.handle) = Len(Content(n))
    <3> DEFINE h == write.handle
    <3>1. /\ h \in Handles /\ file_handle_array[h].inode_number = n /\ n # -1
          /\ file_handle_array[h].offset = Len(Content(n))
      BY <2>1, <2>9, Writing, Sizes DEF n, InodeOf, OffsetOf, Inodes
    <3>2. Content(n) \in Seq(Bytes) /\ write.data \in Seq(Bytes)
      BY <1>0, <2>1, ContentIsSequence, ContentIs DEF DiskInv, TypeOK
    <3>3. Store!Overwritten(Content(n), Len(Content(n)), write.data) = Content(n) \o write.data
      BY <3>2, OverwrittenAtEnd
    <3>4. Len(Content(n)) \in Nat
      BY <3>2, LenProperties
    <3> HIDE DEF h
    <3>5. [i \in Inodes |-> Content(i)][n] = Content(n)
      BY <2>1
    <3>6. /\ Store!IsOpen(h)
          /\ file_handle_array[h].offset
               <= Len([i \in Inodes |-> Content(i)][file_handle_array[h].inode_number])
      BY <3>1, <3>4, <3>5 DEF Store!IsOpen
    <3>7. Store!PutBytes(file_handle_array[h].inode_number,
            Store!Overwritten([i \in Inodes |-> Content(i)][file_handle_array[h].inode_number],
                              file_handle_array[h].offset, write.data))
      BY <2>7, <3>1, <3>3, <3>5, Zenon
    <3>8. Store!Write(h, write.data)
      BY <3>6, <3>7, Zenon DEF Store!Write
    <3> QED BY <2>1, <3>1, <3>8, Zenon DEF Store!Next
  <2> QED BY <2>8, <2>9
<1>6. ASSUME NEW f \in Names, simplefs_open(f) PROVE Store!Next
  BY <1>6, OpenRefines
<1>7. ASSUME NEW h \in Handles, simplefs_close(h) PROVE Store!Next
  BY <1>7, CloseRefines
<1>8. ASSUME NEW h \in Handles, NEW nseek \in -MaxBytes .. MaxBytes, simplefs_seek(h, nseek)
      PROVE  Store!Next
  BY <1>8, SeekRefines
<1> QED BY <1>1, <1>2, <1>3, <1>4, <1>5, <1>6, <1>7, <1>8
  DEF Next, vars, disk, WriteBegin, WriteFails, WriteOverruns

(* The operations implement FileStore, unless a handle is not at the end   *)
(* of the file it writes: a write puts all of its data or none, a delete   *)
(* empties one file, no operation changes the content of another file, and *)
(* a write through any other handle appends.                               *)
THEOREM Refinement == Spec => ImplementsFileStore
<1>1. Spec => []IInv
  BY Inductive
<1>2. Init => Store!Init
  BY StoreInit
<1>3. IInv /\ [Next]_vars => [Store!Next \/ AppendsElsewhere]_(Store!vars)
  BY StoreStep
<1> QED BY <1>1, <1>2, <1>3, PTL DEF Spec, ImplementsFileStore
=============================================================================
