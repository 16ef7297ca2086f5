------------------------------ MODULE SimpleFS ------------------------------
(***************************************************************************)
(* simplefs-disk.c and simplefs-ops.c: a file system of inodes and data    *)
(* blocks, with a table of open files.  One thread calls the operations    *)
(* one after another; each is one step, but for simplefs_write, whose loop *)
(* changes the disk once per block and may fail half way.                  *)
(*                                                                         *)
(* A free list is the set of free numbers.  A failing assert() stops the   *)
(* program, and so does the model when the code stores past the end of     *)
(* direct_blocks, because nothing is known of what follows.                *)
(*                                                                         *)
(* The caller keeps to handles that are open.                              *)
(***************************************************************************)
EXTENDS Integers, Sequences, FiniteSets

CONSTANTS
  BLOCKSIZE, NUM_DATA_BLOCKS, NUM_INODES, MAX_FILE_SIZE, MAX_OPEN_FILES,
  Names, NoName,    \* file names, and the empty name of a formatted inode
  Bytes, Junk,      \* the values of a byte, and one nobody wrote
  WriteData         \* the data of a simplefs_write call

ASSUME FSAssumption ==
  /\ BLOCKSIZE \in Nat \ {0} /\ NUM_DATA_BLOCKS \in Nat \ {0}
  /\ NUM_INODES \in Nat \ {0} /\ MAX_FILE_SIZE \in Nat \ {0}
  /\ MAX_OPEN_FILES \in Nat \ {0}
  /\ NoName \notin Names /\ Junk \notin Bytes
  /\ WriteData \subseteq Seq(Bytes)

Inodes == 0 .. NUM_INODES - 1
Blocks == 0 .. NUM_DATA_BLOCKS - 1
Handles == 0 .. MAX_OPEN_FILES - 1
FileBlocks == 0 .. MAX_FILE_SIZE - 1   \* the indices of direct_blocks
Cells == 0 .. BLOCKSIZE - 1            \* the bytes of a block

VARIABLES
  inode_freelist, datablock_freelist,   \* the superblock
  inode,                                \* the inodes on disk
  block,                                \* the data blocks on disk
  file_handle_array,
  program,     \* "idle", "writing", or why it stopped
  write        \* the variables of the simplefs_write that is running

disk == <<inode_freelist, datablock_freelist, inode, block>>
vars == <<disk, file_handle_array, program, write>>

-----------------------------------------------------------------------------
INODE_FREE == "x"
INODE_IN_USE == "1"

FirstOf(S) == CHOOSE x \in S : \A y \in S : x <= y

FormattedInode == [status |-> INODE_FREE, name |-> NoName, file_size |-> 0,
                   direct_blocks |-> [k \in FileBlocks |-> -1]]

NoWrite == [handle |-> -1, node |-> FormattedInode, data |-> <<>>, copied |-> 0]

simplefs_formatDisk ==
  /\ inode_freelist = Inodes
  /\ datablock_freelist = Blocks
  /\ inode = [i \in Inodes |-> FormattedInode]
  /\ block = [b \in Blocks |-> [c \in Cells |-> Junk]]
  /\ file_handle_array = [h \in Handles |-> [offset |-> 0, inode_number |-> -1]]

Init ==
  /\ simplefs_formatDisk
  /\ program = "idle"
  /\ write = NoWrite

(* get_inode_num looks at the names alone, free inodes included. *)
InodesNamed(f) == {i \in Inodes : inode[i].name = f}
get_inode_num(f) == FirstOf(InodesNamed(f))

OpenHandles == {h \in Handles : file_handle_array[h].inode_number # -1}
InodeOf(h) == file_handle_array[h].inode_number
OffsetOf(h) == file_handle_array[h].offset

-----------------------------------------------------------------------------
(* Create takes the first free inode and sets its name and status only. *)
LastFreeInode == CHOOSE x \in inode_freelist : \A y \in inode_freelist : y <= x
FreeInode == FirstOf(inode_freelist)

simplefs_create(f) ==
  LET i == FreeInode IN
  /\ program = "idle"
  /\ inode_freelist # {}
  /\ inode_freelist' = inode_freelist \ {i}
  /\ inode' = [inode EXCEPT ![i].name = f, ![i].status = INODE_IN_USE]
  /\ UNCHANGED <<datablock_freelist, block, file_handle_array, program, write>>

BlocksOf(node) == {node.direct_blocks[k] : k \in FileBlocks} \ {-1}
HasBlockTwice(node) == \E k, l \in FileBlocks :
  k # l /\ node.direct_blocks[k] = node.direct_blocks[l] /\ node.direct_blocks[k] # -1

(* freeDataBlock asserts of each block that it is marked used ... *)
BlockAssertionFails(i) ==
  HasBlockTwice(inode[i]) \/ BlocksOf(inode[i]) \cap datablock_freelist # {}

FreedBlocksNone(i) == datablock_freelist
FreedBlocks(i) == datablock_freelist \cup BlocksOf(inode[i])

(* ... and freeInode, when the blocks are freed, that the inode is in use. *)
(* (Of a file whose block assertion fails the code frees the blocks before *)
(* that block only; the program has stopped then and reads none of them.)  *)
AfterDelete(i) ==
  IF BlockAssertionFails(i) THEN "block not used"
  ELSE IF i \in inode_freelist THEN "inode not in use" ELSE "idle"

(* freeInode leaves the name, and open handles stay open. *)
FreedKeepsBlocks(node) == [node EXCEPT !.status = INODE_FREE, !.file_size = 0]
Freed(node) == [node EXCEPT !.status = INODE_FREE, !.file_size = 0,
                            !.direct_blocks = [k \in FileBlocks |-> -1]]

DeleteInode(i) ==
  IF AfterDelete(i) = "idle"
    THEN /\ inode_freelist' = inode_freelist \cup {i}
         /\ inode' = [inode EXCEPT ![i] = Freed(@)]
    ELSE UNCHANGED <<inode_freelist, inode>>

simplefs_delete(f) ==
  LET i == get_inode_num(f) IN
  /\ program = "idle"
  /\ InodesNamed(f) # {}
  /\ program' = AfterDelete(i)
  /\ datablock_freelist' = FreedBlocks(i)
  /\ DeleteInode(i)
  /\ UNCHANGED <<block, file_handle_array, write>>

simplefs_open(f) ==
  LET h == FirstOf(Handles \ OpenHandles) IN
  /\ program = "idle"
  /\ InodesNamed(f) # {}
  /\ Handles \ OpenHandles # {}
  /\ file_handle_array' =
       [file_handle_array EXCEPT ![h] = [offset |-> 0, inode_number |-> get_inode_num(f)]]
  /\ UNCHANGED <<disk, program, write>>

simplefs_close(h) ==
  /\ program = "idle"
  /\ h \in OpenHandles
  /\ file_handle_array' =
       [file_handle_array EXCEPT ![h] = [offset |-> 0, inode_number |-> -1]]
  /\ UNCHANGED <<disk, program, write>>

(* Seek moves within 0 .. file_size. *)
OffsetsUnchecked(h) == -(MAX_FILE_SIZE * BLOCKSIZE) .. inode[InodeOf(h)].file_size
Offsets(h) == 0 .. inode[InodeOf(h)].file_size

simplefs_seek(h, nseek) ==
  /\ program = "idle"
  /\ h \in OpenHandles
  /\ OffsetOf(h) + nseek \in Offsets(h)
  /\ file_handle_array' = [file_handle_array EXCEPT ![h].offset = @ + nseek]
  /\ UNCHANGED <<disk, program, write>>

(* The bytes simplefs_read copies, and when it copies any (else it         *)
(* returns -1).  Reading changes nothing.                                  *)
ByteAt(node, p) == block[node.direct_blocks[p \div BLOCKSIZE]][p % BLOCKSIZE]
CanRead(h, nbytes) == OffsetOf(h) + nbytes <= inode[InodeOf(h)].file_size
simplefs_read(h, nbytes) ==
  [k \in 1 .. nbytes |-> ByteAt(inode[InodeOf(h)], OffsetOf(h) + k - 1)]

-----------------------------------------------------------------------------
(* simplefs_write: the check of the offset, and the copy of the inode.     *)
(* The loop appends to the file, wherever the offset is.                   *)
CanWriteFromOffset(h, data) == OffsetOf(h) <= MAX_FILE_SIZE * BLOCKSIZE
CanWrite(h, data) == OffsetOf(h) + Len(data) <= MAX_FILE_SIZE * BLOCKSIZE

WriteBegin(h, data) ==
  /\ program = "idle"
  /\ h \in OpenHandles
  /\ CanWrite(h, data)
  /\ program' = "writing"
  /\ write' = [handle |-> h, node |-> inode[InodeOf(h)], data |-> data, copied |-> 0]
  /\ UNCHANGED <<disk, file_handle_array>>

woffset == write.node.file_size % BLOCKSIZE
wblock_idx == write.node.file_size \div BLOCKSIZE
BytesLeft == Len(write.data) - write.copied
BufSize == IF BLOCKSIZE - woffset < BytesLeft THEN BLOCKSIZE - woffset ELSE BytesLeft

(* No block is left: return -1.  The inode in memory is dropped.           *)
WriteFails ==
  /\ program = "writing" /\ BytesLeft > 0
  /\ woffset = 0 /\ datablock_freelist = {}
  /\ program' = "idle"
  /\ write' = NoWrite
  /\ UNCHANGED <<disk, file_handle_array>>

(* The new block is stored past the end of direct_blocks. *)
WriteOverruns ==
  /\ program = "writing" /\ BytesLeft > 0
  /\ woffset = 0 /\ datablock_freelist # {}
  /\ wblock_idx \notin FileBlocks
  /\ datablock_freelist' = datablock_freelist \ {FirstOf(datablock_freelist)}
  /\ program' = "overrun"
  /\ UNCHANGED <<inode_freelist, inode, block, file_handle_array, write>>

(* The inode in memory with the block the iteration writes to. *)
NodeWithBlock ==
  IF woffset = 0
    THEN [write.node EXCEPT !.direct_blocks[wblock_idx] = FirstOf(datablock_freelist)]
    ELSE write.node

(* A block written from its start: the bytes it had up to woffset, the new *)
(* ones, and what follows them in memory.                                  *)
KeptByteLost(old, c) == Junk
KeptByte(old, c) == old[c]
NewByteFromStart(c) == write.data[c - woffset + 1]
NewByte(c) == write.data[write.copied + c - woffset + 1]
NewBlock(old) == [c \in Cells |->
  CASE c < woffset -> KeptByte(old, c)
    [] c \in woffset .. woffset + BufSize - 1 -> NewByte(c)
    [] OTHER -> Junk]

Allocated == IF woffset = 0 THEN datablock_freelist \ {FirstOf(datablock_freelist)}
             ELSE datablock_freelist

WriteBlock ==
  LET node == NodeWithBlock
      b == node.direct_blocks[wblock_idx]
  IN
  /\ program = "writing" /\ BytesLeft > 0
  /\ woffset = 0 => datablock_freelist # {}
  /\ wblock_idx \in FileBlocks
  /\ datablock_freelist' = Allocated
  /\ block' = [block EXCEPT ![b] = NewBlock(@)]
  /\ write' = [write EXCEPT !.copied = @ + BufSize,
                            !.node = [node EXCEPT !.file_size = @ + BufSize]]
  /\ UNCHANGED <<inode_freelist, inode, file_handle_array, program>>

WriteEnd ==
  /\ program = "writing" /\ BytesLeft = 0
  /\ inode' = [inode EXCEPT ![InodeOf(write.handle)] = write.node]
  /\ program' = "idle"
  /\ write' = NoWrite
  /\ UNCHANGED <<inode_freelist, datablock_freelist, block, file_handle_array>>

-----------------------------------------------------------------------------
MaxBytes == MAX_FILE_SIZE * BLOCKSIZE

Next ==
  \/ \E f \in Names : simplefs_create(f) \/ simplefs_delete(f) \/ simplefs_open(f)
  \/ \E h \in Handles :
       \/ simplefs_close(h)
       \/ \E nseek \in -MaxBytes .. MaxBytes : simplefs_seek(h, nseek)
       \/ \E data \in WriteData : WriteBegin(h, data)
  \/ WriteFails \/ WriteOverruns \/ WriteBlock \/ WriteEnd

Spec == Init /\ [][Next]_vars

-----------------------------------------------------------------------------
InodeType ==
  [status : {INODE_FREE, INODE_IN_USE}, name : Names \cup {NoName}, file_size : Nat,
   direct_blocks : [FileBlocks -> Blocks \cup {-1}]]

TypeOK ==
  /\ inode_freelist \in SUBSET Inodes
  /\ datablock_freelist \in SUBSET Blocks
  /\ inode \in [Inodes -> InodeType]
  /\ block \in [Blocks -> [Cells -> Bytes \cup {Junk}]]
  /\ file_handle_array \in [Handles -> [offset : Nat, inode_number : Inodes \cup {-1}]]
  /\ program \in {"idle", "writing", "block not used", "inode not in use", "overrun"}
  /\ write \in [handle : Handles \cup {-1}, node : InodeType,
                data : Seq(Bytes), copied : Nat]

(* The inode that holds the truth about number i: during a write the copy  *)
(* in memory is ahead of the disk.                                         *)
Node(i) == IF program = "writing" /\ InodeOf(write.handle) = i THEN write.node ELSE inode[i]

(* A block that some file uses is not in the free list and is used once,   *)
(* whatever the order of creates, writes (also failed ones and those       *)
(* through handles of deleted files) and deletes: the assertion of         *)
(* simplefs_freeDataBlock never fails.                                     *)
BlocksExclusive ==
  /\ program # "block not used"
  /\ program \in {"idle", "writing"} =>
       \A i, j \in Inodes : \A k, l \in FileBlocks :
         LET b == Node(i).direct_blocks[k] IN
         b # -1 =>
           /\ b \notin datablock_freelist
           /\ Node(j).direct_blocks[l] = b => i = j /\ k = l

(* A file has exactly the blocks its size needs, so that neither reading   *)
(* nor writing uses block number -1, which simplefs_readDataBlock and      *)
(* simplefs_writeDataBlock would take for the last inode block.            *)
BlocksMatchSize ==
  \A i \in Inodes : \A k \in FileBlocks :
    Node(i).direct_blocks[k] # -1 <=> k * BLOCKSIZE < Node(i).file_size

(* Blocks marked used that no file has: a write that runs out of blocks    *)
(* half way leaves its new blocks behind, and no other operation leaks.    *)
Orphans ==
  Blocks \ (datablock_freelist \cup UNION {BlocksOf(Node(i)) : i \in Inodes})
OnlyFailedWritesLeak == [][WriteFails \/ WriteOverruns \/ Orphans' \subseteq Orphans]_vars

(* simplefs_read never returns a byte that nobody wrote, although every    *)
(* partly filled block is rewritten whole from a buffer that holds garbage *)
(* after the file's last byte.                                             *)
ReadsWrittenBytes ==
  \A h \in OpenHandles : \A n \in 1 .. MaxBytes : \A k \in 1 .. n :
    CanRead(h, n) => simplefs_read(h, n)[k] \in Bytes

(* Both together: what is stored of a file is what was written to it.      *)
FilesIntact == BlocksMatchSize /\ ReadsWrittenBytes

(* The operations keep every file's bytes: they implement FileStore, where *)
(* a write puts all of its data or none and no operation changes another   *)
(* file.  The one exception is a write through a handle that is not at the *)
(* end of its file: FileStore writes at the handle's offset, as the        *)
(* comment of simplefs_write says (simplefs-ops.c:143), while the code     *)
(* appends.                                                                *)
Content(i) == [p \in 1 .. inode[i].file_size |-> ByteAt(inode[i], p - 1)]
Store == INSTANCE FileStore
  WITH free <- inode_freelist,
       name <- [i \in Inodes |-> inode[i].name],
       content <- [i \in Inodes |-> Content(i)],
       handle <- file_handle_array
AppendsElsewhere == LET i == InodeOf(write.handle) IN
  /\ WriteEnd
  /\ OffsetOf(write.handle) # Len(Content(i))
  /\ Store!PutBytes(i, Content(i) \o write.data)
ImplementsFileStore == Store!Init /\ [][Store!Next \/ AppendsElsewhere]_(Store!vars)

(* A deleted file's name stays in its inode, and the first inode of a name *)
(* is the one that counts.  As long as no name is created twice, this      *)
(* never hides a file: the assertion of simplefs_freeInode                 *)
(* (simplefs-disk.c:93) fails only for names that no file has.             *)
Live == Inodes \ inode_freelist
UniqueNames == \A i, j \in Live : inode[i].name = inode[j].name => i = j
LiveFilesFound == \A i \in Live : get_inode_num(inode[i].name) = i
StaleNamesHarmless ==
  [][UniqueNames /\ UniqueNames' /\ LiveFilesFound => LiveFilesFound']_vars

(* A write stores past the end of direct_blocks (simplefs-disk.h:20) only  *)
(* through a handle that stands before the end of its file.                *)
AppendsFit == program = "overrun" =>
  OffsetOf(write.handle) < inode[InodeOf(write.handle)].file_size
=============================================================================
