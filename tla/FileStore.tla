----------------------------- MODULE FileStore -----------------------------
(***************************************************************************)
(* What simplefs-ops.h promises, without blocks: numbered files with a     *)
(* name and a content, and handles that stand somewhere in a file.         *)
(* Creating a file takes a free number, deleting one empties it, and a     *)
(* write puts all of its data where its handle stands, or none.            *)
(***************************************************************************)
EXTENDS Integers, Sequences

CONSTANTS Inodes, Names, NoName, WriteData, Handles

VARIABLES
  free,      \* the numbers of no file
  name,      \* the name last given to each number
  content,   \* the bytes under each number
  handle     \* the file of each handle, -1 while it is closed, and its offset

Init ==
  /\ free = Inodes
  /\ name = [i \in Inodes |-> NoName]
  /\ content = [i \in Inodes |-> <<>>]
  /\ handle = [h \in Handles |-> [offset |-> 0, inode_number |-> -1]]

(* The file of a name is the first number that has it. *)
Named(i) == name[i] \in Names /\ \A j \in Inodes : name[j] = name[i] => i <= j
IsOpen(h) == handle[h].inode_number # -1

Create(i, f) ==
  /\ i \in free
  /\ \A j \in free : i <= j
  /\ free' = free \ {i}
  /\ name' = [name EXCEPT ![i] = f]
  /\ UNCHANGED <<content, handle>>

Delete(i) ==
  /\ i \notin free
  /\ Named(i)
  /\ free' = free \cup {i}
  /\ content' = [content EXCEPT ![i] = <<>>]
  /\ UNCHANGED <<name, handle>>

Open(h, i) ==
  /\ ~IsOpen(h)
  /\ Named(i)
  /\ handle' = [handle EXCEPT ![h] = [offset |-> 0, inode_number |-> i]]
  /\ UNCHANGED <<free, name, content>>

Close(h) ==
  /\ IsOpen(h)
  /\ handle' = [handle EXCEPT ![h] = [offset |-> 0, inode_number |-> -1]]
  /\ UNCHANGED <<free, name, content>>

Seek(h) ==
  /\ IsOpen(h)
  /\ \E offset \in 0 .. Len(content[handle[h].inode_number]) :
       handle' = [handle EXCEPT ![h].offset = offset]
  /\ UNCHANGED <<free, name, content>>

(* "starting at current offset" (simplefs-ops.c:143): data over what was   *)
(* there.                                                                  *)
Overwritten(bytes, offset, data) ==
  SubSeq(bytes, 1, offset) \o data \o SubSeq(bytes, offset + Len(data) + 1, Len(bytes))

PutBytes(i, bytes) ==
  /\ content' = [content EXCEPT ![i] = bytes]
  /\ UNCHANGED <<free, name, handle>>

Write(h, data) ==
  LET i == handle[h].inode_number IN
  /\ IsOpen(h)
  /\ handle[h].offset <= Len(content[i])
  /\ PutBytes(i, Overwritten(content[i], handle[h].offset, data))

Next ==
  \/ \E i \in Inodes : Delete(i) \/ \E f \in Names : Create(i, f)
  \/ \E h \in Handles :
       \/ \E i \in Inodes : Open(h, i)
       \/ Close(h) \/ Seek(h)
       \/ \E data \in WriteData : Write(h, data)

vars == <<free, name, content, handle>>
Spec == Init /\ [][Next]_vars
=============================================================================
