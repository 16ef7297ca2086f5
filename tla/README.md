# OS-Modules: a TLA+ verification project

OS-Modules is a collection of small operating-systems programs in C and C++:
thread synchronisation (two read-write locks, a semaphore, a master-worker
program), a simple file system, two memory allocators, a key-value server, a
shell, and examples of inter-process communication.  This directory holds TLA+
models of them, the TLC configurations that check the models, and proofs that
the TLA+ proof system checks.

- [1. The system](#1-the-system): components, state, operations, hard behaviours
- [2. Plan](#2-plan): modules, order, abstract specifications, theorems
- [3. The models](#3-the-models): how state and actions correspond to the code
- [4. The runs](#4-the-runs): what each run checks, bounds, fairness
- [5. The proofs](#5-the-proofs)
- [6. Disagreements found](#6-disagreements-found)
- [7. What is not modelled](#7-what-is-not-modelled)

## 1. The system

The programs do not call each other; within each one the parts below interact.

### Read-write locks (`pthreads-sync-code/rwlock`)

`rwlock.h` declares `struct read_write_lock` and five functions, implemented
twice.

| | |
|---|---|
| State | a mutex `lock`, condition variables `read_phase` and `write_phase`, the counter `resource_cnt` (-1: a writer is in; n: n readers are in); with writer preference also the global `waiting_writers` |
| Operations | `InitalizeReadWriteLock`, `ReaderLock`, `ReaderUnlock`, `WriterLock`, `WriterUnlock` |
| Interaction | threads share the lock; a leaving thread wakes sleepers, who compete for the mutex with newcomers |
| Hard | a wake-up given to one thread while another takes what it was for; a wake-up for the wrong side; a count that is stale after a sleep; `waiting_writers` shared by all locks |
| Correct when | a writer is inside alone; nobody sleeps on a lock that is free for it without somebody on the way to wake or overtake it; with writer preference no reader passes a waiting writer; every thread returns when the users stop coming |

`test-reader-pref.cpp` and `test-writer-pref.cpp` create reader and writer
threads that each lock, sleep and unlock once.

### Zemaphores (`pthreads-sync-code/zemaphore`)

| | |
|---|---|
| State | per semaphore: `accesses`, a mutex, the condition variable `wait_phase` |
| Operations | `zem_init`, `zem_down`, `zem_up` |
| Interaction | `zemaphore_exercise.c` passes a turn around three threads with three semaphores; `test-zem.c` passes it between the main thread and two children with two |
| Hard | a permit taken by a thread that never slept between the signal and the return of `pthread_cond_wait`; the order of lines over several semaphores |
| Correct when | the value is never negative and no permit lies idle while a thread sleeps; the lines of the programs come in the promised order and every thread ends |

### Master-worker (`pthreads-sync-code/master-worker`)

| | |
|---|---|
| State | `item_to_produce`, `item_to_consume`, `curr_buf_size`, the ring `buffer` with positions `add` and `rem`, one mutex, `is_full`, `is_empty` |
| Operations | the loops `generate_requests_loop` and `process_request_loop`, `main` (create, join, free) |
| Interaction | through the ring and the two condition variables |
| Hard | both loop conditions are read *before* the mutex is taken, both signals are sent *after* it is released; the end of the program, when nobody is left to signal |
| Correct when | items come out in order, each once; the ring neither overflows nor is read empty; no wake-up is lost while there is work; the program ends |

### simplefs (`simplefs-code`)

| | |
|---|---|
| State | on disk: the superblock with two free lists, inodes (name, status, size, block numbers), data blocks; in memory: `file_handle_array` |
| Operations | `simplefs_formatDisk`, `_create`, `_delete`, `_open`, `_close`, `_read`, `_write`, `_seek`; below them allocation, freeing, reading and writing of inodes and blocks |
| Interaction | `simplefs-ops.c` calls `simplefs-disk.c`; handles refer to inodes that may be deleted meanwhile |
| Hard | a write that fails after its first block; partly filled blocks; handles of deleted files; names of deleted files; the size limit |
| Correct when | a block belongs to at most one file; the assertions never fail; reads return what was written; a failed operation leaves nothing behind |

### Allocators (`malloc-code`)

| | |
|---|---|
| State | per page: `is_free` and `alloc_blocks_len` for its blocks, `base_ptr`.  `alloc.c` has one page of 8-byte blocks, `ealloc.c` up to four pages of 256-byte blocks, mapped on demand |
| Operations | `init_alloc`, `alloc` (best fit), `dealloc`, `cleanup` |
| Interaction | the caller holds the pointers; `mmap` chooses where pages lie |
| Hard | requests of no blocks; ties between slots; merging; finding the page of a pointer, unmapped pages included |
| Correct when | live pieces never overlap, freeing makes exactly the freed blocks available again, a request is refused and a page fetched only for want of room |

### Key-value server and client (`key-value-server`)

| | |
|---|---|
| State | server: `key_arr`, `value_arr`, `value_len`, `idx`, the connection `newsockfd`, the listen queue; client: the socket |
| Operations | `create`, `read`, `update`, `delete`, `disconnect`; accepting the next client; the client's loop |
| Interaction | one request and one reply at a time over a socket; one client at a time, the others wait in the listen queue |
| Hard | slots of deleted keys (key -1, a freed pointer); a full store; clients that hang up; a client that waits behind another |
| Correct when | all clients see one map from keys to values, and every request is answered |

### Shell (`shell`)

| | |
|---|---|
| State | `bg_procs`, `bg_procs_idx`, the line's commands, the children |
| Operations | parsing (`make_cmds`), `start_executing`, `add_bg_procs`, `reap_bg_procs`, `exit`, `handle_sigint` |
| Interaction | `fork`, `waitpid`, `kill`, process groups, SIGINT |
| Hard | exits in any order, the table at its limit, removal from the table while it is scanned, process numbers used again |
| Correct when | every background process is reaped, `exit` leaves none, the table never exceeds its memory unseen |

### IPC examples (`ipc-code`)

| | |
|---|---|
| State | `my_shm_posix_prod.c` and `my_shm_posix_cons.c`: a ring of slots in shared memory, a fifo of slot numbers, a counter and a position each |
| Interaction | the fifo tells the consumer which slot was filled, the text in the slot tells the producer that it is free |
| Hard | reuse of a slot before it is read; either process dies; the memory is mapped before it has a size |
| Correct when | every item is read once and in order, and both programs end |

`pipes_ex*.c`, `fifo_*.c` and `socket_*.c` are single exchanges.

## 2. Plan

Order: the concurrent core first (locks, semaphores, master-worker), because its
interleavings are what tests cannot reach; then the file system, whose long
sequences of calls are; then the sequential and process-level programs.

| Stage | Modules | Abstract specification | Status |
|---|---|---|---|
| 1 | `Pthread`, `RWLockReaderPref`, `RWLockWriterPref` | `RWLock` | done |
| 1 | `Zemaphore`, `ZemPrograms` (composes it with the two programs) | `Semaphore` | done |
| 1 | `MasterWorker` | - | done |
| 1 | `SimpleFS` | `FileStore` | done |
| 1 | `RWLockReaderPrefProofs`: type, counter, wake-ups, refinement | | done |
| 1 | `ZemaphoreProofs`: type, permits, refinement | | done |
| 2 | `Allocator` (both allocators) | `Heap` | done |
| 2 | `KVServer` (server and clients) | `KVStore` | done |
| 2 | `Shell` | - | done |
| 2 | `ShmRing` (the shared-memory producer and consumer) | - | done |
| 3 | `RWLockWriterPrefProofs`: type, counters, wake-ups, refinement | | done |
| 3 | `MasterWorkerProofs`: type, overrun, order, no stall | | done |
| 3 | `SimpleFSProofs`: type, blocks, files, leaks, names, refinement | | done |
| 3 | `ProcessProofs`: ring, order; the shell's table and exit | | done |
| 3 | `KVServerProofs`: store, refinement | | done |
| 3 | `AllocatorProofs`: tables, pieces, refinement | | done |
| 3 | `ZemaphoreProofs`: the two programs print in turn | | done |
| 3 | in the six modules of programs with several threads or processes: nobody gets stuck | | done |

All parameters are `CONSTANTS` with named assumptions, there is one action per
operation (or per part of one that other threads can see), and no `RECURSIVE`
operator is used, so that every module can be proved about.

## 3. The models

### Threads, mutexes, condition variables: `Pthread`

The pthread library is external; `Pthread` says what the programs rely on.  A
mutex is the set of its owners (`{}` or `{t}`), a condition variable the set of
threads asleep on it.  `pthread_cond_signal` removes any one sleeper,
`pthread_cond_broadcast` all, both do nothing when nobody sleeps.  A woken thread
must take the mutex again and competes with everybody, and
`pthread_cond_wait` may return without a signal (`SpuriousWakeup` in every
module).

A function is cut into steps where another thread can act: the taking of the
mutex is a step; the code under the mutex, up to its release by
`pthread_mutex_unlock` or by the sleep in `pthread_cond_wait`, is one step,
because only the owner touches the state it protects.  What the code does
*outside* the mutex (the loop conditions and signals of `master-worker.c`) is a
step of its own.

### `RWLockReaderPref` and `RWLockWriterPref`

`pc[t]` is where thread `t` is: `start` (about to call), `test` (owns the mutex,
about to evaluate the condition of the `while` loop), `wait` (inside
`pthread_cond_wait`), `hold` (between lock and unlock), `release` (owns the mutex
inside unlock), `done`.

| Code | Action |
|---|---|
| `pthread_mutex_lock` in `ReaderLock`/`WriterLock`, and in the unlocks | `Lock`, `Unlock` (writer preference: `ReaderLock`, `WriterLock`, `Unlock`) |
| `while` loop, `resource_cnt++` or `= -1`, unlock | `ReaderLockTest`, `WriterLockTest` |
| `pthread_cond_wait` returns | `WaitReturns` |
| `ReaderUnlock`, `WriterUnlock` under the mutex | `ReaderUnlockBody`, `WriterUnlockBody` |
| a program that uses the lock again | `CallAgain` |

In `RWLockWriterPref` every lock has its own copy of the struct's fields, as in
the code, and one `waiting_writers` serves them all, as in the code.  Updates of
`waiting_writers` from writers of *different* locks would be a data race (each
is under its own lock's mutex); the module assumes that all writers use one lock
and lets readers use others, which is enough to show what the sharing does.

`RWLock` is the lock `rwlock.h` stands for: threads ask, acquire, release; a
reader may acquire when no writer holds the lock (with `WriterPreference`, when
none waits either), a writer when nobody does.  Both detailed modules implement
it under the mapping *waiting = threads at `test` or `wait`, holding = threads at
`hold` or `release`*.

### `Zemaphore` and `ZemPrograms`

`Zemaphore` lets any thread call `zem_down` and `zem_up` on any semaphore in any
order; it implements `Semaphore`, where a down takes a positive permit in one
step.  `ZemPrograms` extends it with the two programs of the directory: each
thread is the sequence of its `zem_down`, `zem_up` and `printf` instructions,
generated as its loops generate it, and every call takes the steps of
`Zemaphore`.

### `MasterWorker`

Each thread goes through `check` (the outer `while` condition, no mutex), `lock`,
`test` (owns the mutex), `wait`, `signal` (released the mutex, about to signal),
`done`.  `Produce` and `Consume` are the code between the inner loop and the
unlock; they do what the code does even when the counters say there is nothing
to produce or consume any more, since the code checks that only to decide
whether to *wait*.  How many masters and workers the command line asks for is
chosen in `Init` (`created`).  `consumed` is what `print_consumed` printed, and `freed` that
`main` has joined the threads.

### `SimpleFS` and `FileStore`

One thread calls the operations.  All are single steps except `simplefs_write`,
which is cut per block (`WriteBegin`, `WriteBlock`, `WriteFails`,
`WriteOverruns`, `WriteEnd`), because its loop changes the disk as it goes and
can stop half way; the inode it works on is the copy in memory (`write.node`)
that reaches the disk in `WriteEnd`.  A free list is the set of its free numbers.
A failed `assert` sets `program` to the reason and nothing happens after it.  The
buffer `simplefs_write` builds a block in holds garbage after the last byte, and
that garbage is written to the disk: a cell nobody wrote has the value `Junk`.

`FileStore` knows numbered files with a name and a content, and handles with a file
and an offset.  A write puts all its data at the offset of its handle, as the comment
of `simplefs_write` says (`simplefs-ops.c:143`), or none, and no operation touches
another file.  The code takes the end of the file instead (line 161), which is the same
only for a handle that stands there; `ImplementsFileStore` therefore excepts, by name,
the writes of the other handles (`AppendsElsewhere`), and says that these append.  One thing the
store promises is weaker than what the names of the functions suggest, because the code
is: a write through a handle whose file was deleted gives content to a free number,
which the next file created there starts with.

### `Allocator` and `Heap`

The two programs share one algorithm; `Init` chooses whether the program is
`alloc.c` (one page, mapped by `init_alloc`, given back by `cleanup`) or
`ealloc.c` (`PAGES` pages, mapped by `alloc` when it first looks at them).  An
address is counted in blocks, so page `f` starts at `f * BLOCKS`; `mmap` returns
any frame not in use, near the others or not.  `dealloc` looks for the page of a
pointer by its distance from every base pointer, the NULL of pages not mapped yet
included, and cuts that distance to an `int` (`ealloc.c:88`): `AsInt` does the same
with an `int` that holds less than `HALF_INT` pages up or down (2 GiB in the code, half a
million pages).  `held` are the caller's pointers with the length it asked
for, so that the tables can be compared with what the caller believes; `call` and `ret`
are the last call, its argument and the pointer it returned.
`RunStarts` and `RunLen` are the two inner loops of `alloc`, `get_free_start_idx`
the choice they make (the last of the shortest runs that suffice).

`Heap` knows pieces, pages and the calls.  What it allows depends on the length asked
for (`Request`).  A length that is no number of blocks is refused at once, and nothing
else happens.  A number of blocks is handed out where nothing else lies; it is refused
only when no page has room for it and no page can be fetched, and a page is fetched
only then.  A request of no blocks reserves nothing: its pointer is to a block that nobody
has, or it is refused when there is none.  A piece is given back by the pointer to its
start.  `ImplementsHeap` excepts one kind of call: the free of a pointer into a page
that lies a multiple of an `int`'s span (4 GiB) from an earlier page (`Shadowed`), which
`dealloc` takes for a pointer into that one.

### `KVServer` and `KVStore`

`slots` is `key_arr` and `value_arr` up to `idx`; a value is a chunk of the heap
(`chunk`, `allocated`), because what the code does wrong it does with freed
chunks: a deleted slot keeps its pointer under key -1.  `malloc` returns a freed
chunk that a slot still points to, or another free one; `free` of a chunk that is
not allocated aborts, unless one of `tokenize`'s strings happens to have it.
`backlog` is the kernel's listen queue, `request` and `reply` the sockets' buffers.
Reading a request, handling it and answering it is one step (`Serve`), since only
the server touches its tables and a client sees the reply only.  A client that
disconnects may connect again.  One that hangs up (`HangUp`) does not, and a new
connection of its own would lie behind the dead one, where it is never served: the dead
one makes the next `read` return nothing, and `strcmp`
then gets an unset token, so that the server stops (`ServeHangUp`).  A write to a client that is
gone may stop it too.

`KVStore` is one map with one answer per request and room for `MAX_KEYS` creates
over its lifetime (slots are not used again).  Key -1 is reserved there: answers
about it may be anything, and once a client has updated or deleted it nothing is
promised, because the code then frees a chunk twice.

### `Shell`

A line is its commands and the operators between them; `make_cmds` is translated
with the array that commands joined by `&` share, so `a & b` runs `b` twice and
`a &` gives `strcmp` a null pointer.  `shell` says where the shell is (reading,
executing, in the foreground `waitpid`, in the loop of `exit`, in
`reap_bg_procs`) or how it stopped.  Children start (leave the shell's process
group if in the background) and end between any two steps, and a reaped number may
be used again.  `Interrupt` kills everything in the shell's group.  `bg_procs` has
`BG_CHUNK` cells, the size of what `malloc(sizeof(int))` really gives; the model
stops with `overflow` when the code writes past them.

### `ShmRing`

Each process is cut where the other can see it: sizing and filling the memory, the
two ends of the fifo, the slot it writes or reads and the number it sends.  Items
are numbered to follow the slots' reuse (the code writes the same text each time).
Either process may be killed anywhere; a `read` at the end of the fifo leaves the
consumer with the number it had before, or with an unset one.

## 4. The runs

| Run | Instance | Checks |
|---|---|---|
| `rp` | 3 readers, 2 writers | `TypeOK`, `CountInv`, `NoLostWakeup`, `ImplementsRWLock`, `AllThreadsReturn` |
| `wp` | 3 readers, 2 writers, one lock | the same; `CountInv` includes `waiting_writers`, `NoLostWakeup` both sides |
| `wp_two_locks` | a reader on lock B, a reader and a writer on lock A | violated: `AllThreadsReturn` |
| `zem` | 4 threads, one semaphore open and one closed, any calls | `TypeOK`, `NoLostPermit`, `ImplementsSemaphore` |
| `zem_programs` | both programs as they are (`NUM_ITER` = 10) | `PrintsInTurn`, `AllThreadsFinish` |
| `mw` | 1 or 2 masters, 1 or 2 workers, 4 items, 2 slots | `TypeOK`, `OverrunBounded`, `ItemsInOrder`, `NoStall`, `AllItemsConsumed`, `OneWorkerTerminates` |
| `mw_hang` | 1 master, 2 workers | violated: `Termination` |
| `fs` | 2 inodes, 3 blocks of 2 bytes, files of at most 2 blocks, 1 handle, writes of 1 and 3 bytes | `TypeOK`, `BlocksExclusive`, `FilesIntact`, `AppendsFit`, `OnlyFailedWritesLeak`, `StaleNamesHarmless`, `ImplementsFileStore` |
| `alloc` | one page, or two of the frames 1, 4 and 5 in either order; 4 blocks a page; an `int` of 4 pages; at most 3 pointers held | `TablesInv`, `OnlyEmptyFreesCorrupt`, `ImplementsHeap` |
| `kv` | 2 clients, keys 1, 2 and -1, 2 slots, 3 chunks | `StoreInv`, `ImplementsKVStore`, `RequestAnswered` |
| `shell` | 3 process numbers, 2 cells in the table, lines of one and two commands | `TableInv`, `ExitKillsAll`, `FinishedReaped` |
| `shm` | 4 slots, 7 items | `ItemsInOrder`, `RingInv`, `BothEnd` |

**What some of the properties say.**
`AllItemsConsumed`: in the end the workers have printed every item, or a master has
stored one into a full buffer (`curr_buf_size > max_buf_size`), over an item that is
then lost (section 6).
`OneWorkerTerminates`: with one worker the program ends if there are at most
`max_buf_size + 1` masters (the bound is tight, see section 6).
`StaleNamesHarmless`: as long as no name is created twice, the names that deleted
inodes keep never hide a file; this rests on `simplefs_allocInode` taking the
first free inode.  `AppendsFit`: `direct_blocks` is only overrun through a handle
that stands before the end of its file.  `FilesIntact`: a file has the blocks its
size needs and a read returns written bytes only.  `OnlyEmptyFreesCorrupt`: no
call but the free of a pointer to no blocks, or of one into a shadowed page, takes a
piece from a caller that holds it.  `TablesInv`: `dealloc` finds the page a pointer came
from unless that page is shadowed, and stays inside the tables then too.  `StoreInv`: every key has its own allocated chunk and none is
leaked.  `RequestAnswered`: a client that sent a request is answered, one in the
listen queue included, or the server has stopped.  `TableInv`: `bg_procs_idx`
counts the background children that are not reaped, and while there is at most one
of them at a time the table holds exactly it; under the same condition
`FinishedReaped` says that it is reaped once it ended, and `ExitKillsAll` that
`exit` leaves none.  With two at a time the table is wrong (section 6), which is
why the condition is there.  `RingInv`: the slots whose numbers are in the fifo hold
the unread items in order and all others are free.  `ItemsInOrder` of `ShmRing`: no
slot is refilled before it was read, even when a process dies.

**Bounds.**  Locks: three readers and two writers give every case of the code: a
counter above 1, a last reader who leaves while another reader and a writer wait,
two writers who compete for one wake-up, and a broadcast that wakes several.
Threads come back any number of times, so there is no bound on calls.
Zemaphores: four threads let two sleep on one semaphore while a third ups it and
a fourth overtakes; `MaxAccesses` = 2 stops `zem_up` from raising the value for
ever, and a value of 2 is where one wake-up per permit first matters.
Master-worker: four items on two slots let positions wrap twice, and two threads
on each side are needed for any overrun.  simplefs: the two files together can
ask for more blocks than there are, a write of three bytes always crosses a block
boundary (or fails at one), and a file reaches its largest size.  One handle is
enough for stale handles, since the file can be deleted and created again while
it is open; two open handles on one file add nothing that one handle reopened
does not, as no state but the offset lives in them.
Allocators: four blocks allow two runs of different length, a tie, and a hole
between two pieces.  An `int` tells 16 blocks apart, and pages of four blocks start at
4, 16 or 20: 16 and 20 are adjacent, so that a pointer may lie one past the other
page's end; 4 and 20 are a span apart, so that the later of the two is shadowed; 16 is a
span from NULL; the distance of 4 and 16 is negative as an `int`.  Taking any of the
exceptions out of the properties makes the run fail.  `MaxHeld` = 3 bounds the pointers to no blocks, of which a
caller may get any number.
Key-value server: two slots fill up and both get deleted; three chunks are one
more than slots, so that `malloc` has a choice; two clients suffice for one that
waits behind another.  After key -1 was updated or deleted clients only
disconnect, since nothing is promised any more, and clients hang up only while
the server runs.
Shell: three process numbers and two cells let the table be full, be reordered and
overflow.  The lines have every operator, `&` at the end, `cd`, `exit` and the
empty line.
Shared memory: seven items in four slots reuse three slots, as 1000 items in 512
slots reuse some; `RingAssumption` keeps that relation (the code sets its position
back once).

**Fairness.**  Each thread's or process's steps are weakly fair: the operating
system runs what can run.  Nothing stronger is assumed of the mutex: a thread that
waits for it can be overtaken, but not for ever, because its rivals run out of
things to do.  Spurious wake-ups are assumed not to go on for ever, and in the
lock modules the threads are assumed to stop coming back at some time (in the test
programs each uses the lock once).  Without the latter a reader-preference lock
may starve its writers, which is what its name says.  In `kv` users are assumed to
type `disconnect` at some time if they keep being asked (strong fairness): the code
serves the next client only then.  In `shell` children end and the user goes on
typing, since the shell reaps only after a line.

**Deadlock** is checked in `rp`, `wp` and `alloc`.  It is off where the system may
stop: in `zem` (all threads may sleep on closed semaphores), in the programs that
end, after a crash or a failed assertion, and in `mw` because of the hang that
`mw_hang` shows.

**Symmetry** is used in `zem` (threads) and `fs` (names), which check no liveness.

## 5. The proofs

Each component has a module of proofs; the shell and the shared memory share
`ProcessProofs`, and for that the definitions of `Shell` that every module has
(`ShellInit`, `ShellNext`, ...) carry its name.  All have one layout: an invariant `IInv` that implies the properties and that every step keeps, one lemma
per conjunct of it (or, for the allocators, per action) with a step for each
action, the theorems drawn from it, and last the refinement.  The theorems hold
for all constants that satisfy the component's named assumption; each run
evaluates that assumption for its instance.

**Nobody gets stuck.**  That a process is not left waiting for ever has two halves:
some step is always possible, and fairness makes somebody take it.  The first is an
invariant, and it is proved for all programs with several threads or processes but the
shell, which waits only for its children and its user
(`DeadlockFree`, `ItemsNeverStuck`, `OneWorkerNeverStuck`, `ProgramsNeverStuck`,
`RingNeverStops`, `ClientsServed`).  The prover does not know `ENABLED`, so each
module writes out what a step needs (`CanStep`, `ServerCanStep`,
`ProducerCanStep`, ...): a free mutex, a signal, room or bytes in the fifo.  Spurious
wake-ups do not count as steps there.  The second half is what the runs check of the
liveness properties.

`RWLockReaderPrefProofs` proves, for *any* finite set of readers and any finite or
infinite set of writers (assumption `ThreadsAssumption`: the readers are finite,
and no thread is both):

| Theorem | Says |
|---|---|
| `TypeCorrect` | `Spec => []TypeOK` |
| `CountCorrect` | `Spec => []CountInv`: one writer alone, or `resource_cnt` readers |
| `WakeupsCorrect` | `Spec => []NoLostWakeup` |
| `Refinement` | `Spec => ImplementsRWLock` |
| `DeadlockFree` | `Spec => []NoDeadlock`: until all threads are done one of them can go on |

The inductive invariant is `IInv == TypeOK /\ MutexInv /\ CountInv /\
NoLostWakeup`.  `CountInv` alone is not inductive: `WriterUnlock` sets the counter
to 0 without looking, which is right only because the writer that does it is the
one that is inside; and to know which thread a step belongs to one needs that the
sleepers are at `wait` and the owner of the mutex is at `test` or `release`
(`MutexInv`).  `NoLostWakeup` needs it too: the writer a signal wakes is at `wait`
and therefore awake and asking after the step.  There is one lemma per conjunct
(`TypeStep`, `MutexStep`, `CountStep`, `WakeupStep`), each with one step per
action; `ReadersInside` gathers the facts about the cardinality of the set of
readers inside, and `WokenWriter` what a signal does to the sleeping writers.
`RefinementStep` shows that each action is one step of `RWLock` or a stutter under
the mapping of section 3.

`ZemaphoreProofs` proves, for any finite set of threads, any set of semaphores and
any initial values (`ZemAssumption`):

| Theorem | Says |
|---|---|
| `TypeCorrect` | `Spec => []TypeOK`: in particular no value becomes negative |
| `PermitsCorrect` | `Spec => []NoLostPermit` |
| `Refinement` | `Spec => ImplementsSemaphore` |

The inductive invariant is `TypeOK /\ MutexInv /\ NoLostPermit`.  `NoLostPermit`
compares a value with the number of awake threads inside `zem_down`; a thread that
takes a permit lowers both, which needs to know that it is awake (`MutexInv`: only
threads at `wait` sleep), and a signal raises both, which needs to know that the
thread it wakes is inside `zem_down` of that semaphore.  `MutexTaken` and
`MutexReleased` say once what taking and releasing a mutex keep of `MutexInv`;
`PermitsKept` covers every step that neither adds a permit nor removes a claimant.

It also proves, for the constants of the two programs of the directory
(`ProgramConstants`: three threads, five semaphores and their initial values) and
any number of iterations:

| Theorem | Says |
|---|---|
| `PrintsCorrect` | `FairProgram => []PrintsInTurn` |
| `ProgramsNeverStuck` | `FairProgram => []ProgramNeverStuck`: until all threads have returned one of them can go on (for `MaxAccesses >= 1`: the bound leaves room for one call) |

In the exercise one permit goes round: it lies in the semaphore of the thread
whose turn it is, or that thread holds it, or it has printed and is about to pass
it on (`PermitLies`, `PermitTaken`, `LinePrinted`).  In `test-zem.c` the values of
both semaphores and the number of lines follow from the three threads' positions
(`Ledger`).  Both need that a thread inside a call is at the instruction that made
the call (`CallsMatch`).  That the programs go on also needs where a thread can be in
its rounds (`Rounds`: one that has not returned is at a call or a line) and that nobody
posts a semaphore that still has a permit (`PostsAtZero`), so that the bound on a
semaphore's accesses never stops a program.

`RWLockWriterPrefProofs` proves, for any finite sets of readers and writers and
any locks, with all writers on one lock (`ThreadsAssumption`):

| Theorem | Says |
|---|---|
| `TypeCorrect` | `Spec => []TypeOK`: in particular `waiting_writers` is never negative |
| `CountCorrect` | `Spec => []CountInv`: `resource_cnt` per lock, and `waiting_writers` |
| `WriterWakeupsCorrect` | `Spec => []NoLostWriter`: a free lock with a sleeping writer has one awake |
| `WakeupsCorrect` | `Spec => []NoLostWakeup`, if all threads use one lock (`OneLockForAll`) |
| `Refinement` | `Spec => ImplementsRWLock` |
| `DeadlockFree` | `Spec => []NoDeadlock`, if all threads use one lock |

`IInv` is laid out as for the reader-preference lock.  `WriterUnlock` tests
`waiting_writers` to choose whom to wake, so that no writer loses its wake-up
depends on what *both* counters mean.  Only `WakeupsCorrect` and `DeadlockFree` need
`OneLockForAll`, which every program of the repository satisfies: a reader of one
lock sleeps for a writer who waits for another, and nobody wakes it; that is what
`wp_two_locks` shows.

`MasterWorkerProofs` proves, for any numbers of masters, workers, items and slots
(`MWAssumption`):

| Theorem | Says |
|---|---|
| `TypeCorrect` | `Spec => []TypeOK` |
| `OverrunCorrect` | `Spec => []OverrunBounded` |
| `OrderCorrect` | `Spec => []ItemsInOrder` |
| `StallsNever` | `Spec => []NoStall` |
| `ItemsNeverStuck` | `Spec => []NoDeadlockBeforeLastItem`: until `item_to_consume` reaches `total_items` some thread can go on |
| `OneWorkerNeverStuck` | `Spec => []NoDeadlockOneWorker`: with one worker, and no more masters than it can wake, the whole program goes on to its end |

`OverrunBounded` is not inductive: it bounds the counters but says nothing of the
threads that are past the unlocked test of the outer loop and will still make an
item.  `Overruns` counts them: what the counter has run past plus the threads past
the test is less than the number of threads.  `BufferBounds` relates the fill level
to that, `CountersAgree` the positions in the ring to the counters, and `Stored`
says that item `j` lies in slot `j % max_buf_size` from when it is made until it is
taken; `Division`, `UniqueRest`, `AddRest` and `SlotsOfItems` are the arithmetic
this rests on.  `StallsNever` and `ItemsNeverStuck` do not contradict the hang of
`mw_hang`: that one comes after the last item.  `OneWorkerNeverStuck` says when it does
not come.  A master sleeps on a full buffer, and only a worker's signal wakes it; its
invariant, `SleepersSignalled`, is that the items the worker has yet to take, plus the
signal it is about to send, are at least as many as the masters asleep.

`SimpleFSProofs` proves, for any sizes of the disk, its blocks and its tables and
any data written (`FSAssumption`):

| Theorem | Says |
|---|---|
| `TypeCorrect` | `Spec => []TypeOK` |
| `BlocksCorrect` | `Spec => []BlocksExclusive` |
| `AppendsCorrect` | `Spec => []AppendsFit` |
| `FilesCorrect` | `Spec => []FilesIntact` |
| `LeaksCorrect` | `Spec => OnlyFailedWritesLeak` |
| `NamesCorrect` | `Spec => StaleNamesHarmless` |
| `Refinement` | `Spec => ImplementsFileStore` |

`IInv == TypeOK /\ DiskInv /\ WriteInv /\ BlocksExclusive /\ AppendsFit`.
`DiskInv` holds of the files on disk: each has the blocks its size needs, and they
hold written bytes.  While a write runs the file it works on exists twice, on disk
and as the copy in memory, and `WriteInv` relates the two: the copy extends the
inode on disk by as many bytes as were copied (`CopyAhead`), and these are the
first bytes of the data (`DataStored`), which makes `WriteEnd` an append, the write of
`FileStore` if the handle stands at the end of the file and `AppendsElsewhere` if it
does not, and every other step of the write a stutter.  Positions are written as the
start of a block plus a cell, so that division occurs only in `Division` and
`Positions`.

`ProcessProofs` proves of the shared memory, for any number of slots and one to two rounds of items
(`RingAssumption`: the code sets its position back once):

| Theorem | Says |
|---|---|
| `TypeCorrect` | `Spec => []TypeOK` |
| `RingCorrect` | `Spec => []RingInv` |
| `OrderCorrect` | `Spec => []ItemsInOrder` |
| `RingNeverStops` | `Spec => []RingNeverStuck`: unless one is killed, producer or consumer can go on until both are done, and the consumer also goes on after the producer was killed |

The inductive invariant follows each item: those sent and not read are in the fifo
in order (`Counting`) and in their slots, one may be in the producer's hand and one
in the consumer's, and all other slots are free (`SlotInv`).  After a killed
producer the fifo is empty and the consumer goes on with the number it read last;
`PrintedInv` says what it can print then.  `Ends` adds that the two leave
the `open` of the fifo together and that the consumer is done only when it has printed
every item, so that neither waits for one that is gone.

It proves of the shell, for any finite set of process numbers, any lines and any size
of the table (`ShellAssumption`):

| Theorem | Says |
|---|---|
| `TableCorrect` | `ShellSpec => []TableInv` |
| `ExitCorrect` | `ShellSpec => []ExitKillsAll` |
| `ForegroundCorrect` | `ShellSpec => []OneForeground`: at most one child is waited for, and outside that `waitpid` all children are background ones |

The index of the table counts the unreaped background children (`TableCounts`).
`reap_bg_procs` lowers it for every child that `waitpid(bg_procs[i])` takes, and a cell
may hold a number that has been used again, or 0, which stands for any child of the
shell's group; that it is a background child all the same is `OneForeground`.  What the *cells* hold is known only while there is one background child
at a time (`OneBackground`; the code loses numbers afterwards, see section 6), and then
it is in the part of the table that the loop of `exit` has still to look at
(`InTable`).  `ExitLast` says that after `exit` neither a line begins nor the table is
reaped, so that the loop sees the table it started with.

`KVServerProofs` proves, for any number of clients that the listen queue can hold,
and any keys, values, requests and number of slots (`KVAssumption`):

| Theorem | Says |
|---|---|
| `StoreCorrect` | `Spec => []StoreInv` |
| `Refinement` | `Spec => ImplementsKVStore` |
| `ClientsServed` | `Spec => []NobodyForgotten`: who waits has its request in its socket, is connected, and waits for the server alone or for the one client before it |
| `QueueNeverFull` | `Spec => []QueueFits`: `connect` never finds the queue of `listen(sockfd, 5)` full |

`StoreInv` speaks of the time before key -1 is misused; at all times every chunk in
use is in some slot (`AllocatedInSlots`), so that `malloc` finds one as long as a
slot is left, and a client has one request or one answer under way (`OneRequest`).
The refinement needs that the loops over the slots find the only slot of a key
(`ValueFound`, and `CreatedValue`, `UpdatedValue`, `DeletedValue` for what each
operation does to the map).  Attempting it showed that `KVStore` was wrong: it took
what a request does to the map from the text of its answer, and a stored value may
read like any answer.  It now takes it from the request.

The last two theorems follow every connection from `connect` through the listen queue
to `accept` and `connect_again` (`Connections`: a client is served, or once in the
queue, or neither; `Waits`: one that types or reads is connected, and one that reads
has its request or its answer under way).  They assume `DistinctReplies`: a client ends
its connection when it reads `disconnecting`, so one that reads a stored value of that
text leaves while the server still serves it.

`AllocatorProofs` proves, for any numbers of pages and blocks, any frames that
`mmap` may return, any lengths asked for and any `int` that holds the distances inside
a page (`AllocatorAssumption`):

| Theorem | Says |
|---|---|
| `TablesCorrect` | `Spec => []TablesInv` |
| `PiecesCorrect` | `Spec => OnlyEmptyFreesCorrupt` |
| `Refinement` | `Spec => ImplementsHeap` |

`TablesAgree` says that the two tables of a page tell the same: a block is free when
no piece takes it up, and no two pieces overlap.  `dealloc` also needs to find the
page of a pointer (`BasesApart`, `HeldPlaced`, with `BlockAddress` for the
arithmetic of addresses).  What the cast to `int` does to a distance is said once
(`CastTakesSpans`, `CastIsExact`): it takes away whole spans, and a span is a whole number
of pages, so that a pointer into a page at another distance than a whole number of spans
never matches, and one at that distance matches at its own index (`CastMatches`), which
is why the tables are used inside their bounds even for shadowed pages; a pointer always
matches the page it came from (`CastKeepsIndex`).  `alloc` of `ealloc.c` needs that pages are mapped in order and are
empty when first looked at (`MappedFirst`, `FreshPages`).  For the
refinement `RunLength` and `PlaceFound` say what the loops find, the maximal rows of
free blocks and the shortest one that suffices, and `RoomIsFitting` that this is a place
in the sense of `Heap`, so that a refusal or a new page means there was none for the
length asked for; `WholeBlocks` and `NothingFitsAsOne` treat the lengths of no blocks.

**What is only model-checked.**  Liveness (`AllThreadsReturn`, `AllThreadsFinish`,
`AllItemsConsumed`, `OneWorkerTerminates`, `RequestAnswered`, `FinishedReaped`,
`BothEnd`): the prover does not reach properties that depend on fairness; that nobody
gets stuck, without which they could not hold, is proved for all but
`FinishedReaped`: the shell waits only for its children to end and its user to type.  And the two
counterexamples of the runs `wp_two_locks` and `mw_hang`, which are behaviours of one
instance.

## 6. Disagreements found

Two are runs whose property, a sentence of the repository, is violated.

- `wp_two_locks` - `waiting_writers` (`rwlock-writer-pref.cpp:3`) is shared by all
  locks.  A reader of a free lock goes to sleep because a writer waits for another
  lock, and that writer's unlock broadcasts on its own lock only.
- `mw_hang` - with several workers, one may sleep on `is_empty` when another takes
  the last item; nobody signals `is_empty` again and `main` waits for ever.

The others are behaviours the models have.  Where a property touches one, it excepts
exactly that and says how far it reaches:

- `master-worker.c:40` - a master that passed the unlocked loop condition stores
  one more item into a full ring, over one not consumed yet; likewise a worker
  takes from an empty ring.  `OverrunBounded` says by how much either can happen.  The
  item that was stored over is lost: with two masters, two slots and four items the
  workers may print 0, 1, 4, 3.  `AllItemsConsumed` excepts exactly the runs in which
  this happened.
- `master-worker.c:52` - one worker hangs the program too when there are more than
  `max_buf_size + 1` masters: once the last item is produced only the worker's
  signals for the items left in the buffer wake masters, and with more masters than
  that one may sleep on `is_full` for ever (seen with 3 masters and one slot).
- `simplefs-ops.c:11` - a deleted file keeps its name: deleting it again fails
  `assert(... == INODE_IN_USE)`, opening it returns a handle to a free inode.
- `simplefs-ops.c:153` - the size check uses the handle's offset, the data goes to
  the end of the file: `direct_blocks` is indexed past its end (`AppendsFit`).
- `simplefs-ops.c:161` - "write `nbytes` of data from `buf` to file pointed by
  `file_handle` starting at current offset" (line 143): the data goes to the end of the
  file, and the bytes at the offset stay as they are.  `ImplementsFileStore` excepts
  exactly the handles that are not at the end of their file.
- `simplefs-ops.c:166` - a write that runs out of space leaks its first blocks;
  `OnlyFailedWritesLeak` shows that nothing else leaks.
- `alloc.c:59` - a request of length 0 gets a pointer that the next request gets
  too, and freeing the one frees the other (`OnlyEmptyFreesCorrupt`).
- `ealloc.c:88` - the distance of a pointer from a page is cut to an `int`.  If `mmap`
  returns two pages a multiple of 4 GiB apart, freeing a piece of the later one frees
  what lies at the same place of the earlier one (`TablesInv` and the other properties
  of `alloc` except exactly that).
- `my_server.c:154` - a deleted slot is found again under key -1 with its freed
  value; updating or deleting it frees a chunk twice, or one that another key has
  by then.  `my_server.c:103` - slots of deleted keys are never used again.
- `my_server.c:193` - an empty line, or a client that hangs up, stops the server.
- `my_shell.c:34` - reaping moves the entry *past* the last over the finished one,
  so with two background processes a running one can drop out of the table.  It is
  then never reaped, and `exit` may kill number 0, the shell's own group.
- `my_shell.c:119` - commands joined by `&` share an array, see section 3.
- `my_shell.c:18` - a full table is reported and written to all the same; its
  memory is one `int`.
- `my_shm_posix_cons.c:41` - the end of the fifo is not noticed: a consumer whose
  producer died goes on with the last slot, 1000 items in all.
- `rwlock-reader-pref.cpp:49` - a writer may overtake waiting readers
  (`test-reader-pref.cpp:166` expects the readers first; both are behaviours of
  `RWLock`).

## 7. What is not modelled

- simplefs calls with a closed handle (inode number -1 addresses the superblock)
  or a negative byte count: below the level of the model.  `simplefs_dump` only
  prints.
- master-worker with a buffer size of 0: excluded by `MWAssumption`; every thread
  would sleep at once.
- Writers of several writer-preference locks at the same time (a data race on
  `waiting_writers`).
- Failing `pthread` calls, which the code does not check.
- Failing `mmap`, `fork`, `malloc` and socket calls, whose paths in the code only
  print and exit, or do not exist (`ealloc.c:65`).
- The key-value server's requests with missing words or negative sizes, and
  requests or replies split by TCP: the code has no handling of either.
- The second shell that a failed `execvp` leaves behind (`my_shell.c:92`): it would
  be a second instance of `Shell` that shares its children and its terminal.
- `pipes_ex.c`, `pipes_ex1.c`, `fifo_reader.c`, `fifo_writer.c`, `socket_server.c`,
  `socket_client.c`: one write on one side and one blocking read on the other, no
  state that two steps could disagree about.  What can go wrong there is plain
  from the line: `pipes_ex.c:41` reads as many bytes as a length says that only the
  child ever sets, and `pipes_ex1.c:40` takes one read for a whole array, which a
  pipe passes in pieces when it is larger than 64 KB.
- `test_alloc.c`, `test_ealloc.c`: fixed call sequences that `Allocator` admits.
- Shell scripts and expected outputs: no state.
