# A formal model of the class-projects programs

The repository is a collection of student programs. Several of them are small systems with state
that is hard to get right: a disk with a write-back cache, a file system on top of it, a distributed
file system, a messaging client with concurrent senders and pollers, a traffic server. This
directory holds TLA+ models of them, the TLC runs that check the models on small instances, and
theorems proved with TLAPS for every value of the constants.

Files in the text below are relative to `src/`.

## 1. The parts, their state and what makes them correct

**Block disk and block cache** (`Old/OS/pa1/mydisk.c`, `caching.c`; the same files again in
`Old/OS/pa2/a1`). State: the file of blocks; the cache as a ring of entries (block id, dirty flag,
content), the number of entries in use, the cursor where the next one goes. Operations: create and
close the disk, open and close the cache, read and write a block, read and write a range of bytes.
Sequential. Hard: a block's current value is in the cache or in the file, and evictions, write-backs
and partial writes move it from one to the other; errors of stdio are ignored in places. Correct
when a caller cannot tell the disk from an array of bytes.

**SFS file system** (`Old/OS/pa2/fs.c`, `Old/OS/pa3/a2/fs.c`). State: super block, free map, inodes,
directories, frames of block numbers on disk, the table of open files in memory with a copy of each
inode. Operations: mkfs, mkdir, rmdir, ls, open, close, remove, read, write, seek, eof. Sequential.
Hard: structures that must agree (a block is free or has one owner), two descriptors on one file
each with a copy of the inode, full disks and full directories. Correct when callers see files of
bytes that do not touch each other, and each block is free or has one owner.

**Distributed file system** (`Old/OS/pa3`). A namenode (two threads: `register_datanode` takes
heartbeats, `mainLoop` serves clients), datanodes that store blocks, clients that push, pull and
modify files. They talk over TCP, a connection for each request. State: the namenode's `dnlist`,
`dncnt`, `safeMode` (shared by the threads, no lock) and its `file_images`; each datanode's block
files. Hard: the threads' races on `dncnt`, requests without an answer, pushes nobody acknowledges,
clients that work on one file at once, processes that stop. Correct when a pull returns what was
pushed, the registry counts who registered, and calls end.

**Messaging client** (`TelecomLab3`). Threads: the user interface, a pool thread per message sent, a
thread that reads answers (`ResponseHandler`), a timer that polls for new messages
(`MessagePoller`). State: two maps from message type to callback, the user's name and login flag,
the socket. Hard: callbacks registered while one runs, answers matched to requests by type alone,
the order of concurrent sends. Correct when the stored user is the one the server has logged in, and
each answer runs the callback of its own command, once.

**Traffic server and client** (`TelecomProject`). Per connection a traffic source fills a leaky
bucket at one rate and a transmit task drains it at another. State: the bucket's queue, the
scheduled tasks, the position in the traffic trace. Hard: two periodic tasks on one queue with a
capacity, tasks that stop one another, errors that stop one of them. Correct when the client gets
the data in order with no loss but the bucket's, and nobody goes on writing to it when it has gone.

**Crossword by hill climbing** (`AI/Assignment 1`). A search over assignments of words to positions,
with restarts.

**Halma player** (`AI/Project`). Search for a move with a time limit, a bounded result list.

**Vector calculator for Android** (`amv`). Forms, mode flags and floating-point formulas.

## 2. Plan

The order put first what the other programs rest on and what is hardest to test.

1. `BlockStore`, `BlockCache`, `FlatDisk`, `ByteDisk`: the disk, its cache, its byte interface, and
   the two abstract specifications they implement. Proofs in `DiskProofs`. **Done.**
2. `Namenode`: both threads and the file table. Proofs in `NamenodeProofs`. **Done.**
3. `Dfs` (extends `Namenode`): clients, namenode and datanodes at work together. Proofs in
   `DfsProofs`. **Done.**
4. `Sfs`: every call of the file system over its blocks; `SfsFiles` (extends `Sfs`): careful
   callers, and the abstract `FileStore` they see. Proofs in `SfsProofs` and `SfsFilesProofs`.
   **Done.**
5. `MessageClient`: console thread, poller, send tasks, response thread. Proofs in
   `MessageClientProofs`. **Done.**
6. `TrafficServer`: source, bucket and the life of a connection. Proofs in `TrafficServerProofs`.
   **Done.**

Runs are kept few: a component has one run for its safety and refinement and one for failures or
liveness, and a run that refutes a comment of the code only where the disagreement matters to a
caller.

## 3. Modules and how they correspond to the code

| Module | Models | Kind |
|---|---|---|
| `BlockStore` | what `mydisk.h` promises of the block calls: an array of blocks | abstract |
| `BlockCache` | `caching.c` and the block calls of `mydisk.c` | detailed, implements `BlockStore` |
| `FlatDisk` | what `mydisk.h` promises of the byte calls: an array of bytes | abstract |
| `ByteDisk` | `mydisk_read`, `mydisk_write`; extends `BlockCache` | detailed, implements `FlatDisk` |
| `Namenode` | `dfs_namenode.c`, both threads | detailed |
| `Dfs` | `dfs_client.c`, `dfs_datanode.c`, `datanode/ext.c`, `dfs_common.c`; extends `Namenode` | composition |
| `Sfs` | `pa2/fs.c` (and `sfs_reloadfs` of `pa3/a2/fs.c`) | detailed |
| `SfsFiles` | `Sfs` as careful callers use it; extends `Sfs` | detailed, implements `FileStore` |
| `FileStore` | what a file system promises: directories, files, cursors | abstract |
| `MessageClient` | `TelecomLab3` with its commands, the server as its environment | detailed |
| `TrafficServer` | one connection of `TelecomServer` | detailed |
| `MC...` | values for TLC | instances |
| `...Proofs` | theorems | proofs |
| `Arithmetic` | lemmas on products, quotients and remainders for the proofs | lemmas |

**BlockCache.** `disk` is the file (`Absent` past its end, since `fseek` and `fwrite` beyond it
leave zeros between), `ring_buffer`, `cache_size` and `next_insert_pos` are the C variables,
`result` is what the last call returned. One action per call; a call is atomic, as the program is
sequential. `mydisk_read_block` and `mydisk_write_block` are disjunctions of their paths (refused
id, no cache, hit, miss). Callers pass any id (`BlockIds`): the guards refuse those above `nblocks`
only, so ids below 0 go on to the cache, where -1 is also the mark of an empty slot (`PassedIds`).
`Leftovers` is what `malloc` may have left in the one slot that is never filled. With `IOFails`
every stdio call may fail, and the code's ways of ignoring that are kept: a failed write-back is
forgotten, a failed read leaves an entry of zeros behind. `BlockStore!contents` is refined by
`Contents`: the cached copy where there is one, the file elsewhere.

**ByteDisk.** `call` holds the arguments of the call in progress, `loop` its locals. A step of the
model is one call of the block layer, so evictions happen in the middle of a range. The buffers are
functions from index to byte. Arguments are ints of a bounded range, and the sum of two wraps round
(`Wrap`) in the test at the head of a call, as it does in a program built without optimisation.
`FlatDisk` takes effect at once when a write is called; the mapping adds to the block contents what
the call in progress has still to write.

**Namenode.** `dnlist`, `dncnt`, `safeMode` are shared. A step is one access to one of them, with
what the thread does on its own before and after: `Allocate`, `FillId`, `FillIp`, `FillPort`,
`ResetCount`, `CountSlot`, `EndHeartbeat` for `register_datanode`; for `mainLoop` `Accept`, which
runs a handler up to its first access of shared data, then one step per field that is read for a
block (`AssignId`, `AssignIp`, `AssignPort`) or per datanode that is listed. The build has no
optimisation flag, so an access in the source is an access in the program. `malloc`ed memory holds
`Garbage` until it is filled. A division by zero and an access through a null pointer end in
`Crash`. `file_images` belongs to the main thread alone. The network is the choice of the next
heartbeat or request, at any time and in any order; repeated and reordered ones are among them.

**Dfs.** A client is at one place of its one call (`pc`): asking the namenode, in its loop over the
blocks, waiting for a block. `push_file`, `pull_file`, `modify_file` and `get_system_info` begin a
call; `Connect` is the namenode's `Accept` of that client, `NamenodeWorks` its main thread's steps,
with the answer received in the step that sends it. `SendBlock` and `AskForBlock` are one turn of
the client's loop: connect, send, and for a push close without waiting. `Heartbeat` and
`HeartbeatWorks` are the namenode's other thread, which goes on counting the datanodes while
requests are served (`LateHeartbeats` says whose heartbeats come). When a recount brings the
namenode down, the clients that wait for it spin (`LoseConnections`), later calls are refused
(`Refused`), and each datanode fails an assertion at its next heartbeat (`HeartbeatAborts`).
`queue[d]` is datanode `d`'s listen queue; the datanode takes the longest waiting connection
(`create_block`, `read_block`). `stored[d]` is its directory of block files. What the C code leaves
to chance is kept: the tail of a stack buffer after a short `fread` is `Garbage`; a peer that closes
makes `receive_data` spin for ever (`"spinning"`); a connect nobody accepts fails an assertion
(`"aborted"`); a block file that is not there ends the datanode (`ReadMissing`). `original` is a
history variable for `PulledIsPushed`.

**Sfs.** A block of `disk` is a record of the structure last written to it: super block, map,
directory, inode, frame, data. `sb`, `freemap` and `fdtable` are the three globals in memory. Every
`sfs_*` call is an action that performs all its reads and writes; `Listing` follows a chain of
blocks, `Allocated(k)` is the `k`-th id that `sfs_alloc_block` hands out. When a call writes where
it has no right to (block 0 for lack of a free one, an id it was never given), `broken` becomes true
and the model stops: what follows in C depends on what the bytes of one structure mean as another.

**SfsFiles.** `CarefulCalls` restricts the caller to what `BreaksAreExplained` leaves: room for what
it asks, one descriptor per file, transfers that start in a file's first block and end before its
end, no read of nothing at the very start (the unsigned `cur + length - 1 > size` of `fs.c:681` then
takes the whole file), no removal of the first directory while there are others, no seek from the
end, no `sfs_eof` right at the end. Under these rules `FilesIn` and `OpenedIn` read the files and
cursors out of the blocks, and every call is the `FileStore` action of its name.

**MessageClient.** Each synchronized method of `User` is a step, and so is each access of a callback
map (the message types 20 to 29 share no bucket and make no map grow, so accesses of different types
do not disturb each other). `ui` is the console thread, `poller` the timer thread, `resp` the
response thread, each a record of where it is and what it has in its hands; `outbox` holds the
messages whose pool task has not run, and a `SendTask` may run in any order; the server answers in
the order it reads, and never an empty message (`Empty`; `DeleteCommand.java:51-52`), such as that
of an echo without text. `overlapped` and `hasty` are history variables: they mark what the user or
two overlapping callbacks did that a property makes an exception for.

**TrafficServer.** `thread` is `ConnectionHandler.run`: it reads two bytes, starts the leak task and
the source, and assigns the source's future after the task may already run. A run of a periodic task
is one step, since both run on the connection's single scheduler thread; their periods are left out,
so any number of runs of one may come between two of the other, which covers every rate.
`FirstPiece` and `SecondPiece` are the two writes of `TrafficSource` at the end of the data.

## 4. Runs

| Run | Result | Distinct states | Shows |
|---|---|---|---|
| `cache_store` | pass | 205,202 | ring shape, coherence, no dirty data lost, first-in first-out replacement, refinement of `BlockStore` |
| `cache_faults` | pass | 390,041 | with failing stdio: no block's bytes go to another block; a clean entry is its block or zeros |
| `bytes_flat` | pass | 104,896 | the byte calls implement `FlatDisk`, charge each block once, and end |
| `namenode_registry` | pass | 1,721,726 | exact count; what a request can meet in the registry |
| `namenode_images` | pass | 597,265 | one image per file, complete and numbered lists; requests end, service starts |
| `namenode_divisor` | refuted | | `dfs_namenode.c:158`: the divisor is the number of datanodes |
| `dfs_calls` | pass | 448,449 | with heartbeats during calls: what was pushed is pulled; datanodes go down in a race only; calls end unless a process goes down |
| `sfs_calls` | pass | 242,118 | what damages the tree, loses blocks or leaves a descriptor stale, and nothing else does |
| `sfs_files` | pass | 47,747 | for careful callers: the tree stays whole, and files are those of `FileStore` |
| `client_commands` | pass | 41,713 | the session is the stored user's, answers find their callbacks, callbacks are used up, an expired session is noticed |
| `client_lost_callback` | refuted | | `CommHandler.java:66`: a callback is called once |
| `traffic_stream` | pass | 166,200 | the client gets the data in order; nobody is left writing to it |

**Bounds, and why they are enough.** The cache runs have 2 blocks, the id one past the end, which
the code takes for valid, and one above that, which it refuses; and the ids -1, the mark of an empty
slot, and -2, another one the guards let through. The ring has 3 slots, of which the code uses 2:
five ids compete for two places, so evictions, hits and misses of every kind occur, the cursor
wraps, and `cache_size` passes the capacity by the one that an evicted -1 adds. Two values, zeros
and one other, tell a block's current copy from a stale one, whichever of the two is current. The
code only copies blocks, so more values add nothing. `bytes_flat` has 3 blocks of 2 bytes over a
ring that holds 1 block, and 7 as the largest int, so that sums of arguments overflow: each range of
more than one block evicts, and ranges may start and end inside blocks and cover a whole one
between. `WriteBuffers` gives two buffers per length that differ in every byte.

`namenode_registry` has a table of 3 and datanodes 1 and 2 (2 may register first: a hole), datanode
1 also under another address (an entry filled again while it is read), and id 3, which is dropped;
requests that assign 2 blocks, so the round robin goes round. `namenode_images` has 2 images for 3
files, sizes of 1 and 3 with blocks of 2 (one block, two blocks, a partial last one), so pushes are
repeated with the same, larger and smaller sizes and mixed with modifies. Block ids are bounded by
twice the longest list: `TypeOK` shows the bound is never reached past.

`dfs_calls` has a datanode on each of two hosts and one file name. One client has a file of two
blocks and makes one call, the other a file of one byte and makes two: pushes, pulls and modifies of
the second block by either, over listen queues of 2, so that a queue fills while a block of the
other client waits in it. A pull can overlap a push in every way: before, between and after its
blocks are sent and stored. The second datanode heartbeats at any time; each heartbeat recounts all
datanodes, so it stands for both, and recounts meet every read of an assignment: addresses are torn,
and the namenode crashes with either client waiting. The safety properties were also checked without
heartbeats, on one host, with three calls each (1.8 million states).

`sfs_calls` has six free blocks for directories, inodes, frames (of one block) and data, two names
each and two descriptors: full disk, full directory, two descriptors on one file, files of two
frames all occur; `MaxLeaked` 0 stops a behaviour at the first lost block, and the same properties
held with five free blocks and one block lost before (937 thousand states). The two directory names
and the two file names are interchangeable (`NamesAlike`): no action or property treats one unlike
another. `WithoutAnswers` identifies states that differ in `result` alone: no guard reads it, and
the properties read only its new value, which is that of the step TLC checks. `sfs_files` has ten
free blocks, one file name in two directories, frames of two blocks, writes of one and of five bytes
(more than a frame), reads of nothing and of three bytes, and up to two lost blocks, as each removed
file leaves its own behind.

`client_commands` has two commands of any kind, two names and one account, polls, and a session that
expires; an echo has no text or one of two: two commands suffice for each pair of callbacks to
overlap and for a poll to come between; the safety properties also held for three commands (3.2
million states). `traffic_stream` has data of five bytes, runs of two (which do not divide five, so
the wrap-around meets every offset) and six (longer than the data, which kills the source), and a
queue of four that overflows; three bytes leave at a time.

**What the models start from.** `RequestsAssumption`: files fit their `block_list`; nothing in the
code checks it, and a larger file would be written past the array. `HeartbeatsAssumption`: ids are 1
or more, as the comment at `dfs_namenode.c:87` says and nothing checks. Callers of the disk open it
before the cache and close the cache first, as `test.c` does. `CacheBlocks >= 2`: with one block the
cursor leaves the ring. A block id is any int whose place in the file is one, too
(`BlockIdsAssumption`); the last address of the disk is an int (`IntMaxAssumption`). In `Dfs` all
datanodes have registered under the ids 1 to their number, fewer than `MAX_DATANODE_NUM`, and keep
addresses of their own (`RegisteredAssumption`); how they come to be registered is `Namenode`'s
subject. A client may ask for anything that fits a block list (`AskedAssumption`), its local files
are sequences over `Bytes`, which holds the zero and the garbage byte (`FilesAssumption`), and a
modify names a range inside a file that fits (`RangesAssumption`). A caller of `mydisk_write` passes
a buffer as long as it says (`WriteBuffersAssumption`). Callers of SFS pass descriptors they got and
have not closed. In `MessageClient` a message arrives whole, the connection stays open, and at most
one poll is under way.

**Fairness.** Runs with liveness use weak fairness of each thread's steps, never of the arrival of
messages, of a command being typed or of a client leaving: a thread that can take a step takes one,
which is what a scheduler gives. The single thread of the disk runs its call on (`bytes_flat`).
`RequestsEnd` depends on heartbeats not being able to keep the main thread's loop going;
`ServiceStarts` on the heartbeat thread finishing the registration it began. `FairDfsSpec` lets both
threads of the namenode, each client and each datanode run on, and each client that has asked be
accepted in its turn (a listen queue is first-in first-out; weak fairness says it here, as the
others make only so many calls). In `MessageClient` each thread runs on, each pool task runs, and
the server answers what is not empty. In `TrafficServer` both tasks are run again and again by their
scheduler, and a socket whose peer has gone sooner or later fails a write. `NobodyIsLeftWriting`
supposes a rate of 20 bytes per second or more: below that the bucket sends nothing (`OutputRate
\div 20` is 0), never writes and never fails.

`CHECK_DEADLOCK FALSE` where the program may stop: the namenode and a datanode may crash, calls and
commands are bounded, the file system's model ends when a call damages the tree, a client that has
left ends its tasks.

## 5. Proofs

Every theorem holds for all values of the constants that satisfy the named assumptions of the
module.

**The cache** (`DiskProofs`). The inductive invariant is `TypeOK /\ RingShape /\ DiskCoherent`.
`RingIsWellFormed` is about every id a caller may pass: with the id -1, which marks an empty slot
and which no guard refuses, `cache_size` may count one slot more than the ring has in use, and the
search then runs over the slot that is never filled, but not out of the ring; for callers that never
pass -1 it keeps to the capacity. Types alone are not inductive: that `cache_size` stays in the ring
needs the shape, since a miss counts up when the slot at the cursor is empty. Coherence needs the
shape too: were a block cached twice, `find_cached_entry` could return a stale copy.
`ReadMissKeepsIInv` is the step with something at stake. On it rests `BlockCacheImplementsStore`:
each call maps to a call of `BlockStore`, where a miss that evicts a dirty block is shown to move
that block's content from the ring to the file. `CleanEntriesAreFileOrZeros` says what remains of
coherence when stdio fails: a clean entry is its block in the file, or zeros. Three more theorems
are about steps: `DirtyDataIsNeverDropped` (a dirty block leaves the ring only for the file, as long
as stdio works), `BytesGoHome` (a block of the file changes to what was written to it, to its own
dirty entry's bytes or to the zeros of `mydisk_init` and of a hole, whatever stdio does) and
`OldestIsReplacedFirst` (the entry that goes is the one that came first).

**The byte disk** (`DiskProofs`, second half). A step of a byte call is a call of the cache, so the
cache's invariant carries over; `ByteInv` adds the types of the loop's locals and `CallInv`: the
arguments of the call in progress are in range, and the loop's block and offset are where the bytes
done so far end. Without the second, the block id of the loop could leave the disk
(`LoopStaysInRange`). `BlocksAreChargedOnce` adds `ChargeInv`: each block behind the loop is charged
once, and one the call covers in part is charged a read for the merge besides.
`ByteDiskImplementsFlatDisk` is the refinement step by step: `Carried` says that a step of the loop
leaves each byte of the mapping as it was, since what it writes to a block is what the mapping had
pending for it, so it is a stutter; the start of a call and its return are steps of `FlatDisk`.

**The namenode** (`NamenodeProofs`). The registry's invariant says what `dncnt` counts at each place
of the heartbeat thread (`CountByPlace`: all datanodes; all but perhaps the one being filled; those
passed by the recount) and where garbage can be (`GarbageByPlace`: in the entry being filled, which
is then not counted). It is inductive on its own: the main thread writes none of it. The main
thread's invariant (`MainInv`) adds its types, that a loop fills an image that exists at an index
the list has, and that images have different names; it needs that `ImageOf` finds an image when
there is one (`FirstImageIsFirst`, by well-foundedness of finite initial segments) and the bound on
`BlockCount` (integer division). The theorems: `TypeCorrectness`, `CountCorrectness`,
`EntriesAreFilledFirst` and `CrashesAreExplained` (both by counting: more than `s` registered
datanodes other than `s` leave one above `s`), `ImagesAreApart`.

What the round robin deals is `DealInv`: every image but the one in hand is dealt to its end, the
one in hand up to the loop's index (`LoopDealsInOrder`), and the block in hand has its datanode and
number between the two (`BlockInHand`). That a list is complete is not inductive, since the loop
fills it in place in the shared table: it holds again only when the loop ends. `ListsAreComplete`
and `NumbersFollowIndices` follow from it.

**The distributed file system** (`DfsProofs`). Heartbeats and crashes are among the steps. Each step
of `DfsNext` is a step of `Namenode` or leaves its variables alone, so the namenode's two invariants
hold in the composition and are used there. `DfsTypesAreCorrect` needs `CallInv` too: an answer fits
what its client asked for because the namenode works for the client it has in hand, and a client's
index stays in its list because that list is complete. `PullsGetThePush` (of a file that was pushed
once and never modified, a pull gets what was pushed) rests on two more. `ReadInv`: a client waits
for one answer at a time and for the block at its index, so an answer cannot be taken for another
block's. `PushInv`: for such a file, the requests in every queue (`QueueInv`), the stored blocks
(`StoredInv`), the client that sends (`SenderInv`), the image (`ImageInv`) and each pull under way
(`PullInv`) have nothing but parts of the one content pushed. A pull that overlaps the push makes
all five necessary: it may ask a datanode for a block that is still in a queue, or not yet sent.
`PulledGrows` is the data's part: the first `n` blocks with block `n` behind them are
the first `n + 1`.

**The message client** (`MessageClientProofs`). Five invariants, for any number of commands. With
`TypeInv` (shapes; a callback sits under a type its handler handles; what each thread has in its
hands) and `CountInv` (messages, answers and threads about to send are no more than the commands and
the poll under way, so that the sequences stay as short as `TypeOK` says): `TypesAreCorrect`. With
`TokenInv` (a type whose callbacks did not overlap has one token, which is a thread about to send, a
message, an answer or a callback in use; until the callback is looked up the map holds it):
`AnswersFindTheirCallback`. With `EnterInv` (unless a command to log in or register is typed before
the last answer is in, one such command is under way at a time, and the name and password in `User`
and in its message are one user's): `CredentialsOfOneUser`. With `SessionInv` (a session's user is
the stored one, and the flag is set or the answer that sets it is on its way with nothing behind it
that clears it): `SessionBelongsToTheUser`. None is inductive without `TypeInv`, and `SessionInv`
needs the two before it: a login's answer sets the flag for the stored name, which is the message's
only while nobody else enters.

**The traffic server** (`TrafficServerProofs`). `TypeCorrect`: `TypeOK` is inductive together with
the order in which the thread sets the tasks up (`SetUpInOrder`). It holds the range of `offset`
between runs, which is `0 .. DataLength` and not one less: a run that ends with the data leaves the
offset at the end. `ClientGetsTheData`: the stream of bytes taken, queued and about to be written is
a chain in which each byte follows the one before. The inductive invariant (`StreamInv`) cuts that
stream where the steps cut it: what was taken and what is queued are chains, the first byte queued
follows the last one taken, and the byte at `offset`, with the number of bytes dropped so far,
follows the end of both. That a run keeps it is arithmetic of remainders (`RemainderOfSum`):
`WrittenAt` says which bytes a run writes around the end of the data, `GoesOnAfter` and
`GoesOnWithout` where the next one goes on when some or none of them found a place in the bucket.
The theorem needs no relation between the lengths: a run longer than the data ends the source, and
until then the stream is in order.

**The file system** (`SfsProofs`). The inductive invariant `IInv` is `TypeInv` (every id stored is
that of the super block, which stands for none, or of a block behind the map) and, until a call goes
astray, `Intact`. `Intact` counts: an intact storage is one in which the links are as many as the
blocks they lead to. The proofs turn that once, at constant level, into `Tree(dk, s, used)`: what is
linked has the right kind, and each block is held by one link (`CountedIsHeldOnce`, `IntactIsTree`).
A list is a recursive function of its length; what is listed (`ListedIsLeast`, `ListedIsClosed`),
that two lists agree when the blocks on them do (`WalkAgrees`) and what a list with something behind
it holds (`AppendedListing`) is shown by taking the least length at which it would be false
(`LeastNatural`), since the library's induction theorems take an operator as parameter. Each call
that writes has a lemma on what it makes of a tree (`MkdirTree`, `RmdirTree`, `OpenTree`,
`RemoveTree`, `GrowTree`, `BytesTree`) and one on the call itself, which shows that the writes in
the code are those of the lemma (`MkdirStep` to `WriteStep`). `NoOverrun` and `TargetIsStored` are
the arithmetic of a transfer: from the first block of a file to before its end, the number of each
block is one that `sfs_get_file_content` has stored. The theorems: `SfsInvariant`, `SfsTypes`;
`BreaksHaveAReason`, `LeaksHaveAReason` and `StaleByOthersOnly`, each of which names all that can go
wrong in a step and shows that nothing else does.

**Careful callers** (`SfsFilesProofs`). `CarefulCallersAreSafe` rests on `CarefulInv`, which adds to
`IInv` that nothing is broken, that every open descriptor agrees with the tree, and that no two are
open on one file. `CarefulCallersGetFiles` is the refinement: `CarefulSpec` implements `FileStore`,
for every size of storage, block and frame, any buffers, and any values of the bounds `MaxCursor`
and `MaxLeaked`. `FilesInv` adds to `CarefulInv` only `NamesOnce`: no two directories have one name,
and no two files of a directory. With it a name finds one inode (`FoundByName`, `FilesAre`), and the
files seen are a function of the storage alone (`FilesOf`). For each call a lemma at constant level
says what its writes make of that function (`MkdirFiles`, `RmdirFiles`, `OpenFiles`, `RemoveFiles`):
a file whose inode, frames and blocks are not written keeps its bytes (`KeptContents`), and no block
is part of two files (`FileBlocksApart`). A write grows the file and then fills it. `GrownContent`:
chaining frames behind the last one leaves what the file had in place. `BytesContent`: a byte of the
file is at one place in one block (`BytePlace`, `BlockListedOnce`), so that copying the buffer block
by block puts each byte of it where the file has that offset (`TargetIsBlock`, `ByteWritten`) and
none anywhere else. `MkdirMaps` to `WriteMaps` put these together: each call is, through the
refinement mapping, the call of `FileStore` of that name. What the bytes are that a growth adds and
nobody wrote, `FileStore` leaves open; the proof only finds them to be bytes (`ByteInTyped`).

Each inductive invariant was checked by TLC on the instance of the component's run before it was
proved.

**Only model-checked.** Liveness (`CallsReturn`, `RequestsEnd`, `ServiceStarts`, `CallsEnd`,
`CallbacksAreUsedUp`, `ExpiryIsNoticed`, `NobodyIsLeftWriting`): out of the prover's reach.
`DownNeedsRace`: it depends on the ranges clients modify, and there are ranges within
`RangesAssumption` for which a client alone asks a datanode for a block nobody sent; the run has
those that a careful client uses.

## 6. Where code and comments disagree

Two runs refute what a comment says:

- `namenode_divisor`: the divisor of the round robin is 0 or too small during a recount
  (`dfs_namenode.c:103`, comment at 158).
- `client_lost_callback`: a callback registered while an older one of its type is being used is
  thrown away with it (`ResponseHandler.java:112`, comment at `CommHandler.java:66`).

The others, seen in the code and modelled as the code has them, have no run of their own:

- The guards at `mydisk.c:48` and 103 have no lower end, where `mydisk.h:31-33` says that invalid
  ids are refused. With the cache on, the first read of an id below 0 returns 1 but has registered
  the id (`caching.c:105`), and from then on reads and writes of it are hits. The id -1 is besides
  the mark of an empty slot, so `cache_size` is counted up again when its slot is reused
  (`caching.c:117`) and goes past the ring's capacity. `RingShape` says exactly how far.
- The result of the write-back at `caching.c:98` is ignored, so when it fails the evicted block's
  only current copy is overwritten, "taken care of" (comment at 102) or not.
- `/echo` without text sends an empty message (`CommandHandler.java:35`, `EchoCommand.java:48`),
  which the server never answers (`DeleteCommand.java:51-52`), where `EchoCommand.java:11-12`
  promises a response. Its callback waits for the answer to another echo, the exception
  `CallbacksAreUsedUp` makes.
- `mydisk.c:48` accepts the block id `max_blocks`, one past the last; `mydisk.h:31,39` say an
  invalid id is refused.
- `mydisk.c:156` refuses a range that ends with the disk's last byte; `mydisk.h:50,59` refuse
  invalid addresses only.
- `close_cache` returns 0 whatever its writes returned; `mydisk.h:77` says 1 if any error.
- The cursor of the ring turns back one slot before the end, so a cache of `n` blocks holds `n - 1`;
  the comment at `caching.c:109` says the next position is the next in sequence.
- The id `MAX_DATANODE_NUM` is dropped (`dfs_namenode.c:85`), though the comment two lines below
  gives it the place `dnlist[MAX_DATANODE_NUM - 1]`.
- A system query takes `dncnt` for the reply and again for each turn of its loop, so the number and
  the list of one reply may differ (`dfs_namenode.c:207-213`).
- A second push numbers its new blocks from the old length (`dfs_namenode.c:148`); `test.c:91-94`
  expect block `i` to have number `i`. A modify after a larger push shortens the file
  (`dfs_namenode.c:238`), where the comment at 231 appends.
- `modify_file` ends its loop one byte early and copies whole blocks from a buffer that may be
  shorter (`dfs_client.c:49`); the comment at 42-44 has it go through "all blocks that need to be
  processed".
- `sfs_rmdir` of the first directory empties the list (`fs.c:376`), with the directories behind it;
  the comment at 343 speaks of the removed one alone. `sfs_seek` treats `SFS_SEEK_END` like
  `SFS_SEEK_CUR` (`fs.c:743`), `sfs_eof` and the end of a read are one byte late (`fs.c:757`,
  `681`), callers do not keep the guarantee stated at `fs.c:171`, and `sfs_open` in a full directory
  ends without a value.
- `sfs_remove` never frees a file's content blocks (`fs.c:541`), and `sfs_alloc_block` hands out ids
  up to 4096 (`fs.c:39`) over a storage of 1024 blocks.
- `ExitCommand` registers a null callback, so an answer to it ends the response thread, half a
  second or less before the program ends; `SendMessageCommand` without a comma ends the console
  thread.
- At an output rate of 1024 bytes per second the bucket sends 51 bytes per 50 ms, 1020 in a second.

## 7. What is not modelled

- Of the namenode: an address copied in part (`memcpy` of the `ip` is one step); the `content` and
  `owner_name` of a block, `live_marks`, which nothing uses, and a client that disconnects in the
  middle of a request (`receive_data` spins then, as `Dfs` has it for clients).
- Of the disk: the latencies; the counts of hits and misses they come from are modelled. A failed
  `fwrite` writes nothing in the model, never a part of a block.
- Of the distributed file system: files longer than a block list, a datanode that is started again,
  and `exta2.c`, which stores blocks in SFS (`Sfs` models SFS on its own).
- Of SFS: what happens after a call has damaged the tree; and the buffers of stdio. `sfs_reloadfs`
  opens the storage anew through a second `FILE` (`pa3/a2/fs.c:769-781`), which does not see what
  the first has not flushed; the model reads the same storage again.
- Of the messaging client: the framing of `Message.java` (a `read` that returns fewer bytes than
  asked is not retried there), the console's parsing and printing, the server's implementation,
  which is not in the repository.
- Of the traffic programs: the periods of the tasks, and the client, which sends two bytes and then
  measures wall-clock rates.
- The crossword solver: one sequential hill climb after the other, each a function of its random
  start that outlives nothing and that a unit test can compare with all neighbours.
- The Halma player: its search space is the board game's, beyond a small instance that would still
  say something; its time limit polls a clock. The Android calculator: floating-point formulas and
  layout. The socket exercise in C and the drivers of the assignments: no state of their own.
