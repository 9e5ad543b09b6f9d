----------------------------- MODULE BlockCache -----------------------------
(***************************************************************************)
(* The block layer of the simulated disk (Old/OS/pa1/mydisk.c) with its    *)
(* write-back block cache (Old/OS/pa1/caching.c).  Both are one            *)
(* sequential program: an action is one call of the interface of mydisk.h. *)
(***************************************************************************)
EXTENDS Integers, Sequences

CONSTANTS
    MaxBlocks,    \* the nblocks of mydisk_init
    CacheBlocks,  \* the nblocks of init_cache
    Data,         \* the values a block can hold
    Zero,         \* the block of zero bytes, one of Data
    Absent,       \* a place in the file that does not exist yet, not in Data
    BlockIds,     \* the ids callers pass, negative ones and too large ones included
    Leftovers,    \* what malloc'ed memory can hold before it is written
    IOFails       \* may fopen, fread and fwrite fail?

(* The ring is indexed outside its allocation with one cache block, see    *)
(* the README: the model starts at two.                                    *)
ASSUME MaxBlocksAssumption == MaxBlocks \in Nat \ {0}
ASSUME CacheBlocksAssumption == CacheBlocks \in Nat /\ CacheBlocks >= 2
ASSUME DataAssumption == Zero \in Data /\ Absent \notin Data
ASSUME LeftoversAssumption == Leftovers \subseteq Data /\ Leftovers # {}
(* Ids whose place in the file, block_id * BLOCK_SIZE, is an int. *)
ASSUME BlockIdsAssumption == BlockIds \subseteq Int /\ 0 .. MaxBlocks \subseteq BlockIds
ASSUME IOFailsAssumption == IOFails \in BOOLEAN

VARIABLES
    disk,             \* the file: block id -> value, or Absent past its end
    disk_open,        \* is the file open?
    cache_enabled,
    ring_buffer,      \* slot -> entry; freed and unused while the cache is off
    cache_size,
    next_insert_pos,
    result            \* the last call and what it returned

cacheVars == <<cache_enabled, ring_buffer, cache_size, next_insert_pos>>
vars == <<disk, disk_open, cacheVars, result>>

Blocks == 0 .. MaxBlocks - 1     \* the valid block ids
FileBlocks == 0 .. MaxBlocks     \* the ids fseek finds a place for
PassedIds == {b \in BlockIds : b <= MaxBlocks}   \* the ids the guard lets pass
Slots == 0 .. CacheBlocks - 1
NoBlock == -1                    \* block_id of an empty entry

Entry == [block_id : PassedIds \cup {NoBlock}, is_dirty : BOOLEAN, content : Data]
EmptyEntry == [block_id |-> NoBlock, is_dirty |-> FALSE, content |-> Zero]
EmptyRing == [i \in Slots |-> EmptyEntry]

(* The ring as malloc returns it: the code clears the content of a slot    *)
(* when it takes it over, so only the last slot's is ever seen.            *)
FreshRing(leftover) == [EmptyRing EXCEPT ![CacheBlocks - 1].content = leftover]

Results ==
    [call : {"none", "mydisk_init", "mydisk_close", "init_cache", "close_cache",
             "mydisk_read_block", "mydisk_write_block"},
     block_id : BlockIds, ret : {-1, 0, 1}, buffer : Data \cup {Absent}]

IOOutcomes == IF IOFails THEN BOOLEAN ELSE {TRUE}

Return(call, b, ret, buffer) ==
    result' = [call |-> call, block_id |-> b, ret |-> ret, buffer |-> buffer]
-----------------------------------------------------------------------------
(* The slot that holds block b, or -1. *)
find_without_last(b) ==  \* a seeded fault: the scan stops one entry early
    LET hits == {i \in 0 .. cache_size - 2 : ring_buffer[i].block_id = b}
    IN  IF hits = {} THEN -1 ELSE CHOOSE i \in hits : \A j \in hits : i <= j
find_cached_entry(b) ==
    LET hits == {i \in 0 .. cache_size - 1 : ring_buffer[i].block_id = b}
    IN  IF hits = {} THEN -1 ELSE CHOOSE i \in hits : \A j \in hits : i <= j

Cached(b) == find_cached_entry(b) # -1

(* fseek + fwrite of one block: writing past the end of the file leaves a  *)
(* hole of zeros before it; a failed write, or an id below 0 for which the *)
(* fseek fails, leaves the file as it was.                                 *)
FileWrite(file, b, v, ok) ==
    IF ~ok \/ b < 0 THEN file
    ELSE [i \in FileBlocks |-> IF i = b THEN v
                               ELSE IF i < b /\ file[i] = Absent THEN Zero
                               ELSE file[i]]

(* A seeded fault: the cursor stays on the last slot it uses. *)
NextPosStays(pos) == IF pos + 1 = CacheBlocks - 1 THEN pos ELSE pos + 1

(* Where the ring's cursor goes: back to 0 one slot before the end. *)
NextPos(pos) == IF pos + 1 = CacheBlocks - 1 THEN 0 ELSE pos + 1

(* Seeded faults: an evicted entry is dropped; the slot's number is taken  *)
(* for the block's; a new entry is filled whether the read succeeds or not; *)
(* it is not cleared, and keeps the victim's bytes when it does not.       *)
WriteBackNothing(entry, wrote) == disk
WriteBackToSlot(entry, wrote) ==
    IF entry.is_dirty THEN FileWrite(disk, next_insert_pos, entry.content, wrote)
                      ELSE disk
NewEntryUncleared(b, file, read) ==
    [block_id |-> b, is_dirty |-> FALSE, content |-> IF b < 0 THEN Zero ELSE file[b]]
NewEntryKept(b, file, read) ==
    [block_id |-> b, is_dirty |-> FALSE,
     content |-> IF read THEN file[b] ELSE ring_buffer[next_insert_pos].content]

(* The file once a dirty entry was written back; the result of that write  *)
(* is ignored.                                                             *)
WriteBack(entry, wrote) ==
    IF entry.is_dirty THEN FileWrite(disk, entry.block_id, entry.content, wrote)
                      ELSE disk

(* The entry that takes over a slot; it keeps the zeros of the memset when *)
(* the read of its block comes back short.                                 *)
NewEntry(b, file, read) ==
    [block_id |-> b, is_dirty |-> FALSE, content |-> IF read THEN file[b] ELSE Zero]

(* create_cached_block(b) for a block that is not cached, and the fseek    *)
(* and fread of mydisk_read_block into the new entry.  The slot counts as  *)
(* empty by the id it held, which may be the id -1 of a caller.            *)
create_cached_block(b, wrote, got) ==
    LET victim == ring_buffer[next_insert_pos]
        file == WriteBack(victim, wrote)
        read == got /\ b >= 0 /\ file[b] # Absent
    IN  /\ disk' = file
        /\ ring_buffer' = [ring_buffer EXCEPT ![next_insert_pos] = NewEntry(b, file, read)]
        /\ next_insert_pos' = NextPos(next_insert_pos)
        /\ cache_size' = IF victim.block_id = NoBlock THEN cache_size + 1
                                                      ELSE cache_size
        /\ IF read THEN Return("mydisk_read_block", b, 0, file[b])
                   ELSE Return("mydisk_read_block", b, 1, Absent)
-----------------------------------------------------------------------------
Init ==
    /\ disk = [b \in FileBlocks |-> Absent]
    /\ disk_open = FALSE
    /\ cache_enabled = FALSE
    /\ ring_buffer = EmptyRing
    /\ cache_size = 0
    /\ next_insert_pos = 0
    /\ result = [call |-> "none", block_id |-> 0, ret |-> 0, buffer |-> Absent]

(* The file is created anew (fopen "wb+" truncates) and filled with zeros; *)
(* when a write fails the file is short, yet open, and callers go on.      *)
mydisk_init ==
    /\ ~disk_open
    /\ \/ /\ disk' = [b \in FileBlocks |-> IF b \in Blocks THEN Zero ELSE Absent]
          /\ disk_open' = TRUE
          /\ Return("mydisk_init", 0, 0, Absent)
       \/ /\ IOFails
          /\ \E written \in Blocks :
                disk' = [b \in FileBlocks |-> IF b < written THEN Zero ELSE Absent]
          /\ disk_open' = TRUE
          /\ Return("mydisk_init", 0, 1, Absent)
       \/ /\ IOFails
          /\ Return("mydisk_init", 0, 1, Absent)
          /\ UNCHANGED <<disk, disk_open>>
    /\ UNCHANGED cacheVars

(* Callers close the cache first (test.c:134-136). *)
mydisk_close ==
    /\ disk_open /\ ~cache_enabled
    /\ disk_open' = FALSE
    /\ Return("mydisk_close", 0, 0, Absent)
    /\ UNCHANGED <<disk, cacheVars>>

(* Callers open the disk first and open one cache (test.c:87-88). *)
init_cache ==
    /\ disk_open /\ ~cache_enabled
    /\ cache_enabled' = TRUE
    /\ \E leftover \in Leftovers : ring_buffer' = FreshRing(leftover)
    /\ cache_size' = 0
    /\ next_insert_pos' = 0
    /\ Return("init_cache", 0, 0, Absent)
    /\ UNCHANGED <<disk, disk_open>>

(* The entries close_cache writes back; a seeded fault forgets the last. *)
FlushedButLast == {i \in 0 .. cache_size - 2 : ring_buffer[i].is_dirty}
Flushed == {i \in 0 .. cache_size - 1 : ring_buffer[i].is_dirty}

(* Every dirty entry is written back, the results of the writes ignored.   *)
(* The writes go to distinct blocks, so their order is not modelled.       *)
close_cache ==
    /\ cache_enabled
    /\ \E wrote \in [0 .. cache_size - 1 -> IOOutcomes] :
          LET written == {i \in Flushed : wrote[i]}
              To(b) == {i \in written : ring_buffer[i].block_id = b}
              Above(b) == {i \in written : ring_buffer[i].block_id > b}
          IN  disk' = [b \in FileBlocks |->
                         IF To(b) # {} THEN ring_buffer[CHOOSE i \in To(b) : TRUE].content
                         ELSE IF Above(b) # {} /\ disk[b] = Absent THEN Zero
                         ELSE disk[b]]
    /\ cache_enabled' = FALSE
    /\ ring_buffer' = EmptyRing
    /\ cache_size' = 0
    /\ next_insert_pos' = 0
    /\ Return("close_cache", 0, 0, Absent)
    /\ UNCHANGED disk_open

ReadInvalid(b) ==
    /\ disk_open
    /\ b > MaxBlocks
    /\ Return("mydisk_read_block", b, 1, Absent)
    /\ UNCHANGED <<disk, disk_open, cacheVars>>

ReadDirect(b) ==
    /\ disk_open
    /\ b <= MaxBlocks /\ ~cache_enabled
    /\ \E got \in IOOutcomes :
          IF got /\ b >= 0 /\ disk[b] # Absent
          THEN Return("mydisk_read_block", b, 0, disk[b])
          ELSE Return("mydisk_read_block", b, 1, Absent)
    /\ UNCHANGED <<disk, disk_open, cacheVars>>

ReadHit(b) ==
    /\ disk_open
    /\ b <= MaxBlocks /\ cache_enabled /\ Cached(b)
    /\ Return("mydisk_read_block", b, -1, ring_buffer[find_cached_entry(b)].content)
    /\ UNCHANGED <<disk, disk_open, cacheVars>>

ReadMiss(b) ==
    /\ disk_open
    /\ b <= MaxBlocks /\ cache_enabled /\ ~Cached(b)
    /\ \E wrote, got \in IOOutcomes : create_cached_block(b, wrote, got)
    /\ UNCHANGED <<disk_open, cache_enabled>>

WriteInvalid(b, v) ==
    /\ disk_open
    /\ b > MaxBlocks
    /\ Return("mydisk_write_block", b, 1, v)
    /\ UNCHANGED <<disk, disk_open, cacheVars>>

(* A write goes to the file when the cache is off, and on a miss too. *)
WriteFile(b, v) ==
    /\ disk_open
    /\ b <= MaxBlocks /\ ~(cache_enabled /\ Cached(b))
    /\ \E ok \in IOOutcomes :
          /\ disk' = FileWrite(disk, b, v, ok)
          /\ Return("mydisk_write_block", b, IF ok /\ b >= 0 THEN 0 ELSE 1, v)
    /\ UNCHANGED <<disk_open, cacheVars>>

(* On a hit only the cache is written, and mark_dirty finds the entry again; *)
(* a seeded fault forgets to call it.                                      *)
WriteHitUnmarked(b, v) ==
    /\ disk_open
    /\ b <= MaxBlocks /\ cache_enabled /\ Cached(b)
    /\ ring_buffer' = [ring_buffer EXCEPT ![find_cached_entry(b)].content = v]
    /\ Return("mydisk_write_block", b, -1, v)
    /\ UNCHANGED <<disk, disk_open, cache_enabled, cache_size, next_insert_pos>>
WriteHit(b, v) ==
    /\ disk_open
    /\ b <= MaxBlocks /\ cache_enabled /\ Cached(b)
    /\ ring_buffer' = [ring_buffer EXCEPT
           ![find_cached_entry(b)].content = v,
           ![find_cached_entry(b)].is_dirty = TRUE]
    /\ Return("mydisk_write_block", b, -1, v)
    /\ UNCHANGED <<disk, disk_open, cache_enabled, cache_size, next_insert_pos>>

mydisk_read_block(b) == ReadInvalid(b) \/ ReadDirect(b) \/ ReadHit(b) \/ ReadMiss(b)
mydisk_write_block(b, v) == WriteInvalid(b, v) \/ WriteFile(b, v) \/ WriteHit(b, v)

Next ==
    \/ mydisk_init
    \/ mydisk_close
    \/ init_cache
    \/ close_cache
    \/ \E b \in BlockIds : mydisk_read_block(b)
    \/ \E b \in BlockIds, v \in Data : mydisk_write_block(b, v)

Spec == Init /\ [][Next]_vars
-----------------------------------------------------------------------------
TypeOK ==
    /\ disk \in [FileBlocks -> Data \cup {Absent}]
    /\ disk_open \in BOOLEAN
    /\ cache_enabled \in BOOLEAN
    /\ ring_buffer \in [Slots -> Entry]
    /\ cache_size \in 0 .. CacheBlocks
    /\ next_insert_pos \in Slots
    /\ result \in Results

(* The ring holds one block less than it was given room for. *)
Capacity == CacheBlocks - 1

(* The slots that were taken over.  cache_size counts one more when an     *)
(* entry with the id -1 was evicted: to caching.c:117 its slot was empty.  *)
Used == IF cache_size < Capacity THEN cache_size ELSE Capacity

(* The linear search of find_cached_entry (caching.c:129-139) is right only *)
(* if the slots taken over are below cache_size and no id is there twice,  *)
(* else a dirty copy is shadowed by a stale one.  For that, the cursor must *)
(* be at the first free slot until the ring is full.  Callers that pass the *)
(* id -1, the mark of an empty slot, can make the search run one slot      *)
(* further, over a slot never filled, but never out of the ring.           *)
RingShape ==
    /\ \A i \in Slots : i >= Used => ring_buffer[i].block_id = NoBlock
    /\ \A i, j \in Slots :
          i < j /\ j < cache_size => ring_buffer[i].block_id # ring_buffer[j].block_id
    /\ \A i \in Slots : ring_buffer[i].is_dirty => i < cache_size
    /\ cache_size <= CacheBlocks /\ next_insert_pos < Capacity
    /\ cache_size < Capacity => next_insert_pos = cache_size
    /\ NoBlock \notin BlockIds =>
          /\ cache_size <= Capacity
          /\ \A i \in Slots : i < cache_size => ring_buffer[i].block_id # NoBlock
    /\ ~cache_enabled => cache_size = 0

(* A clean entry of a valid block holds what the file holds, so dropping it *)
(* unwritten (caching.c:95) loses nothing; and the file is all there.      *)
(* True while no call of stdio fails.                                      *)
DiskCoherent ==
    ~IOFails =>
        /\ disk_open => \A b \in Blocks : disk[b] # Absent
        /\ \A i \in Slots :
              i < cache_size /\ ring_buffer[i].block_id \in Blocks
                  /\ ~ring_buffer[i].is_dirty
                => ring_buffer[i].content = disk[ring_buffer[i].block_id]
        /\ cache_enabled => disk_open

(* Data written into the cache is never dropped: a dirty block with a place *)
(* in the file stays in the ring, or the step that removes it puts its     *)
(* content in the file (caching.c:53-59 and 95-100).                       *)
StaysOrIsWritten ==
    \A i \in Slots : ring_buffer[i].is_dirty /\ ring_buffer[i].block_id \in FileBlocks =>
        \/ ring_buffer'[i].is_dirty /\ ring_buffer'[i].block_id = ring_buffer[i].block_id
        \/ disk'[ring_buffer[i].block_id] = ring_buffer[i].content
DirtyIsKept == ~IOFails => StaysOrIsWritten
DirtyIsNeverDropped == [][DirtyIsKept]_vars

(* Bytes reach only the block they were written for, even when calls of    *)
(* stdio fail: a block of the file changes to what this call writes to it, *)
(* to what its own dirty entry holds, or to the zeros of mydisk_init and   *)
(* of a hole.                                                              *)
BlocksChangeAsWritten ==
    \A b \in FileBlocks : disk'[b] # disk[b] =>
          \/ /\ result'.call = "mydisk_write_block" /\ result'.block_id = b
             /\ disk'[b] = result'.buffer
          \/ \E i \in Slots : /\ ring_buffer[i].block_id = b /\ ring_buffer[i].is_dirty
                              /\ disk'[b] = ring_buffer[i].content
          \/ disk[b] = Absent /\ disk'[b] = Zero
          \/ result'.call = "mydisk_init"
WritesGoHome == [][BlocksChangeAsWritten]_vars

(* After any failures of stdio, what a clean entry serves as a hit is its   *)
(* block as the file has it or the zeros its slot was cleared to, left by a *)
(* read that failed (caching.c:107, mydisk.c:58-67): never the bytes of the *)
(* block that had the slot before, and never an older state of the block.  *)
CleanIsFileOrZeros ==
    \A i \in Slots :
        i < cache_size /\ ring_buffer[i].block_id \in FileBlocks /\ ~ring_buffer[i].is_dirty
            => ring_buffer[i].content \in {Zero, disk[ring_buffer[i].block_id]}

(* The cached blocks, the one cached longest ago first. *)
FifoOrder ==
    LET first == IF cache_size < Capacity THEN 0 ELSE next_insert_pos
    IN  [k \in 1 .. Used |-> ring_buffer[(first + k - 1) % Capacity].block_id]

(* Replacement is first-in first-out: a call either leaves the cached      *)
(* blocks and their order alone, or appends the block it read, at the cost *)
(* of the oldest one when the ring is full (caching.c:93-119).             *)
OldestIsReplaced ==
    cache_enabled /\ cache_enabled' =>
          \/ FifoOrder' = FifoOrder
          \/ /\ result'.call = "mydisk_read_block"
             /\ FifoOrder' = Append(IF Len(FifoOrder) < Capacity THEN FifoOrder
                                                               ELSE Tail(FifoOrder),
                                    result'.block_id)
FifoReplacement == [][OldestIsReplaced]_vars
-----------------------------------------------------------------------------
(* What a caller can read of each valid block: the cached copy if there is *)
(* one, else the file.                                                     *)
Contents ==
    [b \in Blocks |-> IF Cached(b) THEN ring_buffer[find_cached_entry(b)].content
                                   ELSE disk[b]]

Store == INSTANCE BlockStore WITH contents <- Contents

(* A reader always gets what was last written, whether the block is cached, *)
(* was evicted or was written back by close_cache: the block layer is the   *)
(* plain array of blocks that mydisk.h describes.                          *)
ImplementsStore == Store!Spec
=============================================================================
