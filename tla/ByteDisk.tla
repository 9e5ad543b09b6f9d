------------------------------ MODULE ByteDisk ------------------------------
(***************************************************************************)
(* The byte interface of the simulated disk: mydisk_read and mydisk_write  *)
(* (Old/OS/pa1/mydisk.c:151-321) on top of the block layer BlockCache.  A  *)
(* call is a loop over blocks; each call of the block layer is a step.     *)
(***************************************************************************)
EXTENDS BlockCache

CONSTANTS
    BlockSize,     \* BLOCK_SIZE
    Bytes,         \* the values of a byte
    ZeroByte,
    IntMax,        \* the largest int
    Arguments,     \* the start addresses and lengths callers pass
    WriteBuffers   \* length -> the buffers callers write

Block == [0 .. BlockSize - 1 -> Bytes]

ASSUME BlocksOfBytes ==
    /\ BlockSize \in Nat \ {0} /\ ZeroByte \in Bytes
    /\ Data = Block /\ Zero = [i \in 0 .. BlockSize - 1 |-> ZeroByte]
ASSUME ArgumentsAssumption ==
    Arguments \subseteq -IntMax - 1 .. IntMax /\ ~IOFails
(* The byte addresses of the disk are ints. *)
ASSUME IntMaxAssumption == IntMax \in Nat /\ MaxBlocks * BlockSize <= IntMax
(* A caller of mydisk_write passes a buffer of as many bytes as it asks for. *)
ASSUME WriteBuffersAssumption ==
    \A n \in Arguments : n >= 0 => WriteBuffers[n] \subseteq [0 .. n - 1 -> Bytes]

(* With ~IOFails the buffer malloc'ed for each call is always filled before *)
(* it is used, so its initial content is not modelled.                     *)

VARIABLES
    call,    \* the arguments of the call in progress
    loop,    \* its local variables
    reply    \* what the last call returned

byteVars == <<call, loop, reply>>
allVars == <<vars, byteVars>>

CapacityInBytes == MaxBlocks * BlockSize
EmptyBuffer == <<>>
Idle == [op |-> "none", start |-> 0, nbytes |-> 0, buffer |-> EmptyBuffer]
Reply(ret, buffer) == [ret |-> ret, buffer |-> buffer]

(* The locals of mydisk_read and mydisk_write: temp_buffer, and for a read *)
(* what was copied so far; merging is true between the read and the write  *)
(* of a block that is written in part.                                     *)
NewLoop(start, nbytes) ==
    [block_id |-> start \div BlockSize, remaining |-> nbytes,
     offset |-> start % BlockSize, bytes_completed |-> 0,
     temp_buffer |-> Zero, merging |-> FALSE, copied |-> EmptyBuffer,
     read_hit |-> 0, read_miss |-> 0, write_hit |-> 0, write_miss |-> 0]

Amount == IF loop.remaining + loop.offset >= BlockSize THEN BlockSize - loop.offset
                                                       ELSE loop.remaining

(* The end of an iteration: only the first block has an offset. *)
Advance(l) ==
    [l EXCEPT !.bytes_completed = @ + Amount, !.remaining = @ - Amount,
              !.block_id = @ + 1, !.offset = 0, !.merging = FALSE]

CountRead(l, ret) ==
    IF ret = -1 THEN [l EXCEPT !.read_hit = @ + 1] ELSE [l EXCEPT !.read_miss = @ + 1]
CountWriteMiss(l, ret) ==  \* a seeded fault: a hit is not counted
    IF ret = -1 THEN l ELSE [l EXCEPT !.write_miss = @ + 1]
CountWrite(l, ret) ==
    IF ret = -1 THEN [l EXCEPT !.write_hit = @ + 1] ELSE [l EXCEPT !.write_miss = @ + 1]

-----------------------------------------------------------------------------
ByteInit ==
    /\ Init
    /\ call = Idle
    /\ loop = NewLoop(0, 0)
    /\ reply = Reply(0, EmptyBuffer)

(* The sum of two ints none of which is negative, or of one of each sign:   *)
(* past the largest it goes on at the smallest.  (The programs are built   *)
(* without optimisation, so the sum is the machine's.)                     *)
Wrap(sum) == IF sum > IntMax THEN sum - 2 * (IntMax + 1) ELSE sum

(* The check at the head of both calls; a seeded fault is without its      *)
(* second part, which also catches a sum that has overflowed.              *)
RejectedIfBeyond(start, nbytes) ==
    start < 0 \/ Wrap(start + nbytes) >= CapacityInBytes
Rejected(start, nbytes) ==
    \/ start < 0
    \/ Wrap(start + nbytes) < start
    \/ Wrap(start + nbytes) >= CapacityInBytes

Reject(start, nbytes) ==
    /\ disk_open /\ call = Idle
    /\ Rejected(start, nbytes)
    /\ reply' = Reply(1, EmptyBuffer)
    /\ UNCHANGED <<vars, call, loop>>

Begin(op, start, nbytes, buffer) ==
    /\ disk_open /\ call = Idle
    /\ ~Rejected(start, nbytes)
    /\ call' = [op |-> op, start |-> start, nbytes |-> nbytes, buffer |-> buffer]
    /\ loop' = NewLoop(start, nbytes)
    /\ UNCHANGED <<vars, reply>>

(* The bytes of a call laid over the block it changes in part; a seeded    *)
(* fault lays them over zeros, not over what the block holds.              *)
MergedOverZeros(block) ==
    [i \in 0 .. BlockSize - 1 |->
        IF i \in loop.offset .. loop.offset + Amount - 1
        THEN call.buffer[loop.bytes_completed + i - loop.offset] ELSE ZeroByte]
Merged(block) ==
    [i \in 0 .. BlockSize - 1 |->
        IF i \in loop.offset .. loop.offset + Amount - 1
        THEN call.buffer[loop.bytes_completed + i - loop.offset] ELSE block[i]]

(* One iteration of mydisk_read. *)
ReadIteration ==
    /\ call.op = "read" /\ loop.remaining # 0
    /\ mydisk_read_block(loop.block_id)
    /\ loop' = Advance(CountRead(
           [loop EXCEPT !.temp_buffer = result'.buffer,
                        !.copied = [i \in 0 .. loop.bytes_completed + Amount - 1 |->
                            IF i < loop.bytes_completed THEN loop.copied[i]
                            ELSE result'.buffer[loop.offset + i - loop.bytes_completed]]],
           result'.ret))
    /\ UNCHANGED <<call, reply>>

(* An iteration of mydisk_write on a whole block. *)
WriteWholeBlock ==
    /\ call.op = "write" /\ loop.remaining # 0
    /\ Amount = BlockSize
    /\ mydisk_write_block(loop.block_id,
           [i \in 0 .. BlockSize - 1 |-> call.buffer[loop.bytes_completed + i]])
    /\ loop' = Advance(CountWrite(loop, result'.ret))
    /\ UNCHANGED <<call, reply>>

(* An iteration on part of a block: read it, merge, write it back. *)
ReadForMerge ==
    /\ call.op = "write" /\ loop.remaining # 0
    /\ Amount # BlockSize /\ ~loop.merging
    /\ mydisk_read_block(loop.block_id)
    /\ loop' = CountRead(
           [loop EXCEPT !.merging = TRUE, !.temp_buffer = Merged(result'.buffer)],
           result'.ret)
    /\ UNCHANGED <<call, reply>>

WriteMerged ==
    /\ loop.merging
    /\ mydisk_write_block(loop.block_id, loop.temp_buffer)
    /\ loop' = Advance(CountWrite(loop, result'.ret))
    /\ UNCHANGED <<call, reply>>

(* Out of the loop, the call answers; a seeded fault runs the body of the   *)
(* loop before it tests for the end, as a do-while would.                  *)
FinishAfterOne ==
    /\ call # Idle /\ loop.remaining = 0 /\ loop.bytes_completed # 0
    /\ reply' = Reply(0, IF call.op = "read" THEN loop.copied ELSE EmptyBuffer)
    /\ call' = Idle
    /\ loop' = NewLoop(0, 0)
    /\ UNCHANGED vars
Finish ==
    /\ call # Idle /\ loop.remaining = 0
    /\ reply' = Reply(0, IF call.op = "read" THEN loop.copied ELSE EmptyBuffer)
    /\ call' = Idle
    /\ loop' = NewLoop(0, 0)
    /\ UNCHANGED vars

mydisk_read(start, nbytes) ==
    Reject(start, nbytes) \/ Begin("read", start, nbytes, EmptyBuffer)
mydisk_write(start, nbytes) ==
    \E buffer \in WriteBuffers[nbytes] :
        Reject(start, nbytes) \/ Begin("write", start, nbytes, buffer)

Iterate == ReadIteration \/ WriteWholeBlock \/ ReadForMerge \/ WriteMerged \/ Finish

(* Between calls the caller may open and close the cache and the disk. *)
Manage ==
    /\ call = Idle
    /\ mydisk_init \/ mydisk_close \/ init_cache \/ close_cache
    /\ UNCHANGED byteVars

ByteNext ==
    \/ Manage
    \/ Iterate
    \/ \E start, nbytes \in Arguments : mydisk_read(start, nbytes) \/ mydisk_write(start, nbytes)

(* A call runs to its end: nothing in it waits. *)
ByteSpec == ByteInit /\ [][ByteNext]_allVars /\ WF_allVars(Iterate)
-----------------------------------------------------------------------------
(* The loop stays within the blocks of the call: it names a valid block    *)
(* whenever it calls the block layer and has done what it has not left to  *)
(* do (mydisk.c:161-195, 229-286).                                         *)
LoopInRange ==
    call # Idle =>
        /\ loop.remaining + loop.bytes_completed = call.nbytes
        /\ loop.remaining >= 0
        /\ loop.remaining # 0 =>
              /\ loop.block_id \in Blocks
              /\ loop.block_id * BlockSize + loop.offset = call.start + loop.bytes_completed

(* The blocks of a call, and those of them it covers as a whole. *)
End == call.start + call.nbytes
Touched == {a \div BlockSize : a \in call.start .. End - 1}
Whole == {b \in Touched : b * BlockSize >= call.start /\ (b + 1) * BlockSize <= End}

(* How many blocks a range of blocks has. *)
Span(S) == IF S = {} THEN 0
           ELSE (CHOOSE x \in S : \A y \in S : x >= y)
                  - (CHOOSE x \in S : \A y \in S : x <= y) + 1

(* Each block a call touches is charged once, and a write reads the blocks *)
(* it changes in part, at most the first and the last (mydisk.c:182-187,   *)
(* 249-278).                                                               *)
EveryBlockIsChargedOnce ==
    LET reads == loop.read_hit + loop.read_miss
        writes == loop.write_hit + loop.write_miss
    IN  call # Idle /\ loop.remaining = 0 =>
            IF call.op = "read" THEN reads = Span(Touched) /\ writes = 0
            ELSE writes = Span(Touched) /\ reads = Span(Touched) - Span(Whole)

(* Every call returns: the loops run while (remaining != 0), so a step past *)
(* zero or a step of nothing would run on for ever (mydisk.c:168, 237).    *)
CallsReturn == call # Idle ~> call = Idle

(* The bytes a caller can count on: the contents of the blocks, with the   *)
(* part of a write in progress that has not reached them laid over.        *)
FlatBytes ==
    LET contents == Contents
        pending == IF call.op = "write"
                   THEN call.start + loop.bytes_completed .. call.start + call.nbytes - 1
                   ELSE {}
    IN  [a \in 0 .. CapacityInBytes - 1 |->
            IF a \in pending THEN call.buffer[a - call.start]
            ELSE IF contents[a \div BlockSize] = Absent THEN Absent
            ELSE contents[a \div BlockSize][a % BlockSize]]

Flat == INSTANCE FlatDisk WITH
    Capacity <- CapacityInBytes, NoByte <- Absent, bytes <- FlatBytes

(* The byte interface is a flat array of bytes, wherever the range starts  *)
(* and ends, however the blocks are cached and whatever is evicted while   *)
(* the call runs: a partial write keeps the rest of its block.             *)
ImplementsFlatDisk == Flat!Spec
=============================================================================
