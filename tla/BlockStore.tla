----------------------------- MODULE BlockStore -----------------------------
(***************************************************************************)
(* What mydisk.h promises of the block interface, with no cache in it: an  *)
(* array of blocks in which a read returns what was last written.  The     *)
(* cache may be switched on and off at any time without the caller being   *)
(* able to tell, except by the return code (0 for a miss, -1 for a hit).   *)
(***************************************************************************)
EXTENDS Integers

CONSTANTS
    MaxBlocks,  \* number of blocks, the nblocks of mydisk_init
    Data,       \* the values a block can hold
    Zero,       \* the block of zero bytes
    Absent,     \* a place in the file that was never written
    BlockIds    \* the ids callers pass

VARIABLES
    contents,   \* block id -> the value a read of it returns
    result      \* the last call: its name, its block, its return code, its buffer

Blocks == 0 .. MaxBlocks - 1

Answer(call, b, ret, buffer) ==
    result' = [call |-> call, block_id |-> b, ret |-> ret, buffer |-> buffer]

Init ==
    /\ contents = [b \in Blocks |-> Absent]
    /\ result = [call |-> "none", block_id |-> 0, ret |-> 0, buffer |-> Absent]

(* The disk is created: every block reads as zeros. *)
Create ==
    /\ contents' = [b \in Blocks |-> Zero]
    /\ Answer("mydisk_init", 0, 0, Absent)

(* A read of a valid block returns its value, from the cache or not. *)
Read(b) ==
    /\ \E ret \in {0, -1} : Answer("mydisk_read_block", b, ret, contents[b])
    /\ UNCHANGED contents

(* A write to a valid block changes that block and no other. *)
Write(b, v) ==
    /\ contents' = [contents EXCEPT ![b] = v]
    /\ \E ret \in {0, -1} : Answer("mydisk_write_block", b, ret, v)

(* A call that names no block, past the end or below 0, changes no block. *)
Refuse(b) ==
    /\ \E call \in {"mydisk_read_block", "mydisk_write_block"},
          ret \in {-1, 0, 1}, buffer \in Data \cup {Absent} :
          Answer(call, b, ret, buffer)
    /\ UNCHANGED contents

(* Switching the cache on or off and closing the disk change no block. *)
Manage ==
    /\ \E call \in {"init_cache", "close_cache", "mydisk_close"} :
          Answer(call, 0, 0, Absent)
    /\ UNCHANGED contents

Next ==
    \/ Create
    \/ Manage
    \/ \E b \in Blocks : Read(b) \/ \E v \in Data : Write(b, v)
    \/ \E b \in BlockIds \ Blocks : Refuse(b)

Spec == Init /\ [][Next]_<<contents, result>>
=============================================================================
