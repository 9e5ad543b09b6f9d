----------------------------- MODULE MCByteDisk -----------------------------
(* Disks of two and three blocks of two bytes for TLC.                     *)
EXTENDS ByteDisk

(* The byte calls name valid blocks only. *)
ValidIds == 0 .. MaxBlocks

TwoBytes == {0, 1}
MCData == [0 .. BlockSize - 1 -> Bytes]
MCZero == [i \in 0 .. BlockSize - 1 |-> 0]

(* Only calls with the id -1 can see what the ring's memory held before. *)
JustZeros == {MCZero}

(* From one byte before the disk to one byte after it. *)
MCArguments == -1 .. MaxBlocks * BlockSize + 1

(* On three blocks of two bytes, ranges that start and end at a block's    *)
(* edge and inside a block, up to one that covers a part, a whole and a    *)
(* part; empty ranges; refused ones: a negative start or length, an end    *)
(* past the disk, an end past the largest int, which is 7.                 *)
FewArguments == {-1, 0, 1, 4, 5}

(* Two buffers of the length that differ in every byte. *)
TwoBuffers == [n \in MCArguments |->
    {[i \in 0 .. n - 1 |-> (i + (i \div 3) + k) % 2] : k \in {0, 1}}]
=============================================================================
