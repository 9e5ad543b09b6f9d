---------------------------- MODULE MCBlockCache ----------------------------
(* Small disks and caches for TLC.  A block holds zeros or something else: *)
(* that tells its current value from a stale one, whichever is which.      *)
EXTENDS BlockCache

CONSTANTS z, d

TwoValues == {z, d}

(* The blocks; one past the last, which the code accepts, and one more,    *)
(* which it refuses; the mark of an empty slot, and an id below it.        *)
AllKindsOfIds == -2 .. MaxBlocks + 1
=============================================================================
