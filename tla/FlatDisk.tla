------------------------------ MODULE FlatDisk ------------------------------
(***************************************************************************)
(* What mydisk.h promises of mydisk_read and mydisk_write: the disk is one *)
(* flat array of bytes.  A write takes effect as a whole when it is called *)
(* and a read returns the bytes of the range it names; no block, no cache. *)
(***************************************************************************)
EXTENDS Integers

CONSTANTS
    Capacity,   \* bytes on the disk
    Bytes,      \* the values of a byte
    ZeroByte,
    NoByte,     \* what a byte is before the disk exists
    Arguments   \* the start addresses and lengths callers pass

VARIABLES
    bytes,      \* the flat array
    call,       \* the call in progress: op "none", "read" or "write"
    reply       \* what the last call returned

Addresses == 0 .. Capacity - 1
Idle == [op |-> "none", start |-> 0, nbytes |-> 0, buffer |-> <<>>]
Reply(ret, buffer) == [ret |-> ret, buffer |-> buffer]

(* The calls the program accepts; it refuses the disk's last byte. *)
Accepted(start, nbytes) == start >= 0 /\ nbytes >= 0 /\ start + nbytes < Capacity

Init ==
    /\ bytes = [a \in Addresses |-> NoByte]
    /\ call = Idle
    /\ reply = Reply(0, <<>>)

Format ==
    /\ call = Idle
    /\ bytes' = [a \in Addresses |-> ZeroByte]
    /\ UNCHANGED <<call, reply>>

Refuse(start, nbytes) ==
    /\ call = Idle
    /\ ~Accepted(start, nbytes)
    /\ reply' = Reply(1, <<>>)
    /\ UNCHANGED <<bytes, call>>

CallRead(start, nbytes) ==
    /\ call = Idle
    /\ Accepted(start, nbytes)
    /\ call' = [op |-> "read", start |-> start, nbytes |-> nbytes, buffer |-> <<>>]
    /\ UNCHANGED <<bytes, reply>>

CallWrite(start, nbytes, buffer) ==
    /\ call = Idle
    /\ Accepted(start, nbytes)
    /\ bytes' = [a \in Addresses |-> IF a \in start .. start + nbytes - 1
                                     THEN buffer[a - start] ELSE bytes[a]]
    /\ call' = [op |-> "write", start |-> start, nbytes |-> nbytes, buffer |-> buffer]
    /\ UNCHANGED reply

Answer ==
    /\ call # Idle
    /\ reply' = Reply(0,
                      IF call.op = "read"
                      THEN [i \in 0 .. call.nbytes - 1 |-> bytes[call.start + i]]
                      ELSE <<>>)
    /\ call' = Idle
    /\ UNCHANGED bytes

Next ==
    \/ Format
    \/ Answer
    \/ \E start, nbytes \in Arguments :
          \/ Refuse(start, nbytes)
          \/ CallRead(start, nbytes)
          \/ \E buffer \in [0 .. nbytes - 1 -> Bytes] : CallWrite(start, nbytes, buffer)

Spec == Init /\ [][Next]_<<bytes, call, reply>>
=============================================================================
