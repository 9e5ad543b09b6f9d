--------------------------- MODULE TrafficServer ---------------------------
(***************************************************************************)
(* One connection of the traffic server (TelecomProject/TelecomServer):    *)
(* the connection's thread, which sets it up (ConnectionHandler.run), and  *)
(* the two periodic tasks, of TrafficSource and of LeakyBucket.            *)
(*                                                                         *)
(* Both tasks run on the connection's one scheduler thread, so each run is *)
(* one step.  They run in any order: their periods are left out.  A byte   *)
(* is its place in the data.  bytesDropped is kept modulo the length of    *)
(* the data and is written into the next byte that is not dropped, for the *)
(* properties only; so is taken, what the client got last.                 *)
(***************************************************************************)
EXTENDS Integers, Sequences

CONSTANTS
    DataLength,        \* bytes of the data file
    CbrAmount,         \* bytes of a run of the source, type 0
    BurstAmount,       \* and type 1
    QueueSize,         \* places of the bucket's queue
    OutputRate         \* bytes the bucket lets through in a second

ASSUME LengthsAssumption ==
    /\ DataLength \in Nat \ {0} /\ CbrAmount \in Nat \ {0} /\ BurstAmount \in Nat \ {0}
    /\ QueueSize \in Nat \ {0} /\ OutputRate \in Nat

VARIABLES
    thread,      \* the connection's thread: where it is
    bucket,      \* BOOLEAN: is there a bucket between source and client
    dataSize,    \* bytes of a run of the source
    offset,      \* where in the data the next run begins
    source,      \* the source's task: "none", "running", "stopped", or "dead" of an exception
    leak,        \* the bucket's task
    queue,       \* the bucket
    bytesDropped,
    client,      \* "there", "gone", or "reset": the socket knows that it is gone
    taken        \* history: the last byte before, and the bytes of, the last delivery

vars == <<thread, bucket, dataSize, offset, source, leak, queue, bytesDropped, client, taken>>
setup == <<thread, bucket, dataSize>>

Byte(at) == [at |-> at, lost |-> 0]
Last(s) == s[Len(s)]
Smaller(a, b) == IF a < b THEN a ELSE b
(* The period is DELAY_BETWEEN_TRANSMISSION, 50 of a second's 1000.        *)
AmountToSend == OutputRate \div (1000 \div 50)
-----------------------------------------------------------------------------
(* The connection's thread: the client's two bytes, zero where it sent     *)
(* none, say which type it wants and whether through the bucket.           *)
ReadConfig(type, activate) ==
    LET valid == type \in {0, 1} /\ activate \in {0, 1}
    IN  /\ thread = "config"
        /\ bucket' = (valid /\ activate = 1)
        /\ dataSize' = IF valid /\ type = 1 THEN BurstAmount ELSE CbrAmount
        /\ thread' = IF bucket' THEN "schedule_leak" ELSE "schedule_source"
        /\ UNCHANGED <<offset, source, leak, queue, bytesDropped, client, taken>>

ConfigFails ==
    /\ thread = "config" /\ client # "there"
    /\ thread' = "done"
    /\ UNCHANGED <<bucket, dataSize, offset, source, leak, queue, bytesDropped, client, taken>>

(* scheduleAtFixedRate: the task may run before its future is assigned. *)
ScheduleLeak ==
    /\ thread = "schedule_leak" /\ thread' = "schedule_source"
    /\ leak' = "running"
    /\ UNCHANGED <<bucket, dataSize, offset, source, queue, bytesDropped, client, taken>>
ScheduleSource ==
    /\ thread = "schedule_source" /\ thread' = "assign_source"
    /\ source' = "running"
    /\ UNCHANGED <<bucket, dataSize, offset, leak, queue, bytesDropped, client, taken>>
AssignSource ==
    /\ thread = "assign_source" /\ thread' = "done"
    /\ UNCHANGED <<bucket, dataSize, offset, source, leak, queue, bytesDropped, client, taken>>

ThreadWorks == ScheduleLeak \/ ScheduleSource \/ AssignSource
-----------------------------------------------------------------------------
(* A run of the source writes dataSize bytes from offset on, over the end  *)
(* of the data when that is not behind them.                               *)
bytesUntilEOF == DataLength - offset
bytesFromBeginning == dataSize - bytesUntilEOF
Wraps == ~(bytesUntilEOF > dataSize)
FirstPiece == [k \in 1 .. (IF Wraps THEN bytesUntilEOF ELSE dataSize) |-> Byte(offset + k - 1)]
SecondPiece == IF Wraps THEN [k \in 1 .. bytesFromBeginning |-> Byte(k - 1)] ELSE << >>
(* The second write names bytes behind the end of the data. *)
OutOfBounds == Wraps /\ bytesFromBeginning > DataLength
Written == IF OutOfBounds THEN FirstPiece ELSE FirstPiece \o SecondPiece
(* Seeded faults: the wrap-around leaves offset alone, or is forgotten.    *)
OffsetKeptAtWrap == IF Wraps THEN offset ELSE offset + dataSize
OffsetRunsOn == offset + dataSize
OffsetAfter == IF Wraps THEN bytesFromBeginning ELSE offset + dataSize

(* The exception of a write out of bounds is not caught: the task dies. *)
SourceAfter == IF OutOfBounds THEN "dead" ELSE "running"
OffsetIfAlive == IF OutOfBounds THEN offset ELSE OffsetAfter

(* LeakyBucket.write for each byte: what finds no place is dropped. *)
WriteToBucket ==
    LET room == Smaller(QueueSize - Len(queue), Len(Written))
    IN  /\ source = "running" /\ bucket
        /\ queue' = queue \o
              [k \in 1 .. room |->
                  IF k = 1 THEN [Written[1] EXCEPT !.lost = bytesDropped] ELSE Written[k]]
        /\ bytesDropped' =
              ((IF room = 0 THEN bytesDropped ELSE 0) + Len(Written) - room) % DataLength
        /\ source' = SourceAfter /\ offset' = OffsetIfAlive
        /\ UNCHANGED <<setup, leak, client, taken>>

(* Without a bucket the bytes go to the socket, unless the exception comes *)
(* first and finds them in the stream's buffer.                            *)
WriteToClient ==
    /\ source = "running" /\ ~bucket /\ client # "reset"
    /\ taken' \in {<<Last(taken)>> \o s :
                      s \in IF client = "gone" THEN {<< >>}
                            ELSE IF OutOfBounds THEN {<< >>, Written} ELSE {Written}}
    /\ source' = SourceAfter /\ offset' = OffsetIfAlive
    /\ UNCHANGED <<setup, leak, queue, bytesDropped, client>>

(* A write or a flush throws: the task is cancelled, if start has got so   *)
(* far as to assign schedF.                                                *)
CancelledNever == source                                              \* a seeded fault
Cancelled == IF thread = "done" THEN "stopped" ELSE source
WriteFails ==
    /\ source = "running" /\ ~bucket /\ client = "reset"
    /\ \/ source' = Cancelled /\ offset' \in {offset, OffsetIfAlive}
       \/ OutOfBounds /\ source' = "dead" /\ UNCHANGED offset
    /\ UNCHANGED <<setup, leak, queue, bytesDropped, client, taken>>

recurringWrite == WriteToBucket \/ WriteToClient \/ WriteFails
-----------------------------------------------------------------------------
(* Transmit.run.  Its exception ends the task, whether schedF is assigned  *)
(* and cancelled or null and called through.                               *)
Drained == SubSeq(queue, 1, Smaller(AmountToSend, Len(queue)))
Transmit ==
    /\ leak = "running"
    /\ queue' = SubSeq(queue, Len(Drained) + 1, Len(queue))
    /\ taken' = IF client = "there" THEN <<Last(taken)>> \o Drained ELSE taken
    /\ leak' = IF client = "reset" /\ Drained # << >> THEN "stopped" ELSE leak
    /\ UNCHANGED <<setup, offset, source, bytesDropped, client>>
-----------------------------------------------------------------------------
(* The client, external. *)
Leave ==
    /\ client = "there" /\ client' = "gone"
    /\ UNCHANGED <<setup, offset, source, leak, queue, bytesDropped, taken>>
Reset ==
    /\ client = "gone" /\ client' = "reset"
    /\ UNCHANGED <<setup, offset, source, leak, queue, bytesDropped, taken>>

Init ==
    /\ thread = "config" /\ bucket = FALSE /\ dataSize = CbrAmount
    /\ offset = 0 /\ source = "none" /\ leak = "none"
    /\ queue = << >> /\ bytesDropped = 0
    /\ client = "there" /\ taken = <<Byte(DataLength - 1)>>

Next ==
    \/ \E type, activate \in 0 .. 2 : ReadConfig(type, activate)
    \/ ConfigFails \/ ThreadWorks \/ recurringWrite \/ Transmit \/ Leave \/ Reset

Spec == Init /\ [][Next]_vars

(* The thread runs on, each task runs again and again, and the socket gets *)
(* to know that nobody listens.  Nobody has to leave.                      *)
FairSpec ==
    Spec /\ WF_vars(ThreadWorks) /\ WF_vars(recurringWrite) /\ WF_vars(Transmit) /\ WF_vars(Reset)
-----------------------------------------------------------------------------
Bytes == [at : 0 .. DataLength - 1, lost : 0 .. DataLength - 1]
(* A source dies only when a run is longer than the data; then a chain of  *)
(* good runs may lead up to the one that names bytes behind the end.       *)
OnlyShortDataEndsSource == source = "dead" => DataLength < dataSize

(* TypeOK: the type invariant, with the range of offset between runs, the  *)
(* bound on the queue, and the tasks that exist at all.                    *)
TypeOK ==
    /\ thread \in {"config", "schedule_leak", "schedule_source", "assign_source", "done"}
    /\ bucket \in BOOLEAN /\ dataSize \in {CbrAmount, BurstAmount}
    /\ offset \in 0 .. DataLength
    /\ source \in {"none", "running", "stopped", "dead"}
    /\ leak \in {"none", "running", "stopped"} /\ (leak # "none" => bucket)
    /\ queue \in Seq(Bytes) /\ Len(queue) <= QueueSize
    /\ bytesDropped \in 0 .. DataLength - 1
    /\ client \in {"there", "gone", "reset"}
    /\ taken \in Seq(Bytes) /\ taken # << >>
    /\ OnlyShortDataEndsSource

(* StreamIsTheData: what the client gets is the data from its beginning,   *)
(* over and over, without a byte twice, missing or misplaced but those the *)
(* full bucket dropped: each byte taken or queued follows the one before,  *)
(* at the ends of the data, the runs and the deliveries too, and the next  *)
(* run goes on where the last one ended.                                   *)
Follows(a, b) == b.at = (a.at + 1 + b.lost) % DataLength
StreamIsTheData ==
    client = "there" =>
        LET stream == taken \o queue
            next == [at |-> offset % DataLength, lost |-> bytesDropped]
        IN  /\ \A k \in 1 .. Len(stream) - 1 : Follows(stream[k], stream[k + 1])
            /\ source \in {"none", "running"} => Follows(Last(stream), next)

(* NobodyIsLeftWriting: when the client has gone the task that writes to   *)
(* its socket ends, the cancellation being at LeakyBucket.java:101 and     *)
(* TrafficSource.java:79 and 97; unless the source has died and left the   *)
(* bucket nothing to fail with.                                            *)
NobodyIsLeftWriting ==
    client = "gone" /\ thread # "config" ~>
        (IF bucket THEN leak = "stopped" ELSE source # "running") \/ source = "dead"
=============================================================================
