------------------------ MODULE TrafficServerProofs ------------------------
(* The type invariant of TrafficServer and the order of what its client    *)
(* gets, for every length of the data, of the runs and of the queue.       *)
EXTENDS TrafficServer, Arithmetic, SequenceTheorems, TLAPS

(* What the thread has not set up yet does not exist. *)
SetUpInOrder ==
    /\ thread = "config" => source = "none" /\ leak = "none"
    /\ thread = "schedule_leak" => bucket
    /\ leak # "none" => bucket
IInv == TypeOK /\ SetUpInOrder

(* The numbers a run computes with: the first piece lies within the data,  *)
(* and so does the second and the next offset, unless the run is longer    *)
(* than the data.                                                          *)
LEMMA RunInData ==
    ASSUME TypeOK
    PROVE  /\ dataSize \in Nat \ {0} /\ bytesUntilEOF \in 0 .. DataLength
           /\ FirstPiece \in Seq(Bytes)
           /\ ~OutOfBounds => SecondPiece \in Seq(Bytes) /\ OffsetAfter \in 0 .. DataLength
           /\ OutOfBounds => DataLength < dataSize
<1> USE LengthsAssumption
<1>1. dataSize \in Nat \ {0} /\ offset \in 0 .. DataLength
  BY DEF TypeOK
<1>2. bytesUntilEOF \in 0 .. DataLength /\ bytesUntilEOF = DataLength - offset
  BY <1>1 DEF bytesUntilEOF
<1>3. FirstPiece \in Seq(Bytes)
  <2> DEFINE n == IF Wraps THEN bytesUntilEOF ELSE dataSize
  <2>1. n \in Nat /\ n <= bytesUntilEOF
    BY <1>1, <1>2 DEF Wraps
  <2>2. \A k \in 1 .. n : Byte(offset + k - 1) \in Bytes
    BY <1>1, <1>2, <2>1 DEF Byte, Bytes
  <2>3. FirstPiece = [k \in 1 .. n |-> Byte(offset + k - 1)]
    BY DEF FirstPiece
  <2> HIDE DEF n
  <2> QED BY <2>1, <2>2, <2>3
<1>4. ASSUME ~OutOfBounds PROVE SecondPiece \in Seq(Bytes) /\ OffsetAfter \in 0 .. DataLength
  <2>1. CASE Wraps
    <3>1. bytesFromBeginning \in 0 .. DataLength
      BY <1>1, <1>2, <1>4, <2>1 DEF OutOfBounds, Wraps, bytesFromBeginning
    <3>2. \A k \in 1 .. bytesFromBeginning : Byte(k - 1) \in Bytes
      BY <3>1 DEF Byte, Bytes
    <3> QED BY <2>1, <3>1, <3>2 DEF SecondPiece, OffsetAfter
  <2>2. CASE ~Wraps
    BY <1>1, <1>2, <2>2 DEF SecondPiece, OffsetAfter, Wraps
  <2> QED BY <2>1, <2>2
<1>5. OutOfBounds => DataLength < dataSize
  BY <1>1, <1>2 DEF OutOfBounds, bytesFromBeginning
<1> QED BY <1>1, <1>2, <1>3, <1>4, <1>5

LEMMA WrittenIsBytes ==
    ASSUME TypeOK PROVE Written \in Seq(Bytes)
  BY RunInData DEF Written

(* A run leaves the source where it may be, and offset within the data.    *)
LEMMA SourceGoesOn ==
    ASSUME TypeOK
    PROVE  /\ SourceAfter \in {"running", "dead"} /\ OffsetIfAlive \in 0 .. DataLength
           /\ SourceAfter = "dead" => DataLength < dataSize
<1>1. offset \in 0 .. DataLength
  BY DEF TypeOK
<1> QED BY <1>1, RunInData DEF SourceAfter, OffsetIfAlive

LEMMA LastIsByte ==
    ASSUME TypeOK PROVE <<Last(taken)>> \in Seq(Bytes)
<1>1. taken \in Seq(Bytes) /\ taken # << >>
  BY DEF TypeOK
<1>2. Len(taken) \in 1 .. Len(taken)
  BY <1>1
<1>3. Last(taken) \in Bytes
  BY <1>1, <1>2 DEF Last
<1> QED BY <1>3

LEMMA InitIInv == Init => IInv
<1> SUFFICES ASSUME Init PROVE IInv
  OBVIOUS
<1> USE LengthsAssumption
<1>1. Byte(DataLength - 1) \in Bytes
  BY DEF Byte, Bytes
<1>2. taken \in Seq(Bytes) /\ taken # << >>
  BY <1>1 DEF Init
<1>3. queue \in Seq(Bytes) /\ Len(queue) <= QueueSize
  BY DEF Init
<1>4. TypeOK
  <2>1. bucket \in BOOLEAN
    BY DEF Init
  <2>2. offset \in 0 .. DataLength /\ bytesDropped \in 0 .. DataLength - 1
    BY DEF Init
  <2> QED BY <1>2, <1>3, <2>1, <2>2 DEF Init, TypeOK, OnlyShortDataEndsSource
<1>5. SetUpInOrder
  BY DEF Init, SetUpInOrder
<1> QED BY <1>4, <1>5 DEF IInv

LEMMA WriteToBucketKeepsIInv ==
    ASSUME IInv, WriteToBucket PROVE IInv'
<1> USE LengthsAssumption
<1>1. TypeOK /\ SetUpInOrder
  BY DEF IInv
<1> DEFINE room == Smaller(QueueSize - Len(queue), Len(Written))
           kept == [k \in 1 .. room |->
                      IF k = 1 THEN [Written[1] EXCEPT !.lost = bytesDropped] ELSE Written[k]]
<1>2. queue \in Seq(Bytes) /\ Len(queue) <= QueueSize /\ Written \in Seq(Bytes)
  BY <1>1, WrittenIsBytes DEF TypeOK
<1>3. room \in Nat /\ room <= QueueSize - Len(queue) /\ room <= Len(Written)
  BY <1>2 DEF Smaller
<1>4. queue' = queue \o kept
  BY DEF WriteToBucket
<1>5. bytesDropped \in 0 .. DataLength - 1
  BY <1>1 DEF TypeOK
<1>6. \A k \in 1 .. room : kept[k] \in Bytes
  <2> SUFFICES ASSUME NEW k \in 1 .. room PROVE kept[k] \in Bytes
    OBVIOUS
  <2>1. Written[k] \in Bytes
    BY <1>2, <1>3
  <2> QED BY <2>1, <1>5 DEF Bytes
<1>7. kept \in Seq(Bytes) /\ Len(kept) = room
  <2>1. kept \in [1 .. room -> Bytes]
    BY <1>6
  <2> HIDE DEF kept, room
  <2> QED BY <2>1, <1>3
<1>8. queue' \in Seq(Bytes) /\ Len(queue') <= QueueSize
  <2> HIDE DEF kept, room
  <2> QED BY <1>2, <1>3, <1>4, <1>7
<1>9. bytesDropped' \in 0 .. DataLength - 1
  <2> DEFINE total == (IF room = 0 THEN bytesDropped ELSE 0) + Len(Written) - room
  <2>1. total \in Nat
    <3> HIDE DEF room
    <3> QED BY <1>2, <1>3, <1>5
  <2>2. bytesDropped' = total % DataLength
    BY DEF WriteToBucket
  <2> HIDE DEF total
  <2> QED BY <2>1, <2>2
<1>10. source' = SourceAfter /\ offset' = OffsetIfAlive
       /\ UNCHANGED <<setup, leak, client, taken>>
  BY DEF WriteToBucket
<1>11. /\ SourceAfter \in {"running", "dead"} /\ OffsetIfAlive \in 0 .. DataLength
       /\ SourceAfter = "dead" => DataLength < dataSize
  BY <1>1, SourceGoesOn
<1>12. thread # "config"
  BY <1>1 DEF SetUpInOrder, WriteToBucket
<1>13. TypeOK'
  BY <1>1, <1>8, <1>9, <1>10, <1>11 DEF TypeOK, setup, OnlyShortDataEndsSource, Bytes
<1>14. SetUpInOrder'
  BY <1>1, <1>10, <1>12 DEF SetUpInOrder, setup
<1> QED BY <1>13, <1>14 DEF IInv

LEMMA WriteToClientKeepsIInv ==
    ASSUME IInv, WriteToClient PROVE IInv'
<1>1. TypeOK /\ SetUpInOrder
  BY DEF IInv
<1>2. taken' \in Seq(Bytes) /\ taken' # << >>
  <2>1. PICK s \in {<< >>, Written} : taken' = <<Last(taken)>> \o s
    BY DEF WriteToClient
  <2>2. s \in Seq(Bytes) /\ <<Last(taken)>> \in Seq(Bytes)
    <3>1. << >> \in Seq(Bytes) /\ Written \in Seq(Bytes)
      BY <1>1, WrittenIsBytes
    <3>2. <<Last(taken)>> \in Seq(Bytes)
      BY <1>1, LastIsByte
    <3> QED BY <2>1, <3>1, <3>2
  <2> QED BY <2>1, <2>2
<1>3. source' = SourceAfter /\ offset' = OffsetIfAlive
      /\ UNCHANGED <<setup, leak, queue, bytesDropped, client>>
  BY DEF WriteToClient
<1>4. /\ SourceAfter \in {"running", "dead"} /\ OffsetIfAlive \in 0 .. DataLength
      /\ SourceAfter = "dead" => DataLength < dataSize
  BY <1>1, SourceGoesOn
<1>5. thread # "config"
  BY <1>1 DEF SetUpInOrder, WriteToClient
<1>6. TypeOK'
  BY <1>1, <1>2, <1>3, <1>4 DEF TypeOK, setup, OnlyShortDataEndsSource, Bytes
<1>7. SetUpInOrder'
  BY <1>1, <1>3, <1>5 DEF SetUpInOrder, setup
<1> QED BY <1>6, <1>7 DEF IInv

LEMMA WriteFailsKeepsIInv ==
    ASSUME IInv, WriteFails PROVE IInv'
<1>1. TypeOK /\ SetUpInOrder /\ source = "running"
  BY DEF IInv, WriteFails
<1>2. OffsetIfAlive \in 0 .. DataLength /\ (OutOfBounds => DataLength < dataSize)
  BY <1>1, SourceGoesOn, RunInData
<1>3. offset' \in 0 .. DataLength
  BY <1>1, <1>2 DEF WriteFails, TypeOK
<1>4. source' \in {"running", "stopped"} \/ (source' = "dead" /\ DataLength < dataSize)
  BY <1>1, <1>2 DEF WriteFails, Cancelled
<1>5. UNCHANGED <<setup, leak, queue, bytesDropped, client, taken>>
  BY DEF WriteFails
<1>6. thread # "config"
  BY <1>1 DEF SetUpInOrder
<1>7. TypeOK'
  BY <1>1, <1>3, <1>4, <1>5 DEF TypeOK, setup, OnlyShortDataEndsSource, Bytes
<1>8. SetUpInOrder'
  BY <1>1, <1>5, <1>6 DEF SetUpInOrder, setup
<1> QED BY <1>7, <1>8 DEF IInv

LEMMA TransmitKeepsIInv ==
    ASSUME IInv, Transmit PROVE IInv'
<1> USE LengthsAssumption
<1>1. TypeOK /\ SetUpInOrder
  BY DEF IInv
<1>2. queue \in Seq(Bytes) /\ Len(queue) <= QueueSize
  BY <1>1 DEF TypeOK
<1>3. AmountToSend \in Nat
  BY DEF AmountToSend
<1> DEFINE n == Smaller(AmountToSend, Len(queue))
<1>4. n \in 0 .. Len(queue)
  BY <1>2, <1>3 DEF Smaller
<1>5. Drained = SubSeq(queue, 1, n)
  BY DEF Drained
<1> HIDE DEF n
<1>6. Drained \in Seq(Bytes) /\ Len(Drained) = n
  BY <1>2, <1>4, <1>5
<1>7. queue' = SubSeq(queue, n + 1, Len(queue))
  BY <1>6 DEF Transmit
<1>8. queue' \in Seq(Bytes) /\ Len(queue') <= QueueSize
  BY <1>2, <1>4, <1>7
<1>9. taken' \in Seq(Bytes) /\ taken' # << >>
  <2>1. <<Last(taken)>> \in Seq(Bytes)
    BY <1>1, LastIsByte
  <2>2. <<Last(taken)>> \o Drained \in Seq(Bytes) /\ <<Last(taken)>> \o Drained # << >>
    BY <1>6, <2>1
  <2> QED BY <1>1, <2>2 DEF Transmit, TypeOK
<1>10. /\ leak' \in {"running", "stopped"} /\ leak # "none"
       /\ UNCHANGED <<setup, offset, source, bytesDropped, client>>
  BY DEF Transmit
<1>11. TypeOK'
  BY <1>1, <1>8, <1>9, <1>10 DEF TypeOK, setup, OnlyShortDataEndsSource, Bytes, SetUpInOrder
<1>12. SetUpInOrder'
  BY <1>1, <1>10 DEF SetUpInOrder, setup
<1> QED BY <1>11, <1>12 DEF IInv

LEMMA NextKeepsIInv == IInv /\ [Next]_vars => IInv'
<1> SUFFICES ASSUME IInv, [Next]_vars PROVE IInv'
  OBVIOUS
<1> USE DEF IInv, TypeOK, SetUpInOrder, OnlyShortDataEndsSource, Bytes
<1>1. ASSUME NEW type \in 0 .. 2, NEW activate \in 0 .. 2, ReadConfig(type, activate) PROVE IInv'
  BY <1>1 DEF ReadConfig
<1>2. CASE ConfigFails
  BY <1>2 DEF ConfigFails
<1>3. CASE ThreadWorks
  BY <1>3 DEF ThreadWorks, ScheduleLeak, ScheduleSource, AssignSource
<1>4. CASE WriteToBucket
  BY <1>4, WriteToBucketKeepsIInv
<1>5. CASE WriteToClient
  BY <1>5, WriteToClientKeepsIInv
<1>6. CASE WriteFails
  BY <1>6, WriteFailsKeepsIInv
<1>7. CASE Transmit
  BY <1>7, TransmitKeepsIInv
<1>8. CASE Leave \/ Reset
  BY <1>8 DEF Leave, Reset, setup
<1>9. CASE UNCHANGED vars
  BY <1>9 DEF vars
<1> QED BY <1>1, <1>2, <1>3, <1>4, <1>5, <1>6, <1>7, <1>8, <1>9 DEF Next, recurringWrite

(* Spec => []TypeOK: the tasks' numbers stay in their ranges, and a source *)
(* whose runs are not longer than the data never dies, whatever the        *)
(* lengths are.                                                            *)
THEOREM TypeCorrect == Spec => []TypeOK
<1>1. IInv => TypeOK
  BY DEF IInv
<1> QED BY <1>1, InitIInv, NextKeepsIInv, PTL DEF Spec
-----------------------------------------------------------------------------
(* The stream: what was taken, what is queued, and what a run will write   *)
(* next, each in order and each following the one before.                  *)
Chained(s) == \A k \in 1 .. Len(s) - 1 : Follows(s[k], s[k + 1])
EndOfStream == IF queue = << >> THEN Last(taken) ELSE Last(queue)
Coming == [at |-> offset % DataLength, lost |-> bytesDropped]
NothingQueued == queue = << >> /\ bytesDropped = 0
StreamInOrder ==
    /\ Chained(taken) /\ Chained(queue)
    /\ queue # << >> => Follows(Last(taken), queue[1])
    /\ source \in {"none", "running"} => Follows(EndOfStream, Coming)
StreamInv ==
    /\ thread = "config" => ~bucket
    /\ thread \in {"config", "schedule_leak", "schedule_source"} => source = "none"
    /\ ~bucket => NothingQueued
    /\ client = "there" => StreamInOrder

LEMMA ChainedTogether ==
    ASSUME NEW S, NEW s \in Seq(S), NEW t \in Seq(S), Chained(s), Chained(t),
           s # << >>, t # << >>, Follows(Last(s), t[1])
    PROVE  Chained(s \o t) /\ Last(s \o t) = Last(t)
<1>1. Len(s) \in Nat \ {0} /\ Len(t) \in Nat \ {0} /\ Len(s \o t) = Len(s) + Len(t)
  OBVIOUS
<1>2. /\ \A k \in 1 .. Len(s) : (s \o t)[k] = s[k]
      /\ \A k \in 1 .. Len(t) : (s \o t)[Len(s) + k] = t[k]
  OBVIOUS
<1> DEFINE st == s \o t
<1>3. ASSUME NEW k \in 1 .. Len(st) - 1 PROVE Follows(st[k], st[k + 1])
  <2>1. CASE k < Len(s)
    <3>1. k \in 1 .. Len(s) - 1 /\ k + 1 \in 1 .. Len(s)
      BY <1>1, <2>1
    <3>2. st[k] = s[k] /\ st[k + 1] = s[k + 1]
      BY <1>2, <3>1
    <3> QED BY <3>1, <3>2 DEF Chained
  <2>2. CASE k = Len(s)
    <3>1. st[k] = Last(s) /\ st[k + 1] = t[1]
      BY <1>1, <1>2, <2>2 DEF Last
    <3> QED BY <3>1
  <2>3. CASE k > Len(s)
    <3> DEFINE j == k - Len(s)
    <3>1. j \in 1 .. Len(t) - 1 /\ j + 1 \in 1 .. Len(t) /\ k = Len(s) + j /\ k + 1 = Len(s) + (j + 1)
      BY <1>1, <2>3
    <3> HIDE DEF j
    <3>2. st[k] = t[j] /\ st[k + 1] = t[j + 1]
      BY <1>2, <3>1
    <3> QED BY <3>1, <3>2 DEF Chained
  <2> QED BY <1>1, <2>1, <2>2, <2>3
<1>4. Chained(st)
  <2> HIDE DEF st
  <2> QED BY <1>3 DEF Chained
<1>5. Last(st) = Last(t)
  BY <1>1, <1>2 DEF Last
<1> QED BY <1>4, <1>5

LEMMA ChainedPart ==
    ASSUME NEW S, NEW s \in Seq(S), Chained(s), NEW a \in 1 .. Len(s) + 1, NEW b \in 0 .. Len(s)
    PROVE  Chained(SubSeq(s, a, b))
<1> DEFINE p == SubSeq(s, a, b)
<1>1. p \in Seq(S) /\ Len(p) = (IF a <= b THEN b - a + 1 ELSE 0)
  OBVIOUS
<1>2. \A k \in 1 .. Len(p) : p[k] = s[a + k - 1]
  OBVIOUS
<1>3. ASSUME NEW k \in 1 .. Len(p) - 1 PROVE Follows(p[k], p[k + 1])
  <2>1. a <= b /\ a + k - 1 \in 1 .. Len(s) - 1 /\ k + 1 \in 1 .. Len(p)
    BY <1>1
  <2>2. p[k] = s[a + k - 1] /\ p[k + 1] = s[(a + k - 1) + 1]
    BY <1>1, <1>2, <2>1
  <2> HIDE DEF p
  <2> QED BY <2>1, <2>2 DEF Chained
<1> HIDE DEF p
<1> QED BY <1>3 DEF Chained, p

(* The invariant is the property. *)
LEMMA StreamInvIsTheData == TypeOK /\ StreamInv => StreamIsTheData
<1> SUFFICES ASSUME TypeOK, StreamInOrder
             PROVE  LET stream == taken \o queue
                        next == [at |-> offset % DataLength, lost |-> bytesDropped]
                    IN  /\ \A k \in 1 .. Len(stream) - 1 : Follows(stream[k], stream[k + 1])
                        /\ source \in {"none", "running"} => Follows(Last(stream), next)
  BY DEF StreamInv, StreamIsTheData
<1>1. taken \in Seq(Bytes) /\ taken # << >> /\ queue \in Seq(Bytes)
  BY DEF TypeOK
<1>2. Chained(taken \o queue) /\ Last(taken \o queue) = EndOfStream
  <2>1. CASE queue = << >>
    <3>1. taken \o queue = taken
      BY <1>1, <2>1
    <3> QED BY <2>1, <3>1 DEF StreamInOrder, EndOfStream
  <2>2. CASE queue # << >>
    BY <1>1, <2>2, ChainedTogether DEF StreamInOrder, EndOfStream
  <2> QED BY <2>1, <2>2
<1> QED BY <1>2 DEF StreamInOrder, Chained, Coming

LEMMA Concatenation ==
    ASSUME NEW S, NEW s \in Seq(S), NEW t \in Seq(S), NEW m \in Nat, NEW n \in Nat,
           Len(s) = m, Len(t) = n
    PROVE  /\ s \o t \in Seq(S) /\ Len(s \o t) = m + n
           /\ \A k \in 1 .. m : (s \o t)[k] = s[k]
           /\ \A k \in 1 .. n : (s \o t)[m + k] = t[k]
  OBVIOUS

(* What a run writes: from offset on, around the end of the data. *)
LEMMA WrittenAt ==
    ASSUME TypeOK
    PROVE  /\ Written \in Seq(Bytes)
           /\ \A k \in 1 .. Len(Written) :
                 Written[k] = [at |-> (offset + k - 1) % DataLength, lost |-> 0]
           /\ ~OutOfBounds => /\ Len(Written) = dataSize
                              /\ OffsetIfAlive % DataLength = (offset + dataSize) % DataLength
<1> USE LengthsAssumption
<1>1. /\ dataSize \in Nat \ {0} /\ offset \in 0 .. DataLength
      /\ bytesUntilEOF \in 0 .. DataLength /\ bytesUntilEOF = DataLength - offset
  BY RunInData DEF TypeOK, bytesUntilEOF
<1>2. Written \in Seq(Bytes)
  BY WrittenIsBytes
<1>3. \A a \in 0 .. DataLength - 1 : a % DataLength = a /\ (a + DataLength) % DataLength = a
  <2> SUFFICES ASSUME NEW a \in 0 .. DataLength - 1
               PROVE  a % DataLength = a /\ (a + DataLength) % DataLength = a
    OBVIOUS
  <2>1. (DataLength * 0 + a) % DataLength = a
    BY RemainderUnique
  <2>2. (DataLength * 1 + a) % DataLength = a
    BY RemainderUnique
  <2>3. DataLength * 0 + a = a /\ DataLength * 1 + a = a + DataLength
    OBVIOUS
  <2> QED BY <2>1, <2>2, <2>3
<1> DEFINE first == IF Wraps THEN bytesUntilEOF ELSE dataSize
           At(k) == [at |-> (offset + k - 1) % DataLength, lost |-> 0]
<1>4. first \in Nat /\ first <= bytesUntilEOF
  BY <1>1 DEF Wraps
<1>5. FirstPiece \in Seq(Bytes) /\ Len(FirstPiece) = first
  <2>1. FirstPiece \in Seq(Bytes)
    BY RunInData
  <2>2. Len(FirstPiece) = first
    <3>1. FirstPiece = [k \in 1 .. first |-> Byte(offset + k - 1)]
      BY DEF FirstPiece
    <3> HIDE DEF first
    <3> QED BY <1>4, <3>1
  <2> QED BY <2>1, <2>2
<1>6. \A k \in 1 .. first : FirstPiece[k] = At(k)
  <2> SUFFICES ASSUME NEW k \in 1 .. first PROVE FirstPiece[k] = At(k)
    OBVIOUS
  <2>1. offset + k - 1 \in 0 .. DataLength - 1
    BY <1>1, <1>4
  <2>2. (offset + k - 1) % DataLength = offset + k - 1
    BY <1>3, <2>1
  <2>3. FirstPiece[k] = Byte(offset + k - 1)
    BY DEF FirstPiece
  <2> QED BY <2>2, <2>3 DEF Byte
<1>7. CASE OutOfBounds
  BY <1>2, <1>5, <1>6, <1>7 DEF Written
<1>8. CASE ~OutOfBounds /\ ~Wraps
  <2>1. FirstPiece \o << >> = FirstPiece
    BY <1>5
  <2>2. Written = FirstPiece /\ first = dataSize
    BY <1>8, <2>1 DEF Written, SecondPiece
  <2>3. OffsetIfAlive = offset + dataSize
    BY <1>8 DEF OffsetIfAlive, OffsetAfter
  <2> QED BY <1>2, <1>5, <1>6, <2>2, <2>3
<1>9. CASE ~OutOfBounds /\ Wraps
  <2> DEFINE rest == bytesFromBeginning
  <2>1. rest \in 0 .. DataLength /\ rest = dataSize - first /\ first = DataLength - offset
    BY <1>1, <1>9 DEF OutOfBounds, Wraps, bytesFromBeginning
  <2>2. SecondPiece = [k \in 1 .. rest |-> Byte(k - 1)]
    BY <1>9 DEF SecondPiece
  <2>3. SecondPiece \in Seq(Bytes)
    BY <1>9, RunInData
  <2>4. Written = FirstPiece \o SecondPiece /\ OffsetIfAlive = rest
    BY <1>9 DEF Written, OffsetIfAlive, OffsetAfter
  <2> HIDE DEF rest, first
  <2>5. Len(SecondPiece) = rest
    BY <2>1, <2>2
  <2>9. first \in Nat /\ rest \in Nat
    BY <1>4, <2>1
  <2>10. /\ Len(Written) = first + rest
         /\ \A k \in 1 .. first : Written[k] = FirstPiece[k]
         /\ \A k \in 1 .. rest : Written[first + k] = SecondPiece[k]
    <3>1. FirstPiece \in Seq(Bytes) /\ Len(FirstPiece) = first
      BY <1>5
    <3> DEFINE both == FirstPiece \o SecondPiece
    <3>2. /\ Len(both) = first + rest
          /\ \A k \in 1 .. first : both[k] = FirstPiece[k]
          /\ \A k \in 1 .. rest : both[first + k] = SecondPiece[k]
      BY <2>3, <2>5, <2>9, <3>1, Concatenation
    <3>3. Written = both
      BY <2>4
    <3> HIDE DEF both
    <3> QED BY <3>2, <3>3
  <2>6. Len(Written) = dataSize
    BY <1>1, <2>1, <2>9, <2>10
  <2>7. ASSUME NEW k \in 1 .. Len(Written) PROVE Written[k] = At(k)
    <3>1. CASE k <= first
      <4>1. k \in 1 .. first /\ Written[k] = FirstPiece[k]
        BY <2>9, <2>10, <3>1
      <4> QED BY <1>6, <4>1
    <3>2. CASE k > first
      <4> DEFINE j == k - first
      <4>1. j \in 1 .. rest /\ j - 1 \in 0 .. DataLength - 1
        BY <2>1, <2>9, <2>10, <3>2
      <4>2. Written[k] = SecondPiece[j]
        <5>1. k = first + j
          BY <2>9, <2>10
        <5> HIDE DEF j
        <5> QED BY <2>10, <4>1, <5>1
      <4>3. SecondPiece[j] = [at |-> j - 1, lost |-> 0]
        BY <2>2, <4>1 DEF Byte
      <4>4. (offset + k - 1) = (j - 1) + DataLength
        <5>1. k \in Int
          BY <2>9, <2>10
        <5>2. offset \in Int /\ first \in Int /\ DataLength \in Int /\ offset + first = DataLength
          BY <1>1, <2>1, <2>9
        <5> QED BY <5>1, <5>2
      <4>5. ((j - 1) + DataLength) % DataLength = j - 1
        BY <1>3, <4>1
      <4> QED BY <4>2, <4>3, <4>4, <4>5
    <3> QED BY <1>4, <2>6, <3>1, <3>2
  <2>8. rest % DataLength = (offset + dataSize) % DataLength
    <3>1. offset + dataSize = DataLength + rest
      BY <1>1, <2>1
    <3>2. CASE rest = DataLength
      <4>1. (DataLength * 1 + 0) % DataLength = 0 /\ (DataLength * 2 + 0) % DataLength = 0
        BY RemainderUnique
      <4>2. DataLength * 1 + 0 = rest /\ DataLength * 2 + 0 = offset + dataSize
        BY <3>1, <3>2
      <4> QED BY <4>1, <4>2
    <3>3. CASE rest # DataLength
      <4>1. rest \in 0 .. DataLength - 1
        BY <2>1, <3>3
      <4>2. rest % DataLength = rest /\ (rest + DataLength) % DataLength = rest
        BY <1>3, <4>1
      <4>3. rest + DataLength = offset + dataSize
        BY <1>1, <2>1, <3>1
      <4> QED BY <4>2, <4>3
    <3> QED BY <3>2, <3>3
  <2> QED BY <1>2, <2>4, <2>6, <2>7, <2>8
<1> QED BY <1>7, <1>8, <1>9

(* So it is in order, and begins where the stream goes on. *)
LEMMA WrittenInOrder ==
    ASSUME TypeOK
    PROVE  /\ Chained(Written)
           /\ Written # << >> => Written[1].at = offset % DataLength
<1> USE LengthsAssumption
<1>1. offset \in Nat /\ Written \in Seq(Bytes)
  <2>1. offset \in 0 .. DataLength
    BY DEF TypeOK
  <2> QED BY <2>1, WrittenIsBytes
<1>2. \A k \in 1 .. Len(Written) :
         Written[k] = [at |-> (offset + k - 1) % DataLength, lost |-> 0]
  BY WrittenAt
<1>3. ASSUME NEW k \in 1 .. Len(Written) - 1 PROVE Follows(Written[k], Written[k + 1])
  <2>1. k \in 1 .. Len(Written) /\ k + 1 \in 1 .. Len(Written) /\ offset + k - 1 \in Nat
    BY <1>1
  <2>2. Written[k].at = (offset + k - 1) % DataLength
    <3>1. Written[k] = [at |-> (offset + k - 1) % DataLength, lost |-> 0]
      BY <1>2, <2>1
    <3> QED BY <3>1
  <2>3. Written[k + 1].at = (offset + (k + 1) - 1) % DataLength /\ Written[k + 1].lost = 0
    <3>1. Written[k + 1] = [at |-> (offset + (k + 1) - 1) % DataLength, lost |-> 0]
      BY <1>2, <2>1
    <3> QED BY <3>1
  <2>4. (((offset + k - 1) % DataLength) + 1) % DataLength = ((offset + k - 1) + 1) % DataLength
    BY <2>1, RemainderOfSum
  <2>5. (offset + k - 1) + 1 = offset + (k + 1) - 1
    BY <1>1
  <2>6. (offset + k - 1) % DataLength \in Int
    BY <2>1, Division
  <2>7. ((offset + k - 1) % DataLength) + 1 + 0 = ((offset + k - 1) % DataLength) + 1
    BY <2>6
  <2> QED BY <2>2, <2>3, <2>4, <2>5, <2>7 DEF Follows
<1>4. ASSUME Written # << >> PROVE Written[1].at = offset % DataLength
  <2>1. 1 \in 1 .. Len(Written)
    BY <1>1, <1>4
  <2>2. Written[1] = [at |-> (offset + 1 - 1) % DataLength, lost |-> 0]
    BY <1>2, <2>1
  <2>3. offset + 1 - 1 = offset
    BY <1>1
  <2> QED BY <2>2, <2>3
<1> QED BY <1>3, <1>4 DEF Chained

(* Where a run goes on when its first m bytes found a place and the others *)
(* did not.                                                                *)
LEMMA GoesOnAfter ==
    ASSUME TypeOK, ~OutOfBounds, NEW m \in 1 .. Len(Written), NEW b \in Bytes, b.at = Written[m].at
    PROVE  Follows(b, [at |-> OffsetIfAlive % DataLength,
                       lost |-> (Len(Written) - m) % DataLength])
<1> USE LengthsAssumption
<1> DEFINE rest == Len(Written) - m
           here == b.at + 1
<1>1. dataSize \in Nat /\ offset \in Nat
  <2>1. dataSize \in Nat \ {0} /\ offset \in 0 .. DataLength
    BY RunInData DEF TypeOK
  <2> QED BY <2>1
<1>2. Len(Written) = dataSize /\ OffsetIfAlive % DataLength = (offset + dataSize) % DataLength
  BY WrittenAt
<1>3. rest \in Nat /\ offset + m \in Nat /\ offset + m - 1 \in Nat /\ offset + m + rest = offset + dataSize
  BY <1>1, <1>2
<1>4. b.at = (offset + m - 1) % DataLength
  <2>1. Written[m] = [at |-> (offset + m - 1) % DataLength, lost |-> 0]
    BY WrittenAt
  <2> QED BY <2>1
<1> HIDE DEF rest
<1>5. here % DataLength = (offset + m) % DataLength
  <2>1. (((offset + m - 1) % DataLength) + 1) % DataLength = (offset + m - 1 + 1) % DataLength
    BY <1>3, RemainderOfSum
  <2>2. offset + m - 1 + 1 = offset + m
    BY <1>1
  <2> QED BY <1>4, <2>1, <2>2
<1>6. here \in Nat /\ rest % DataLength \in Nat
  <2>1. rest % DataLength \in 0 .. DataLength - 1
    BY <1>3, Division
  <2> QED BY <2>1 DEF Bytes
<1> HIDE DEF here
<1>7. ((rest % DataLength) + here) % DataLength = (rest + here) % DataLength
  BY <1>3, <1>6, RemainderOfSum
<1>8. ((here % DataLength) + rest) % DataLength = (here + rest) % DataLength
  BY <1>3, <1>6, RemainderOfSum
<1>9. (((offset + m) % DataLength) + rest) % DataLength = (offset + m + rest) % DataLength
  BY <1>3, RemainderOfSum
<1>10. /\ (rest % DataLength) + here = here + (rest % DataLength)
       /\ rest + here = here + rest
  BY <1>3, <1>6
<1>11. (here + (rest % DataLength)) % DataLength = (offset + dataSize) % DataLength
  BY <1>3, <1>5, <1>7, <1>8, <1>9, <1>10
<1> QED BY <1>2, <1>11 DEF Follows, rest, here

(* Where it goes on when none did. *)
LEMMA GoesOnWithout ==
    ASSUME TypeOK, ~OutOfBounds, NEW b \in Bytes, Follows(b, Coming)
    PROVE  Follows(b, [at |-> OffsetIfAlive % DataLength,
                       lost |-> (bytesDropped + Len(Written)) % DataLength])
<1> USE LengthsAssumption
<1> DEFINE all == bytesDropped + dataSize
           here == b.at + 1
           base == here + bytesDropped
<1>1. dataSize \in Nat /\ offset \in Nat /\ bytesDropped \in Nat /\ here \in Nat
  <2>1. dataSize \in Nat \ {0} /\ offset \in 0 .. DataLength /\ bytesDropped \in 0 .. DataLength - 1
    BY RunInData DEF TypeOK
  <2> QED BY <2>1 DEF Bytes
<1>2. Len(Written) = dataSize /\ OffsetIfAlive % DataLength = (offset + dataSize) % DataLength
  BY WrittenAt
<1>3. here + bytesDropped = base /\ offset % DataLength = base % DataLength
  BY DEF Follows, Coming
<1> HIDE DEF here
<1>4. all \in Nat /\ base \in Nat /\ all % DataLength \in Nat
  <2>1. all \in Nat /\ base \in Nat
    BY <1>1
  <2> HIDE DEF all, base
  <2>2. all % DataLength \in 0 .. DataLength - 1
    BY <2>1, Division
  <2> QED BY <2>1, <2>2
<1>5. all + here = base + dataSize
  BY <1>1
<1>6. (all % DataLength) + here = here + (all % DataLength)
  <2> HIDE DEF all
  <2> QED BY <1>1, <1>4
<1> HIDE DEF all, base
<1>7. ((all % DataLength) + here) % DataLength = (all + here) % DataLength
  BY <1>1, <1>4, RemainderOfSum
<1>8. ((base % DataLength) + dataSize) % DataLength = (base + dataSize) % DataLength
  BY <1>1, <1>4, RemainderOfSum
<1>9. ((offset % DataLength) + dataSize) % DataLength = (offset + dataSize) % DataLength
  BY <1>1, RemainderOfSum
<1>10. (here + (all % DataLength)) % DataLength = (offset + dataSize) % DataLength
  BY <1>3, <1>5, <1>6, <1>7, <1>8, <1>9
<1> QED BY <1>2, <1>10 DEF Follows, all, here

LEMMA LastOfBytes ==
    ASSUME NEW s \in Seq(Bytes), s # << >>
    PROVE  Last(s) \in Bytes /\ Len(s) \in 1 .. Len(s) /\ Last(s) = s[Len(s)]
<1>1. Len(s) \in 1 .. Len(s)
  OBVIOUS
<1> QED BY <1>1 DEF Last

LEMMA EndIsByte ==
    ASSUME TypeOK PROVE EndOfStream \in Bytes
<1>1. taken \in Seq(Bytes) /\ taken # << >> /\ queue \in Seq(Bytes)
  BY DEF TypeOK
<1> QED BY <1>1, LastOfBytes DEF EndOfStream

LEMMA OneByte ==
    ASSUME TypeOK
    PROVE  /\ <<Last(taken)>> \in Seq(Bytes) /\ <<Last(taken)>> # << >>
           /\ Chained(<<Last(taken)>>) /\ Last(<<Last(taken)>>) = Last(taken)
<1>1. <<Last(taken)>> \in Seq(Bytes)
  BY LastIsByte
<1>2. Chained(<<Last(taken)>>)
  BY DEF Chained
<1>3. Last(<<Last(taken)>>) = Last(taken)
  BY DEF Last
<1> QED BY <1>1, <1>2, <1>3

LEMMA WriteToClientKeepsStream ==
    ASSUME TypeOK, StreamInv, WriteToClient PROVE StreamInv'
<1>1. /\ UNCHANGED <<setup, leak, queue, bytesDropped, client>> /\ source = "running" /\ ~bucket
      /\ source' = SourceAfter /\ offset' = OffsetIfAlive
  BY DEF WriteToClient
<1>2. queue = << >> /\ bytesDropped = 0
  BY <1>1 DEF StreamInv, NothingQueued
<1>3. ASSUME client = "there" PROVE StreamInOrder'
  <2>1. Chained(taken) /\ Follows(Last(taken), Coming)
    BY <1>1, <1>2, <1>3 DEF StreamInv, StreamInOrder, EndOfStream
  <2>2. PICK run \in {<< >>, Written} :
           taken' = <<Last(taken)>> \o run /\ (~OutOfBounds => run = Written)
    BY <1>3 DEF WriteToClient
  <2>3. Written \in Seq(Bytes) /\ (~OutOfBounds => Len(Written) = dataSize /\ dataSize \in Nat \ {0})
    BY WrittenAt, RunInData
  <2>4. source' \in {"none", "running"} => ~OutOfBounds
    BY <1>1 DEF SourceAfter
  <2>5. CASE run = << >>
    <3>1. OutOfBounds
      BY <2>2, <2>3, <2>5
    <3>2. taken' = <<Last(taken)>>
      BY <2>2, <2>5, OneByte
    <3>3. Chained(taken')
      BY <3>2, OneByte
    <3>4. Chained(queue')
      BY <1>1, <1>2 DEF Chained
    <3> QED BY <1>1, <1>2, <2>4, <3>1, <3>3, <3>4 DEF StreamInOrder, Chained
  <2>6. CASE run # << >>
    <3>1. run = Written /\ Written # << >>
      BY <2>2, <2>6
    <3>2. Written[1].at = offset % DataLength /\ Written[1].lost = 0 /\ Chained(Written)
      <4>1. 1 \in 1 .. Len(Written)
        BY <2>3, <3>1
      <4>2. Written[1] = [at |-> (offset + 1 - 1) % DataLength, lost |-> 0]
        BY <4>1, WrittenAt
      <4>3. Written[1].lost = 0
        BY <4>2
      <4> QED BY <3>1, <4>3, WrittenInOrder
    <3>3. Follows(Last(taken), Written[1])
      BY <1>2, <2>1, <3>2 DEF Follows, Coming
    <3>4. Chained(taken') /\ Last(taken') = Last(Written)
      <4>1. Chained(<<Last(taken)>> \o Written) /\ Last(<<Last(taken)>> \o Written) = Last(Written)
        BY <2>3, <3>1, <3>2, <3>3, OneByte, ChainedTogether
      <4> QED BY <2>2, <3>1, <4>1
    <3>5. ASSUME ~OutOfBounds PROVE Follows(Last(Written), Coming')
      <4>1. /\ Last(Written) \in Bytes /\ Last(Written) = Written[Len(Written)]
            /\ Len(Written) \in 1 .. Len(Written)
        BY <2>3, <3>1, LastOfBytes
      <4>2. Follows(Last(Written), [at |-> OffsetIfAlive % DataLength,
                                    lost |-> (Len(Written) - Len(Written)) % DataLength])
        BY <3>5, <4>1, GoesOnAfter
      <4>3. (Len(Written) - Len(Written)) % DataLength = 0
        <5>1. Len(Written) - Len(Written) = DataLength * 0 + 0
          BY <2>3, LengthsAssumption
        <5> QED BY <5>1, RemainderUnique, LengthsAssumption
      <4> QED BY <1>1, <1>2, <4>2, <4>3 DEF Coming
    <3>6. queue' = << >> /\ Chained(queue')
      BY <1>1, <1>2 DEF Chained
    <3> QED BY <2>4, <3>4, <3>5, <3>6 DEF StreamInOrder, EndOfStream, Chained
  <2> QED BY <2>5, <2>6
<1> QED BY <1>1, <1>2, <1>3 DEF StreamInv, NothingQueued, setup

LEMMA WriteToBucketKeepsStream ==
    ASSUME TypeOK, StreamInv, WriteToBucket PROVE StreamInv'
<1> DEFINE room == Smaller(QueueSize - Len(queue), Len(Written))
           kept == [k \in 1 .. room |->
                      IF k = 1 THEN [Written[1] EXCEPT !.lost = bytesDropped] ELSE Written[k]]
<1>1. /\ UNCHANGED <<setup, leak, client, taken>> /\ source = "running" /\ bucket
      /\ source' = SourceAfter /\ offset' = OffsetIfAlive /\ queue' = queue \o kept
      /\ bytesDropped' =
            ((IF room = 0 THEN bytesDropped ELSE 0) + Len(Written) - room) % DataLength
  BY DEF WriteToBucket
<1>2. /\ queue \in Seq(Bytes) /\ Len(queue) <= QueueSize /\ Written \in Seq(Bytes)
      /\ taken \in Seq(Bytes) /\ taken # << >> /\ bytesDropped \in 0 .. DataLength - 1
  BY WrittenIsBytes DEF TypeOK
<1>3. room \in Nat /\ room <= Len(Written)
  BY <1>2, LengthsAssumption DEF Smaller
<1>4. ASSUME NEW k \in 1 .. room
      PROVE  /\ kept[k] \in Bytes /\ Written[k] \in Bytes /\ kept[k].at = Written[k].at
             /\ kept[k].lost = (IF k = 1 THEN bytesDropped ELSE 0) /\ Written[k].lost = 0
  <2>1. k \in 1 .. Len(Written)
    BY <1>2, <1>3
  <2>2. Written[k] \in Bytes
    BY <1>2, <2>1
  <2>3. Written[k] = [at |-> (offset + k - 1) % DataLength, lost |-> 0]
    BY <2>1, WrittenAt
  <2>4. Written[k].lost = 0
    BY <2>3
  <2>5. kept[k] = IF k = 1 THEN [Written[k] EXCEPT !.lost = bytesDropped] ELSE Written[k]
    OBVIOUS
  <2> HIDE DEF kept
  <2> QED BY <1>2, <2>2, <2>4, <2>5 DEF Bytes
<1>5. kept \in Seq(Bytes) /\ Len(kept) = room
  <2>1. kept \in [1 .. room -> Bytes]
    BY <1>4
  <2> HIDE DEF kept, room
  <2> QED BY <2>1, <1>3
<1> HIDE DEF kept, room
<1>6. source' \in {"none", "running"} => ~OutOfBounds
  BY <1>1 DEF SourceAfter
<1>7. ASSUME client = "there" PROVE StreamInOrder'
  <2>1. /\ Chained(taken) /\ Chained(queue) /\ (queue # << >> => Follows(Last(taken), queue[1]))
        /\ Follows(EndOfStream, Coming)
    BY <1>1, <1>7 DEF StreamInv, StreamInOrder
  <2>2. CASE room = 0
    <3>1. queue' = queue
      BY <1>1, <1>2, <1>5, <2>2
    <3>2. EndOfStream' = EndOfStream
      BY <1>1, <3>1 DEF EndOfStream
    <3>3. bytesDropped' = (bytesDropped + Len(Written)) % DataLength
      BY <1>1, <1>2, <2>2
    <3>4. ~OutOfBounds => Follows(EndOfStream, [at |-> OffsetIfAlive % DataLength,
                                   lost |-> (bytesDropped + Len(Written)) % DataLength])
      BY <2>1, GoesOnWithout, EndIsByte
    <3>5. ~OutOfBounds => Follows(EndOfStream, Coming')
      BY <1>1, <3>3, <3>4 DEF Coming
    <3>6. Chained(taken') /\ Chained(queue')
      BY <1>1, <2>1, <3>1
    <3> QED BY <1>1, <1>6, <2>1, <3>1, <3>2, <3>5, <3>6 DEF StreamInOrder, Chained
  <2>3. CASE room # 0
    <3>1. kept # << >> /\ 1 \in 1 .. room /\ room \in 1 .. room /\ room \in 1 .. Len(Written)
          /\ Written # << >>
      BY <1>2, <1>3, <1>5, <2>3
    <3>2. Chained(kept)
      <4> SUFFICES ASSUME NEW k \in 1 .. room - 1 PROVE Follows(kept[k], kept[k + 1])
        BY <1>5 DEF Chained
      <4>1. k \in 1 .. room /\ k + 1 \in 1 .. room /\ k \in 1 .. Len(Written) - 1 /\ k + 1 # 1
        BY <1>2, <1>3
      <4>2. Follows(Written[k], Written[k + 1])
        BY <4>1, WrittenInOrder DEF Chained
      <4>3. /\ kept[k].at = Written[k].at /\ kept[k + 1].at = Written[k + 1].at
            /\ kept[k + 1].lost = Written[k + 1].lost
        BY <1>4, <4>1
      <4> QED BY <4>2, <4>3 DEF Follows
    <3>3. Follows(EndOfStream, kept[1])
      <4>1. kept[1].at = offset % DataLength /\ kept[1].lost = bytesDropped
        BY <1>4, <3>1, WrittenInOrder
      <4> QED BY <2>1, <4>1 DEF Follows, Coming
    <3>4. Last(kept) \in Bytes /\ Last(kept).at = Written[room].at
      BY <1>4, <1>5, <3>1 DEF Last
    <3>5. bytesDropped' = (Len(Written) - room) % DataLength
      BY <1>1, <1>2, <1>3, <2>3
    <3>6. ~OutOfBounds => Follows(Last(kept), [at |-> OffsetIfAlive % DataLength,
                                               lost |-> (Len(Written) - room) % DataLength])
      BY <3>1, <3>4, GoesOnAfter
    <3>7. ~OutOfBounds => Follows(Last(kept), Coming')
      BY <1>1, <3>5, <3>6 DEF Coming
    <3>8. /\ queue' # << >> /\ Chained(queue') /\ Last(queue') = Last(kept)
          /\ Follows(Last(taken), queue'[1])
      <4>1. CASE queue = << >>
        <5>1. queue' = kept
          BY <1>1, <1>5, <4>1
        <5> QED BY <3>1, <3>2, <3>3, <4>1, <5>1 DEF EndOfStream
      <4>2. CASE queue # << >>
        <5> DEFINE both == queue \o kept
        <5>1. Chained(both) /\ Last(both) = Last(kept)
          BY <1>2, <1>5, <2>1, <3>1, <3>2, <3>3, <4>2, ChainedTogether DEF EndOfStream
        <5>2. both # << >> /\ both[1] = queue[1]
          BY <1>2, <1>5, <4>2
        <5>3. queue' = both
          BY <1>1
        <5> HIDE DEF both
        <5> QED BY <2>1, <4>2, <5>1, <5>2, <5>3
      <4> QED BY <4>1, <4>2
    <3>9. taken' = taken
      BY <1>1
    <3>10. EndOfStream' = Last(kept)
      BY <3>8 DEF EndOfStream
    <3>11. Chained(taken')
      BY <2>1, <3>9
    <3> QED BY <1>6, <3>7, <3>8, <3>9, <3>10, <3>11 DEF StreamInOrder, Chained
  <2> QED BY <2>2, <2>3
<1> QED BY <1>1, <1>7 DEF StreamInv, setup

LEMMA TransmitKeepsStream ==
    ASSUME TypeOK, StreamInv, Transmit PROVE StreamInv'
<1> USE LengthsAssumption
<1>1. /\ leak = "running" /\ UNCHANGED <<setup, offset, source, bytesDropped, client>>
      /\ queue' = SubSeq(queue, Len(Drained) + 1, Len(queue)) /\ bucket
  BY DEF Transmit, TypeOK
<1>2. queue \in Seq(Bytes) /\ taken \in Seq(Bytes) /\ taken # << >> /\ AmountToSend \in Nat
  BY DEF TypeOK, AmountToSend
<1> DEFINE n == Smaller(AmountToSend, Len(queue))
           rest == SubSeq(queue, n + 1, Len(queue))
<1>3. n \in 0 .. Len(queue)
  BY <1>2 DEF Smaller
<1>4. Drained = SubSeq(queue, 1, n)
  BY DEF Drained
<1> HIDE DEF n
<1>5. Drained \in Seq(Bytes) /\ Len(Drained) = n /\ (\A k \in 1 .. n : Drained[k] = queue[k])
  BY <1>2, <1>3, <1>4
<1>6. queue' = rest
  BY <1>1, <1>5
<1>7. /\ rest \in Seq(Bytes) /\ Len(rest) = Len(queue) - n
      /\ \A k \in 1 .. Len(queue) - n : rest[k] = queue[n + k]
  BY <1>2, <1>3
<1> HIDE DEF rest
<1>8. ASSUME client = "there" PROVE StreamInOrder'
  <2>1. /\ Chained(taken) /\ Chained(queue) /\ (queue # << >> => Follows(Last(taken), queue[1]))
        /\ source \in {"none", "running"} => Follows(EndOfStream, Coming)
    BY <1>8 DEF StreamInv, StreamInOrder
  <2>2. taken' = <<Last(taken)>> \o Drained /\ Coming' = Coming
    BY <1>1, <1>8 DEF Transmit, Coming
  <2>3. CASE n = 0
    <3>1. taken' = <<Last(taken)>> /\ queue' = queue
      <4>1. Drained = << >> /\ SubSeq(queue, 1, Len(queue)) = queue
        BY <1>2, <1>5, <2>3
      <4> QED BY <1>1, <2>2, <4>1, OneByte
    <3>2. Chained(taken') /\ Last(taken') = Last(taken)
      BY <3>1, OneByte
    <3>3. EndOfStream' = EndOfStream /\ Chained(queue')
      BY <2>1, <3>1, <3>2 DEF EndOfStream
    <3> QED BY <1>1, <2>1, <2>2, <3>1, <3>2, <3>3 DEF StreamInOrder, Chained
  <2>4. CASE n # 0
    <3>1. 1 \in 1 .. n /\ n \in 1 .. Len(queue) /\ Drained # << >> /\ queue # << >>
      BY <1>2, <1>3, <1>5, <2>4
    <3>2. Chained(Drained) /\ Chained(rest)
      <4>1. 1 \in 1 .. Len(queue) + 1 /\ n \in 0 .. Len(queue) /\ n + 1 \in 1 .. Len(queue) + 1
            /\ Len(queue) \in 0 .. Len(queue)
        BY <1>2, <1>3
      <4>2. Chained(SubSeq(queue, 1, n)) /\ Chained(SubSeq(queue, n + 1, Len(queue)))
        BY <1>2, <2>1, <4>1, ChainedPart
      <4> QED BY <1>4, <4>2 DEF rest
    <3>3. Drained[1] = queue[1] /\ Last(Drained) = queue[n]
      BY <1>5, <3>1 DEF Last
    <3>4. Chained(taken') /\ Last(taken') = queue[n]
      <4>1. Follows(Last(taken), Drained[1])
        BY <2>1, <3>1, <3>3
      <4>2. Chained(<<Last(taken)>> \o Drained) /\ Last(<<Last(taken)>> \o Drained) = Last(Drained)
        BY <1>5, <3>1, <3>2, <4>1, OneByte, ChainedTogether
      <4> QED BY <2>2, <3>3, <4>2
    <3>5. CASE n = Len(queue)
      <4>1. rest = << >>
        BY <1>7, <3>5
      <4>2. EndOfStream' = EndOfStream
        BY <1>6, <3>1, <3>4, <3>5, <4>1 DEF EndOfStream, Last
      <4> QED BY <1>1, <1>6, <2>1, <2>2, <3>2, <3>4, <4>1, <4>2 DEF StreamInOrder, Chained
    <3>6. CASE n # Len(queue)
      <4>1. /\ Len(queue) - n \in 1 .. Len(queue) - n /\ 1 \in 1 .. Len(queue) - n
            /\ n \in 1 .. Len(queue) - 1 /\ n + (Len(queue) - n) = Len(queue)
        BY <1>2, <1>3, <2>4, <3>6
      <4>2. rest # << >> /\ rest[1] = queue[n + 1] /\ Last(rest) = Last(queue)
        <5>1. rest[1] = queue[n + 1] /\ rest[Len(queue) - n] = queue[Len(queue)]
          <6>1. rest[Len(queue) - n] = queue[n + (Len(queue) - n)] /\ rest[1] = queue[n + 1]
            BY <1>7, <4>1
          <6> QED BY <4>1, <6>1
        <5>2. rest # << >>
          BY <1>7, <4>1
        <5> QED BY <1>7, <5>1, <5>2 DEF Last
      <4>3. Follows(queue[n], queue[n + 1])
        BY <2>1, <4>1 DEF Chained
      <4>4. EndOfStream' = EndOfStream
        BY <1>6, <3>1, <4>2 DEF EndOfStream
      <4> QED BY <1>1, <1>6, <2>1, <2>2, <3>2, <3>4, <4>2, <4>3, <4>4 DEF StreamInOrder, Chained
    <3> QED BY <3>5, <3>6
  <2> QED BY <2>3, <2>4
<1> QED BY <1>1, <1>8 DEF StreamInv, setup

LEMMA InitStream == Init => StreamInv
<1> SUFFICES ASSUME Init PROVE StreamInv
  OBVIOUS
<1> USE LengthsAssumption
<1>1. taken = <<Byte(DataLength - 1)>> /\ Last(taken) = Byte(DataLength - 1)
  BY DEF Init, Last
<1>2. Chained(taken) /\ Chained(queue)
  BY <1>1 DEF Chained, Init
<1>3. Follows(Last(taken), Coming)
  <2>1. (DataLength * 0 + 0) % DataLength = 0 /\ (DataLength * 1 + 0) % DataLength = 0
    BY RemainderUnique
  <2>2. 0 % DataLength = 0 /\ DataLength % DataLength = 0
    BY <2>1
  <2>3. (DataLength - 1) + 1 + 0 = DataLength
    OBVIOUS
  <2>4. offset = 0 /\ bytesDropped = 0
    BY DEF Init
  <2> QED BY <1>1, <2>2, <2>3, <2>4 DEF Follows, Coming, Byte
<1> QED BY <1>2, <1>3 DEF Init, StreamInv, StreamInOrder, NothingQueued, EndOfStream

LEMMA NextKeepsStream == TypeOK /\ StreamInv /\ [Next]_vars => StreamInv'
<1> SUFFICES ASSUME TypeOK, StreamInv, [Next]_vars PROVE StreamInv'
  OBVIOUS
<1> USE DEF StreamInv, NothingQueued, StreamInOrder, EndOfStream, Coming, Chained
<1>1. ASSUME NEW type \in 0 .. 2, NEW activate \in 0 .. 2, ReadConfig(type, activate)
      PROVE  StreamInv'
  BY <1>1 DEF ReadConfig
<1>2. CASE ConfigFails
  BY <1>2 DEF ConfigFails
<1>3. CASE ThreadWorks
  BY <1>3 DEF ThreadWorks, ScheduleLeak, ScheduleSource, AssignSource
<1>4. CASE WriteToBucket
  BY <1>4, WriteToBucketKeepsStream
<1>5. CASE WriteToClient
  BY <1>5, WriteToClientKeepsStream
<1>6. CASE WriteFails
  BY <1>6 DEF WriteFails, setup
<1>7. CASE Transmit
  BY <1>7, TransmitKeepsStream
<1>8. CASE Leave \/ Reset
  BY <1>8 DEF Leave, Reset, setup
<1>9. CASE UNCHANGED vars
  BY <1>9 DEF vars
<1> QED BY <1>1, <1>2, <1>3, <1>4, <1>5, <1>6, <1>7, <1>8, <1>9 DEF Next, recurringWrite

(* Spec => []StreamIsTheData: whatever the lengths of the data, of a run   *)
(* and of the queue, and whatever the rate, the client gets the data from  *)
(* its beginning, over and over, without those bytes only that the full    *)
(* bucket dropped: TrafficSource.recurringWrite and its wrap-around, the   *)
(* bucket's queue, and Transmit.run.                                       *)
THEOREM ClientGetsTheData == Spec => []StreamIsTheData
<1> DEFINE Inv == IInv /\ StreamInv
<1>1. IInv => TypeOK
  BY DEF IInv
<1>2. Init => Inv
  BY InitIInv, InitStream
<1>3. Inv /\ [Next]_vars => Inv'
  BY <1>1, NextKeepsIInv, NextKeepsStream
<1>4. Inv => StreamIsTheData
  BY <1>1, StreamInvIsTheData
<1> QED BY <1>2, <1>3, <1>4, PTL DEF Spec

=============================================================================
