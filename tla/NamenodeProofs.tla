--------------------------- MODULE NamenodeProofs ---------------------------
(***************************************************************************)
(* Theorems about the namenode for every number of datanodes, files,       *)
(* blocks, heartbeats and requests: its types, the exact count of the      *)
(* datanodes, and what a request that meets a heartbeat can run into.      *)
(***************************************************************************)
EXTENDS Namenode, FiniteSetTheorems, WellFoundedInduction, TLAPS

Pos == Position(datanode_status)
Passed == {s \in Filled : s < count_i}
Filling == {"dn_id", "ip", "port"}

(* The types of each thread's variables: TypeOK in two halves.             *)
RegistryTypes ==
    /\ dnlist \in [Slots -> Datanode \cup {Null}]
    /\ dncnt \in 0 .. MaxDatanodeNum /\ safeMode \in {0, 1}
    /\ hpc \in {"accept", "allocate", "dn_id", "ip", "port", "reset", "count"}
    /\ datanode_status \in Heartbeats \cup {Null} /\ count_i \in 0 .. MaxDatanodeNum
MainTypes ==
    /\ mpc \in {"safe_mode", "accept", "dn_id", "ip", "port", "list", "crashed"}
    /\ request \in Requests \cup {Null}
    /\ file_images \in [Images -> Image \cup {Null}]
    /\ file_image \in Images /\ next \in 0 .. MaxDatanodeNum + MaxFileBlkCount
    /\ first_id \in 0 .. MaxFileBlkCount /\ block_data \in Block

(* The entry a heartbeat works on has a place in the table.                *)
EntryListed ==
    /\ hpc # "accept" => /\ datanode_status \in Heartbeats
                         /\ datanode_status.datanode_id < MaxDatanodeNum
    /\ hpc \in Filling \cup {"reset", "count"} => dnlist[Pos] # Null

(* What dncnt counts at each place of the heartbeat thread: a new datanode *)
(* is not counted until the recount.                                       *)
CountByPlace ==
    /\ hpc \in {"accept", "allocate"} => dncnt = Cardinality(Filled)
    /\ hpc \in Filling \cup {"reset"} =>
           dncnt \in {Cardinality(Filled), Cardinality(Filled \ {Pos})}
    /\ hpc = "count" => dncnt = Cardinality(Passed)

(* Only the entry being filled may hold garbage, and then it is not counted *)
(* yet.                                                                    *)
GarbageByPlace ==
    /\ \A s \in Filled : Unfilled(s) =>
           s = Pos /\ hpc \in Filling /\ dncnt = Cardinality(Filled \ {Pos})
    /\ hpc \in {"ip", "port"} => dnlist[Pos].dn_id # Garbage
    /\ hpc = "port" => dnlist[Pos].ip # Garbage

(* Clients are served after the first registration, and outside a recount  *)
(* there is a datanode to deal blocks to.                                  *)
ServedWithDatanodes ==
    /\ safeMode = 0 /\ hpc # "count" => dncnt >= 1
    /\ mpc # "safe_mode" => safeMode = 0

RegistryInv ==
    RegistryTypes /\ EntryListed /\ CountByPlace /\ GarbageByPlace /\ ServedWithDatanodes

(* The loop fills an image that exists.                                    *)
LoopFillsAFile ==
    /\ mpc \in {"dn_id", "ip", "port"} => file_images[file_image] # Null
    /\ mpc \in {"ip", "port"} => InFile

MainInv == MainTypes /\ LoopFillsAFile /\ OneImagePerFile

IInv == RegistryInv /\ MainInv
-----------------------------------------------------------------------------
(* Sets of slots are finite and no larger than the table.                  *)
LEMMA SlotSetsAreFinite ==
    ASSUME NEW S \in SUBSET Slots
    PROVE  IsFiniteSet(S) /\ Cardinality(S) \in 0 .. MaxDatanodeNum
<1>1. IsFiniteSet(Slots) /\ Cardinality(Slots) = MaxDatanodeNum
  BY FS_Interval, LimitsAssumption DEF Slots
<1>2. IsFiniteSet(S) /\ Cardinality(S) <= Cardinality(Slots)
  BY <1>1, FS_Subset
<1>3. Cardinality(S) \in Nat
  BY <1>2, FS_CardinalityType
<1> QED  BY <1>1, <1>2, <1>3, LimitsAssumption

LEMMA HeartbeatFields ==
    ASSUME NEW h \in Heartbeats
    PROVE  /\ h.datanode_id \in Nat \ {0} /\ h.datanode_id # Garbage /\ h.datanode_id \in Ids
           /\ h.ip # Garbage /\ h.ip \in Ips
           /\ h.port # Garbage /\ h.port \in Ports
  BY HeartbeatsAssumption, MemoryAssumption DEF Ids, Ips, Ports

(* While a heartbeat is handled its slot is in the table.                  *)
LEMMA PosInTable ==
    ASSUME RegistryTypes, EntryListed, hpc # "accept"
    PROVE  Pos \in Slots
<1>1. datanode_status.datanode_id \in Nat \ {0} /\ datanode_status.datanode_id < MaxDatanodeNum
  BY HeartbeatFields DEF EntryListed
<1> QED  BY <1>1, LimitsAssumption DEF Pos, Position, Slots

LEMMA EntryIsDatanode ==
    ASSUME RegistryTypes, NEW s \in Slots
    PROVE  /\ dnlist[s] \in Datanode \cup {Null}
           /\ s \in Filled <=> dnlist[s] \in Datanode
  BY MemoryAssumption DEF RegistryTypes, Filled

(* The two kinds of field update keep an entry's shape.                    *)
LEMMA UpdatedEntry ==
    ASSUME NEW d \in Datanode, NEW h \in Heartbeats
    PROVE  /\ [d EXCEPT !.dn_id = h.datanode_id] \in Datanode
           /\ [d EXCEPT !.ip = h.ip] \in Datanode
           /\ [d EXCEPT !.port = h.port] \in Datanode
           /\ UnfilledDatanode \in Datanode
<1>1. h.datanode_id \in Ids /\ h.ip \in Ips /\ h.port \in Ports
  BY HeartbeatFields
<1> QED  BY <1>1 DEF Datanode, UnfilledDatanode
-----------------------------------------------------------------------------
(* The steps of the heartbeat thread keep RegistryInv.                     *)
LEMMA ReceiveKeepsRegistry ==
    ASSUME RegistryInv, NEW h \in Heartbeats, ReceiveHeartbeat(h)
    PROVE  RegistryInv'
<1> USE DEF RegistryInv, ReceiveHeartbeat, registry, mainVars
<1>1. RegistryTypes'
  BY DEF RegistryTypes
<1>2. EntryListed'
  BY DEF EntryListed, Filling
<1>3. Filled' = Filled
  BY DEF Filled
<1>4. CountByPlace'
  BY <1>3 DEF CountByPlace, Filling
<1>5. \A s \in Filled' : ~Unfilled(s)'
  BY <1>3 DEF GarbageByPlace, Unfilled, Filling
<1>6. GarbageByPlace'
  BY <1>5 DEF GarbageByPlace, Filling
<1>7. ServedWithDatanodes'
  BY DEF ServedWithDatanodes
<1> QED  BY <1>1, <1>2, <1>4, <1>6, <1>7

LEMMA AllocateKeepsRegistry ==
    ASSUME RegistryInv, Allocate
    PROVE  RegistryInv'
<1> USE DEF RegistryInv
<1>0. datanode_status \in Heartbeats /\ datanode_status.datanode_id < MaxDatanodeNum
  BY DEF EntryListed, Allocate
<1>1. Pos \in Slots /\ Pos' = Pos
  BY PosInTable DEF Allocate, Pos
<1>2. /\ dnlist' = [dnlist EXCEPT ![Pos] = Allocated(@)]
      /\ hpc = "allocate" /\ hpc' = "dn_id" /\ dncnt' = dncnt /\ safeMode' = safeMode
      /\ datanode_status' = datanode_status /\ count_i' = count_i /\ mpc' = mpc
  BY DEF Allocate, Pos, mainVars
<1>3. /\ dnlist'[Pos] = IF dnlist[Pos] = Null THEN UnfilledDatanode ELSE dnlist[Pos]
      /\ \A s \in Slots \ {Pos} : dnlist'[s] = dnlist[s]
  BY <1>1, <1>2 DEF RegistryTypes, Allocated
<1>4. UnfilledDatanode \in Datanode /\ UnfilledDatanode # Null
  BY MemoryAssumption DEF Datanode, UnfilledDatanode
<1>5. Filled' = Filled \cup {Pos} /\ Filled \subseteq Slots
  BY <1>1, <1>3, <1>4 DEF Filled
<1>6. RegistryTypes'
  BY <1>1, <1>2, <1>4 DEF RegistryTypes, Allocated
<1>7. EntryListed'
  BY <1>0, <1>1, <1>2, <1>3, <1>4 DEF EntryListed
<1>8. dncnt = Cardinality(Filled)
  BY <1>2 DEF CountByPlace
<1>9. dnlist[Pos] = Null => Filled' \ {Pos} = Filled
  BY <1>5 DEF Filled
<1>10. dnlist[Pos] # Null => Filled' = Filled
  BY <1>1, <1>5 DEF Filled
<1>11. CountByPlace'
  BY <1>1, <1>2, <1>8, <1>9, <1>10 DEF CountByPlace, Filling
<1>12. ASSUME NEW s \in Filled', Unfilled(s)'
       PROVE  s = Pos /\ dncnt = Cardinality(Filled' \ {Pos})
  <2>1. \A t \in Filled : ~Unfilled(t)
    BY <1>2 DEF GarbageByPlace, Filling
  <2>2. s \in Slots
    BY <1>1, <1>5
  <2>3. s = Pos
    BY <1>3, <1>5, <1>12, <2>1, <2>2 DEF Unfilled
  <2>4. dnlist[Pos] = Null
    BY <1>1, <1>3, <1>10, <1>12, <2>1, <2>3 DEF Unfilled
  <2> QED  BY <1>8, <1>9, <2>3, <2>4
<1>13. GarbageByPlace'
  BY <1>1, <1>2, <1>12 DEF GarbageByPlace, Filling
<1>14. ServedWithDatanodes'
  BY <1>2 DEF ServedWithDatanodes
<1> QED  BY <1>6, <1>7, <1>11, <1>13, <1>14

(* What the three field updates have in common: the entry stays listed and *)
(* loses garbage only.                                                     *)
LEMMA FillKeepsRegistry ==
    ASSUME RegistryInv, hpc \in Filling, hpc' \in Filling \cup {"reset"},
           NEW d \in Datanode, dnlist' = [dnlist EXCEPT ![Pos] = d],
           UNCHANGED <<dncnt, safeMode, datanode_status, count_i, mpc>>,
           Garbage \in {d.dn_id, d.ip, d.port} => Unfilled(Pos) /\ hpc' \in Filling,
           hpc' \in {"ip", "port"} => d.dn_id # Garbage,
           hpc' = "port" => d.ip # Garbage
    PROVE  RegistryInv'
<1> USE DEF RegistryInv
<1>1. Pos \in Slots /\ Pos' = Pos
  BY PosInTable DEF Filling, Pos
<1>2. dnlist'[Pos] = d /\ \A s \in Slots \ {Pos} : dnlist'[s] = dnlist[s]
  BY <1>1 DEF RegistryTypes
<1>3. d # Null /\ dnlist[Pos] # Null
  BY MemoryAssumption DEF EntryListed
<1>4. Filled' = Filled /\ Filled \subseteq Slots
  BY <1>1, <1>2, <1>3 DEF Filled
<1>5. RegistryTypes'
  BY <1>1 DEF RegistryTypes, Filling
<1>6. EntryListed'
  BY <1>1, <1>2, <1>3 DEF EntryListed, Filling
<1>7. CountByPlace'
  BY <1>1, <1>4 DEF CountByPlace, Filling
<1>8. ASSUME NEW s \in Filled', Unfilled(s)'
      PROVE  s = Pos /\ hpc' \in Filling /\ dncnt = Cardinality(Filled' \ {Pos})
  <2>1. CASE s = Pos
    <3>1. Garbage \in {d.dn_id, d.ip, d.port}
      BY <1>2, <1>8, <2>1 DEF Unfilled
    <3> QED  BY <3>1, <1>3, <1>4, <1>8, <2>1 DEF GarbageByPlace
  <2>2. CASE s # Pos
    <3>1. s \in Slots /\ dnlist'[s] = dnlist[s]
      BY <1>2, <1>4, <1>8, <2>2
    <3>2. Unfilled(s)
      BY <3>1, <1>8 DEF Unfilled
    <3> QED  BY <3>2, <1>4, <1>8, <2>2 DEF GarbageByPlace
  <2> QED  BY <2>1, <2>2
<1>9. GarbageByPlace'
  BY <1>1, <1>2, <1>8 DEF GarbageByPlace
<1>10. ServedWithDatanodes'
  BY DEF ServedWithDatanodes, Filling
<1> QED  BY <1>5, <1>6, <1>7, <1>9, <1>10

LEMMA FillStepsKeepRegistry ==
    ASSUME RegistryInv, FillId \/ FillIp \/ FillPort
    PROVE  RegistryInv'
<1> DEFINE h == datanode_status
           e == dnlist[Pos]
<1>1. hpc \in Filling
  BY DEF FillId, FillIp, FillPort, Filling
<1>2. h \in Heartbeats /\ Pos \in Slots /\ e \in Datanode
  <2>1. Pos \in Slots /\ h \in Heartbeats /\ e # Null
    BY <1>1, PosInTable DEF RegistryInv, EntryListed, Filling
  <2> QED  BY <2>1, EntryIsDatanode DEF RegistryInv
<1>3. e = [dn_id |-> e.dn_id, ip |-> e.ip, port |-> e.port]
  BY <1>2 DEF Datanode
<1>4. UNCHANGED <<dncnt, safeMode, datanode_status, count_i, mpc>>
  BY DEF FillId, FillIp, FillPort, mainVars
<1>5. /\ h.datanode_id # Garbage /\ h.ip # Garbage /\ h.port # Garbage
      /\ [e EXCEPT !.dn_id = h.datanode_id] \in Datanode
      /\ [e EXCEPT !.ip = h.ip] \in Datanode
      /\ [e EXCEPT !.port = h.port] \in Datanode
  BY <1>2, HeartbeatFields, UpdatedEntry
<1>6. CASE FillId
  <2> DEFINE d == [e EXCEPT !.dn_id = h.datanode_id]
  <2>1. d.dn_id = h.datanode_id /\ d.ip = e.ip /\ d.port = e.port
    BY <1>3
  <2>2. dnlist' = [dnlist EXCEPT ![Pos] = d] /\ hpc' = "ip"
    BY <1>6 DEF FillId, Pos
  <2>3. Garbage \in {d.dn_id, d.ip, d.port} => Unfilled(Pos)
    BY <2>1, <1>5 DEF Unfilled
  <2>4. d.dn_id # Garbage /\ d \in Datanode
    BY <2>1, <1>5
  <2> HIDE DEF d
  <2> QED  BY <1>1, <1>4, <2>2, <2>3, <2>4, FillKeepsRegistry DEF Filling
<1>7. CASE FillIp
  <2> DEFINE d == [e EXCEPT !.ip = h.ip]
  <2>1. d.dn_id = e.dn_id /\ d.ip = h.ip /\ d.port = e.port
    BY <1>3
  <2>2. dnlist' = [dnlist EXCEPT ![Pos] = d] /\ hpc = "ip" /\ hpc' = "port"
    BY <1>7 DEF FillIp, Pos
  <2>3. Garbage \in {d.dn_id, d.ip, d.port} => Unfilled(Pos)
    BY <2>1, <1>5 DEF Unfilled
  <2>4. d.dn_id # Garbage /\ d.ip # Garbage /\ d \in Datanode
    BY <2>1, <2>2, <1>5 DEF RegistryInv, GarbageByPlace
  <2> HIDE DEF d
  <2> QED  BY <1>1, <1>4, <2>2, <2>3, <2>4, FillKeepsRegistry DEF Filling
<1>8. CASE FillPort
  <2> DEFINE d == [e EXCEPT !.port = h.port]
  <2>1. d.dn_id = e.dn_id /\ d.ip = e.ip /\ d.port = h.port
    BY <1>3
  <2>2. dnlist' = [dnlist EXCEPT ![Pos] = d] /\ hpc = "port" /\ hpc' = "reset"
    BY <1>8 DEF FillPort, Pos
  <2>3. Garbage \notin {d.dn_id, d.ip, d.port} /\ d \in Datanode
    BY <2>1, <2>2, <1>5 DEF RegistryInv, GarbageByPlace
  <2> HIDE DEF d
  <2> QED  BY <1>1, <1>4, <2>2, <2>3, FillKeepsRegistry DEF Filling
<1> QED  BY <1>6, <1>7, <1>8

LEMMA ResetKeepsRegistry ==
    ASSUME RegistryInv, ResetCount
    PROVE  RegistryInv'
<1> USE DEF RegistryInv, ResetCount, mainVars
<1>1. /\ dnlist' = dnlist /\ datanode_status' = datanode_status /\ Filled' = Filled
      /\ dncnt' = 0 /\ count_i' = 0 /\ hpc' = "count" /\ hpc = "reset"
      /\ safeMode' = safeMode /\ mpc' = mpc
  BY DEF Filled, CountFrom
<1>2. Passed' = {}
  BY <1>1 DEF Passed, Filled, Slots
<1>3. CountByPlace'
  BY <1>1, <1>2, FS_EmptySet DEF CountByPlace, Filling
<1>4. RegistryTypes'
  BY <1>1, LimitsAssumption DEF RegistryTypes
<1>5. EntryListed'
  BY <1>1 DEF EntryListed, Filling, Pos
<1>6. \A s \in Filled' : ~Unfilled(s)'
  BY <1>1 DEF GarbageByPlace, Unfilled, Filling
<1>7. GarbageByPlace'
  BY <1>1, <1>6 DEF GarbageByPlace
<1>8. ServedWithDatanodes'
  BY <1>1 DEF ServedWithDatanodes
<1> QED  BY <1>3, <1>4, <1>5, <1>7, <1>8

(* The recount and the end of a heartbeat leave the table alone.           *)
LEMMA TableStaysClean ==
    ASSUME RegistryInv, hpc = "count", hpc' \in {"count", "accept"},
           UNCHANGED <<dnlist, datanode_status>>
    PROVE  EntryListed' /\ GarbageByPlace'
<1> USE DEF RegistryInv
<1>1. Filled' = Filled
  BY DEF Filled
<1>2. EntryListed'
  BY DEF EntryListed, Pos, Filling
<1>3. \A s \in Filled' : ~Unfilled(s)'
  BY <1>1 DEF GarbageByPlace, Unfilled, Filling
<1> QED  BY <1>2, <1>3 DEF GarbageByPlace

LEMMA CountSlotKeepsRegistry ==
    ASSUME RegistryInv, CountSlot
    PROVE  RegistryInv'
<1> USE DEF RegistryInv
<1>1. /\ dnlist' = dnlist /\ datanode_status' = datanode_status /\ Filled' = Filled
      /\ hpc = "count" /\ hpc' = "count" /\ safeMode' = safeMode /\ mpc' = mpc
      /\ count_i \in Slots /\ count_i' = count_i + 1 /\ dncnt' = dncnt + Counts(count_i)
  BY DEF CountSlot, mainVars, Filled
<1>2. dncnt = Cardinality(Passed) /\ Passed \in SUBSET Slots /\ count_i \notin Passed
  BY <1>1 DEF CountByPlace, Passed, Filled, Slots
<1>3. IsFiniteSet(Passed)
  BY <1>2, SlotSetsAreFinite
<1>4. dncnt' = Cardinality(Passed')
  <2>1. CASE dnlist[count_i] = Null
    <3>1. Passed' = Passed
      BY <1>1, <2>1 DEF Passed, Filled, Slots
    <3>2. dncnt' = dncnt
      BY <1>1, <2>1 DEF Counts, RegistryTypes
    <3> QED  BY <3>1, <3>2, <1>2
  <2>2. CASE dnlist[count_i] # Null
    <3>1. Passed' = Passed \cup {count_i}
      BY <1>1, <2>2 DEF Passed, Filled, Slots
    <3>2. dncnt' = dncnt + 1
      BY <1>1, <2>2 DEF Counts
    <3> QED  BY <3>1, <3>2, <1>2, <1>3, FS_AddElement
  <2> QED  BY <2>1, <2>2
<1>5. dncnt' \in 0 .. MaxDatanodeNum
  <2>1. Passed' \in SUBSET Slots
    BY DEF Passed, Filled
  <2> QED  BY <2>1, <1>1, <1>4, SlotSetsAreFinite
<1>6. RegistryTypes'
  BY <1>1, <1>5, LimitsAssumption DEF RegistryTypes, Slots
<1>7. EntryListed' /\ GarbageByPlace'
  BY <1>1, TableStaysClean
<1>8. CountByPlace'
  BY <1>1, <1>4 DEF CountByPlace, Filling
<1>9. ServedWithDatanodes'
  BY <1>1 DEF ServedWithDatanodes
<1> QED  BY <1>6, <1>7, <1>8, <1>9

LEMMA EndKeepsRegistry ==
    ASSUME RegistryInv, EndHeartbeat
    PROVE  RegistryInv'
<1> USE DEF RegistryInv
<1>1. /\ dnlist' = dnlist /\ datanode_status' = datanode_status /\ Filled' = Filled
      /\ hpc = "count" /\ hpc' = "accept" /\ safeMode' = 0 /\ mpc' = mpc
      /\ dncnt' = dncnt /\ count_i' = count_i /\ count_i = MaxDatanodeNum
  BY DEF EndHeartbeat, SafeModeAfter, mainVars, Filled
<1>2. Passed = Filled /\ Filled \in SUBSET Slots
  BY <1>1, LimitsAssumption DEF Passed, Filled, Slots
<1>3. dncnt = Cardinality(Filled)
  BY <1>1, <1>2 DEF CountByPlace
<1>4. Cardinality(Filled) >= 1
  <2>1. Pos \in Filled
    BY <1>1, PosInTable DEF EntryListed, Filled
  <2>2. Cardinality(Filled) # 0 /\ Cardinality(Filled) \in Nat
    BY <2>1, <1>2, SlotSetsAreFinite, FS_EmptySet
  <2> QED  BY <2>2
<1>5. RegistryTypes'
  BY <1>1 DEF RegistryTypes
<1>6. EntryListed' /\ GarbageByPlace'
  BY <1>1, TableStaysClean
<1>7. CountByPlace'
  BY <1>1, <1>3 DEF CountByPlace, Filling
<1>8. ServedWithDatanodes'
  BY <1>1, <1>3, <1>4 DEF ServedWithDatanodes
<1> QED  BY <1>5, <1>6, <1>7, <1>8

(* Every step keeps RegistryInv: the main thread changes none of it, and it *)
(* leaves safe mode when safeMode is 0 only.                               *)
LEMMA MainLeavesRegistry ==
    ASSUME RegistryInv, MainStep \/ \E r \in Requests : Accept(r)
    PROVE  UNCHANGED <<registry, heartbeatVars>> /\ (mpc' # "safe_mode" => safeMode = 0)
<1>1. UNCHANGED <<registry, heartbeatVars>>
  BY DEF MainStep, LeaveSafeMode, AssignId, AssignIp, AssignPort, AnswerAssignment,
         ListDatanode, AnswerList, Crash, Accept
<1>2. mpc = "safe_mode" => safeMode = 0
  BY DEF MainStep, LeaveSafeMode, AssignId, AssignIp, AssignPort, AnswerAssignment,
         ListDatanode, AnswerList, Crash, Accept
<1> QED  BY <1>1, <1>2 DEF RegistryInv, ServedWithDatanodes

LEMMA MainKeepsRegistry ==
    ASSUME RegistryInv, UNCHANGED <<registry, heartbeatVars>>,
           mpc' # "safe_mode" => safeMode = 0
    PROVE  RegistryInv'
<1> USE DEF RegistryInv, registry, heartbeatVars
<1>1. Filled' = Filled /\ Passed' = Passed /\ Pos' = Pos
  BY DEF Filled, Passed, Pos
<1>2. RegistryTypes' /\ EntryListed'
  BY <1>1 DEF RegistryTypes, EntryListed
<1>3. CountByPlace'
  BY <1>1 DEF CountByPlace
<1>4. GarbageByPlace'
  BY <1>1 DEF GarbageByPlace, Unfilled
<1>5. ServedWithDatanodes'
  BY DEF ServedWithDatanodes
<1> QED  BY <1>2, <1>3, <1>4, <1>5

LEMMA RegistryStep ==
    ASSUME RegistryInv, [Next]_vars
    PROVE  RegistryInv'
<1>1. CASE \E h \in Heartbeats : ReceiveHeartbeat(h)
  BY <1>1, ReceiveKeepsRegistry
<1>2. CASE HeartbeatStep
  BY <1>2, AllocateKeepsRegistry, FillStepsKeepRegistry, ResetKeepsRegistry,
     CountSlotKeepsRegistry, EndKeepsRegistry DEF HeartbeatStep
<1>3. CASE MainStep \/ \E r \in Requests : Accept(r)
  BY <1>3, MainLeavesRegistry, MainKeepsRegistry
<1>4. CASE UNCHANGED vars
  <2>1. UNCHANGED <<registry, heartbeatVars>> /\ mpc' = mpc
    BY <1>4 DEF vars, mainVars
  <2>2. mpc' # "safe_mode" => safeMode = 0
    BY <2>1 DEF RegistryInv, ServedWithDatanodes
  <2> QED  BY <2>1, <2>2, MainKeepsRegistry
<1> QED  BY <1>1, <1>2, <1>3, <1>4 DEF Next

LEMMA RegistryInit ==
    ASSUME Init
    PROVE  RegistryInv
<1>1. /\ dnlist = [s \in Slots |-> Null] /\ dncnt = 0 /\ safeMode = 1
      /\ hpc = "accept" /\ datanode_status = Null /\ count_i = 0 /\ mpc = "safe_mode"
  BY DEF Init
<1>2. Filled = {}
  BY <1>1 DEF Filled
<1>3. RegistryTypes
  <2>1. dnlist \in [Slots -> Datanode \cup {Null}]
    BY <1>1
  <2> QED  BY <2>1, <1>1, LimitsAssumption DEF RegistryTypes
<1>4. EntryListed
  BY <1>1 DEF EntryListed, Filling
<1>5. GarbageByPlace
  <2>1. \A s \in Filled : FALSE
    BY <1>2
  <2> QED  BY <2>1, <1>1 DEF GarbageByPlace
<1>6. ServedWithDatanodes
  BY <1>1 DEF ServedWithDatanodes
<1>7. CountByPlace
  BY <1>1, <1>2, FS_EmptySet DEF CountByPlace, Filling
<1> QED  BY <1>3, <1>4, <1>5, <1>6, <1>7 DEF RegistryInv

LEMMA RegistryInvariant == Spec => []RegistryInv
  BY RegistryInit, RegistryStep, PTL DEF Spec
-----------------------------------------------------------------------------
(* The search for an image finds one when there is one.                    *)
LEMMA FirstImageIsFirst ==
    ASSUME NEW S \in SUBSET Images
    PROVE  /\ S = {} => FirstImage(S) = -1
           /\ S # {} => FirstImage(S) \in S
<1>1. CASE S = {}
  BY <1>1 DEF FirstImage
<1>2. CASE S # {}
  <2>1. S \subseteq Nat
    BY LimitsAssumption DEF Images
  <2> DEFINE UpTo(x) == 0 .. x
             initial == {UpTo(x) : x \in S}
             R == StrictSubsetOrdering(Nat)
  <2>2. initial \subseteq FiniteSubsetsOf(Nat) /\ initial # {}
    <3>1. \A x \in S : IsFiniteSet(UpTo(x)) /\ UpTo(x) \subseteq Nat
      BY <2>1, FS_Interval
    <3> QED  BY <3>1, <1>2 DEF FiniteSubsetsOf
  <2>3. IsWellFoundedOn(R, FiniteSubsetsOf(Nat))
    BY FS_StrictSubsetOrderingWellFounded
  <2>4. \E T \in initial : \A U \in initial : ~(<<U, T>> \in R)
    <3> HIDE DEF R, initial
    <3> QED  BY <2>2, <2>3, WFMin
  <2>5. PICK x \in S : \A y \in S : ~(<<UpTo(y), UpTo(x)>> \in R)
    BY <2>4
  <2>6. ASSUME NEW y \in S  PROVE x <= y
    <3>1. x \in Nat /\ y \in Nat
      BY <2>1
    <3>2. SUFFICES ASSUME y < x  PROVE FALSE
      BY <3>1
    <3>3. UpTo(y) \subseteq UpTo(x) /\ UpTo(y) # UpTo(x) /\ UpTo(x) \subseteq Nat
      <4>1. x \in UpTo(x) /\ x \notin UpTo(y)
        BY <3>1, <3>2
      <4> QED  BY <3>1, <3>2, <4>1
    <3> QED  BY <3>3, <2>5 DEF StrictSubsetOrdering
  <2> QED  BY <1>2, <2>6 DEF FirstImage
<1> QED  BY <1>1, <1>2

(* A file of a size that fits has at most MAX_FILE_BLK_COUNT blocks.       *)
LEMMA BlockCountFits ==
    ASSUME NEW n \in 0 .. MaxFileBlkCount * DfsBlockSize
    PROVE  BlockCount(n) \in 0 .. MaxFileBlkCount
<1> DEFINE D == DfsBlockSize
           a == n + (D - 1)
           q == a \div D
<1>1. D \in Nat \ {0} /\ MaxFileBlkCount \in Nat \ {0} /\ a \in Nat
  BY LimitsAssumption
<1>2. q \in Int /\ D * q <= a /\ a < D * q + D
  BY <1>1
<1>3. q >= 0
  BY <1>1, <1>2
<1>4. a < D * (MaxFileBlkCount + 1)
  BY <1>1
<1>5. q < MaxFileBlkCount + 1
  BY <1>1, <1>2, <1>4
<1> QED  BY <1>1, <1>2, <1>3, <1>5 DEF BlockCount

(* The shape of images and requests.                                       *)
LEMMA ResizedImage ==
    ASSUME NEW d \in Image, NEW n \in 0 .. MaxFileBlkCount, NEW m \in Sizes
    PROVE  /\ [d EXCEPT !.blocknum = n, !.file_size = m] \in Image
           /\ [d EXCEPT !.blocknum = n, !.file_size = m].filename = d.filename
<1> DEFINE Lists == [BlockIndices -> Block]
<1>1. Image = [filename : Names, file_size : Sizes, blocknum : 0 .. MaxFileBlkCount,
               block_list : Lists]
  BY DEF Image
<1> HIDE DEF Lists
<1> QED  BY <1>1

LEMMA ImageUpdates ==
    ASSUME NEW d \in Image, NEW n \in 0 .. MaxFileBlkCount
    PROVE  /\ d.filename \in Names /\ d.file_size \in Sizes /\ d.blocknum \in 0 .. MaxFileBlkCount
           /\ d # Null
           /\ [d EXCEPT !.blocknum = n] \in Image
           /\ [d EXCEPT !.blocknum = n].filename = d.filename
           /\ \A m \in Sizes : /\ [d EXCEPT !.blocknum = n, !.file_size = m] \in Image
                               /\ [d EXCEPT !.blocknum = n, !.file_size = m].filename = d.filename
           /\ \A i \in BlockIndices, b \in Block :
                  LET e == [d EXCEPT !.block_list = [@ EXCEPT ![i] = b]]
                  IN  e \in Image /\ e.filename = d.filename /\ e.blocknum = d.blocknum
<1>1. d # Null
  BY MemoryAssumption
<1> DEFINE Lists == [BlockIndices -> Block]
<1>2. Image = [filename : Names, file_size : Sizes, blocknum : 0 .. MaxFileBlkCount,
               block_list : Lists]
  BY DEF Image
<1>3. \A f \in Lists, i \in BlockIndices, b \in Block : [f EXCEPT ![i] = b] \in Lists
  OBVIOUS
<1> HIDE DEF Lists
<1>4. d.filename \in Names /\ d.file_size \in Sizes /\ d.blocknum \in 0 .. MaxFileBlkCount
      /\ d.block_list \in Lists
  BY <1>2
<1>5. [d EXCEPT !.blocknum = n] \in Image /\ [d EXCEPT !.blocknum = n].filename = d.filename
  BY <1>2
<1>6. ASSUME NEW m \in Sizes
      PROVE  /\ [d EXCEPT !.blocknum = n, !.file_size = m] \in Image
             /\ [d EXCEPT !.blocknum = n, !.file_size = m].filename = d.filename
  BY <1>2
<1>7. ASSUME NEW i \in BlockIndices, NEW b \in Block
      PROVE  LET e == [d EXCEPT !.block_list = [@ EXCEPT ![i] = b]]
             IN  e \in Image /\ e.filename = d.filename /\ e.blocknum = d.blocknum
  <2>1. [d.block_list EXCEPT ![i] = b] \in Lists
    BY <1>3, <1>4
  <2> QED  BY <2>1, <1>2
<1> QED  BY <1>1, <1>4, <1>5, <1>6, <1>7

LEMMA NewFileIsImage ==
    ASSUME NEW r \in Requests
    PROVE  NewFile(r) \in Image /\ NewFile(r).filename = r.file_name /\ NewFile(r).blocknum = 0
<1> DEFINE zeros == [i \in BlockIndices |-> ZeroBlock]
<1>1. zeros \in [BlockIndices -> Block]
  <2>1. 0 \in BlockNumbers
    BY LimitsAssumption DEF BlockNumbers
  <2>2. ZeroBlock \in Block
    BY <2>1 DEF ZeroBlock, Block
  <2> QED  BY <2>2
<1>2. r.file_name \in Names /\ r.file_size \in Sizes /\ 0 \in 0 .. MaxFileBlkCount
  BY LimitsAssumption DEF Names, Sizes
<1> QED  BY <1>1, <1>2 DEF NewFile, Image

LEMMA ImageOfFile ==
    ASSUME MainTypes, NEW name
    PROVE  LET x == ImageOf(name)
           IN  IF x = -1
               THEN \A y \in Images : file_images[y] # Null => file_images[y].filename # name
               ELSE x \in Images /\ file_images[x] \in Image /\ file_images[x].filename = name
<1> DEFINE S == {x \in Images : file_images[x] # Null /\ file_images[x].filename = name}
<1>1. S \in SUBSET Images /\ -1 \notin Images
  BY LimitsAssumption DEF Images
<1>2. ImageOf(name) = FirstImage(S)
  BY DEF ImageOf
<1> HIDE DEF S
<1>3. IF FirstImage(S) = -1 THEN S = {} ELSE FirstImage(S) \in S
  BY <1>1, FirstImageIsFirst
<1> QED  BY <1>2, <1>3 DEF S, MainTypes

LEMMA FreeImageIsFree ==
    ASSUME MainTypes, FreeImage # -1
    PROVE  FreeImage \in Images /\ file_images[FreeImage] = Null
<1> DEFINE S == {x \in Images : file_images[x] = Null}
<1>1. S \in SUBSET Images
  OBVIOUS
<1>2. FreeImage = FirstImage(S)
  BY DEF FreeImage
<1> HIDE DEF S
<1>3. FreeImage \in S
  BY <1>1, <1>2, FirstImageIsFirst
<1> QED  BY <1>3 DEF S

(* An update of one image keeps the images apart when it keeps the file's   *)
(* name, or gives one that no image has.                                   *)
LEMMA ImageUpdateKeepsApart ==
    ASSUME MainTypes, OneImagePerFile, NEW x \in Images, NEW d \in Image,
           file_images' = [file_images EXCEPT ![x] = d],
           \/ file_images[x] # Null /\ file_images[x].filename = d.filename
           \/ \A y \in Images : file_images[y] # Null => file_images[y].filename # d.filename
    PROVE  /\ file_images' \in [Images -> Image \cup {Null}] /\ OneImagePerFile'
           /\ file_images'[x] = d /\ d # Null
<1>1. d # Null
  BY MemoryAssumption
<1>2. file_images' \in [Images -> Image \cup {Null}]
  BY DEF MainTypes
<1>3. file_images'[x] = d /\ \A y \in Images \ {x} : file_images'[y] = file_images[y]
  BY DEF MainTypes
<1>4. \A y \in Images : y # x /\ file_images[y] # Null => file_images[y].filename # d.filename
  BY DEF OneImagePerFile
<1>5. OneImagePerFile'
  BY <1>1, <1>3, <1>4 DEF OneImagePerFile
<1> QED  BY <1>1, <1>2, <1>3, <1>5

-----------------------------------------------------------------------------
(* The steps of the main thread keep MainInv.                              *)
LEMMA RequestFits ==
    ASSUME NEW r \in Requests
    PROVE  /\ r.req_type \in {"read", "write", "query", "modify"}
           /\ r.file_name \in Names /\ r.file_size \in Sizes
           /\ BlockCount(r.file_size) \in 0 .. MaxFileBlkCount
<1>1. r.file_size \in 0 .. MaxFileBlkCount * DfsBlockSize
  BY RequestsAssumption
<1>2. BlockCount(r.file_size) \in 0 .. MaxFileBlkCount
  BY <1>1, BlockCountFits
<1> QED  BY <1>2, RequestsAssumption DEF Names, Sizes

(* An answer that leaves the images and the loop alone.                    *)
LEMMA AnswerKeepsMain ==
    ASSUME MainInv, mpc' = "accept", request' \in Requests \cup {Null},
           UNCHANGED <<file_images, loopVars>>
    PROVE  MainInv'
<1> USE DEF MainInv, loopVars
<1>1. MainTypes'
  BY DEF MainTypes
<1>2. LoopFillsAFile'
  BY DEF LoopFillsAFile
<1>3. OneImagePerFile'
  BY DEF OneImagePerFile
<1> QED  BY <1>1, <1>2, <1>3

(* The start of a loop over an image that was just written.                *)
LEMMA AssignKeepsMain ==
    ASSUME MainInv, request' \in Requests \cup {Null}, NEW x \in Images, NEW d \in Image,
           NEW n \in 0 .. MaxFileBlkCount, NEW b \in 0 .. MaxFileBlkCount,
           file_images' = [file_images EXCEPT ![x] = d], Assign(x, n, b),
           \/ file_images[x] # Null /\ file_images[x].filename = d.filename
           \/ \A y \in Images : file_images[y] # Null => file_images[y].filename # d.filename
    PROVE  MainInv'
<1>1. /\ file_images' \in [Images -> Image \cup {Null}] /\ OneImagePerFile'
      /\ file_images'[x] = d /\ d # Null
  BY ImageUpdateKeepsApart DEF MainInv
<1>2. /\ mpc' = "dn_id" /\ file_image' = x /\ next' = n /\ first_id' = b
      /\ block_data' = ZeroBlock
  BY DEF Assign
<1>3. ZeroBlock \in Block
  <2>1. 0 \in BlockNumbers
    BY LimitsAssumption DEF BlockNumbers
  <2> QED  BY <2>1 DEF ZeroBlock, Block
<1>4. n \in 0 .. MaxDatanodeNum + MaxFileBlkCount
  BY LimitsAssumption
<1>5. MainTypes'
  BY <1>1, <1>2, <1>3, <1>4 DEF MainTypes
<1>6. LoopFillsAFile'
  BY <1>1, <1>2 DEF LoopFillsAFile
<1> QED  BY <1>1, <1>5, <1>6 DEF MainInv

LEMMA WriteKeepsMain ==
    ASSUME MainInv, NEW r \in Requests, request' = r, get_file_receivers(r)
    PROVE  MainInv'
<1> DEFINE found == ImageOf(r.file_name)
           x == IF found # -1 THEN found ELSE FreeImage
           image == IF found # -1 THEN file_images[found] ELSE NewFile(r)
           d == [image EXCEPT !.blocknum = BlockCount(r.file_size)]
<1>1. IF found = -1
      THEN \A y \in Images : file_images[y] # Null => file_images[y].filename # r.file_name
      ELSE /\ found \in Images /\ file_images[found] \in Image
           /\ file_images[found].filename = r.file_name
  BY ImageOfFile DEF MainInv
<1>2. image \in Image /\ image.filename = r.file_name
  BY <1>1, NewFileIsImage
<1>3. image.blocknum \in 0 .. MaxFileBlkCount /\ d \in Image /\ d.filename = r.file_name
  <2> HIDE DEF image
  <2> QED  BY <1>2, RequestFits, ImageUpdates
<1>4. CASE x = -1
  <2>1. Answer(Closed) /\ UNCHANGED <<file_images, loopVars>>
    BY <1>4 DEF get_file_receivers
  <2> QED  BY <2>1, AnswerKeepsMain DEF Answer
<1>5. CASE x # -1
  <2>1. file_images' = [file_images EXCEPT ![x] = d] /\ Assign(x, 0, image.blocknum)
    BY <1>5 DEF get_file_receivers
  <2>2. x \in Images
    BY <1>1, <1>5, FreeImageIsFree DEF MainInv
  <2>3. \/ file_images[x] # Null /\ file_images[x].filename = d.filename
        \/ \A y \in Images : file_images[y] # Null => file_images[y].filename # d.filename
    <3>1. file_images[found] \in Image => file_images[found] # Null
      BY MemoryAssumption
    <3> HIDE DEF d
    <3> QED  BY <1>1, <1>3, <3>1
  <2>4. 0 \in 0 .. MaxFileBlkCount
    BY LimitsAssumption
  <2> HIDE DEF x, d, image
  <2> QED  BY <1>3, <2>1, <2>2, <2>3, <2>4, AssignKeepsMain
<1> QED  BY <1>4, <1>5

LEMMA ModifyKeepsMain ==
    ASSUME MainInv, NEW r \in Requests, request' = r, get_file_update_point(r)
    PROVE  MainInv'
<1> DEFINE x == ImageOf(r.file_name)
           image == file_images[x]
           d == [image EXCEPT !.blocknum = BlockCount(r.file_size), !.file_size = r.file_size]
<1>1. x # -1 => x \in Images /\ image \in Image
  BY ImageOfFile DEF MainInv
<1>2. CASE UNCHANGED <<file_images, loopVars>> /\ mpc' = "accept"
  BY <1>2, AnswerKeepsMain
<1>3. CASE x # -1 /\ mpc' # "accept"
  <2>1. /\ file_images' = [file_images EXCEPT ![x] =
               [@ EXCEPT !.blocknum = BlockCount(r.file_size), !.file_size = r.file_size]]
        /\ Assign(x, image.blocknum, 0)
    BY <1>3 DEF get_file_update_point, Answer, UpdateFrom
  <2>2. file_images' = [file_images EXCEPT ![x] = d]
    BY <2>1
  <2>3. d \in Image /\ d.filename = image.filename /\ image # Null
        /\ image.blocknum \in 0 .. MaxFileBlkCount
    <3>1. BlockCount(r.file_size) \in 0 .. MaxFileBlkCount /\ r.file_size \in Sizes
      BY RequestFits
    <3>2. image \in Image
      BY <1>1, <1>3
    <3> HIDE DEF image
    <3> DEFINE k == BlockCount(r.file_size)
               m == r.file_size
    <3>3. d \in Image /\ d.filename = image.filename
      <4> HIDE DEF k, m
      <4>1. /\ [image EXCEPT !.blocknum = k, !.file_size = m] \in Image
            /\ [image EXCEPT !.blocknum = k, !.file_size = m].filename = image.filename
        BY <3>1, <3>2, ResizedImage DEF k, m
      <4> QED  BY <4>1 DEF k, m
    <3>4. image # Null /\ image.blocknum \in 0 .. MaxFileBlkCount
      BY <3>1, <3>2, ImageUpdates
    <3> QED  BY <3>3, <3>4
  <2>4. 0 \in 0 .. MaxFileBlkCount
    BY LimitsAssumption
  <2>5. x \in Images
    BY <1>1, <1>3
  <2>6. file_images[x] # Null /\ file_images[x].filename = d.filename
    BY <2>3
  <2> HIDE DEF x, d
  <2> QED  BY <2>1, <2>2, <2>3, <2>4, <2>5, <2>6, AssignKeepsMain
<1> QED
  <2>1. \/ UNCHANGED <<file_images, loopVars>> /\ mpc' = "accept"
        \/ x # -1 /\ mpc' # "accept"
    BY DEF get_file_update_point, Answer, Assign
  <2> QED  BY <2>1, <1>2, <1>3

LEMMA AcceptKeepsMain ==
    ASSUME MainInv, NEW r \in Requests, Accept(r)
    PROVE  MainInv'
<1>1. request' = r
  BY DEF Accept
<1>2. CASE r.req_type = "read"
  <2>1. get_file_location(r)
    BY <1>2 DEF Accept
  <2> QED  BY <1>1, <2>1, AnswerKeepsMain DEF get_file_location, Answer
<1>3. CASE r.req_type = "write"
  <2>1. get_file_receivers(r)
    BY <1>3 DEF Accept
  <2> QED  BY <1>1, <2>1, WriteKeepsMain
<1>4. CASE r.req_type = "modify"
  <2>1. get_file_update_point(r)
    BY <1>4 DEF Accept
  <2> QED  BY <1>1, <2>1, ModifyKeepsMain
<1>5. CASE r.req_type = "query"
  <2>1. get_system_information
    BY <1>5 DEF Accept
  <2>2. /\ mpc' = "list" /\ next' = 0
        /\ UNCHANGED <<file_images, file_image, first_id, block_data>>
    BY <2>1 DEF get_system_information
  <2>3. 0 \in 0 .. MaxDatanodeNum + MaxFileBlkCount
    BY LimitsAssumption
  <2>4. MainTypes'
    BY <1>1, <2>2, <2>3 DEF MainInv, MainTypes
  <2>5. LoopFillsAFile'
    BY <2>2 DEF LoopFillsAFile
  <2>6. OneImagePerFile'
    BY <2>2 DEF MainInv, OneImagePerFile
  <2> QED  BY <2>4, <2>5, <2>6 DEF MainInv
<1> QED  BY <1>2, <1>3, <1>4, <1>5, RequestFits

(* A datanode that is read for a block is an entry of the table.           *)
LEMMA TargetInTable ==
    ASSUME RegistryTypes, MainTypes, dncnt # 0
    PROVE  Target \in Slots /\ Target < dncnt
<1>1. dncnt \in Nat /\ dncnt > 0 /\ dncnt <= MaxDatanodeNum /\ next \in Nat
  BY LimitsAssumption DEF RegistryTypes, MainTypes
<1>2. next % dncnt \in 0 .. dncnt - 1
  BY <1>1
<1>3. Target \in 0 .. dncnt - 1
  BY <1>2 DEF Target
<1> HIDE DEF Target
<1> QED  BY <1>1, <1>3, LimitsAssumption DEF Slots

LEMMA TargetIsDatanode ==
    ASSUME RegistryTypes, MainTypes, ~Traps
    PROVE  dnlist[Target] \in Datanode
<1>1. dncnt # 0 /\ dnlist[Target] # Null
  BY DEF Traps
<1> QED  BY <1>1, TargetInTable, EntryIsDatanode

(* What the loop fills in is a block.                                      *)
LEMMA BlockUpdates ==
    ASSUME NEW b \in Block, NEW e \in Datanode, NEW n \in BlockNumbers
    PROVE  /\ [ZeroBlock EXCEPT !.dn_id = e.dn_id, !.block_id = n] \in Block
           /\ [b EXCEPT !.loc_ip = e.ip] \in Block
           /\ [b EXCEPT !.loc_port = e.port] \in Block
  BY DEF Block, Datanode, ZeroBlock

(* A step of the loop that leaves the images and next alone.               *)
LEMMA FillStepKeepsMain ==
    ASSUME MainInv, mpc \in {"dn_id", "ip"}, mpc' \in {"ip", "port"}, InFile,
           block_data' \in Block, UNCHANGED <<request, file_images, file_image, next, first_id>>
    PROVE  MainInv'
<1> USE DEF MainInv
<1>1. MainTypes'
  BY DEF MainTypes
<1>2. LoopFillsAFile'
  BY DEF LoopFillsAFile, InFile
<1>3. OneImagePerFile'
  BY DEF OneImagePerFile
<1> QED  BY <1>1, <1>2, <1>3

(* In the loop the file exists and next is one of its list's indices.      *)
LEMMA LoopIndex ==
    ASSUME MainInv, mpc \in {"dn_id", "ip", "port"}, InFile
    PROVE  /\ file_image \in Images /\ file_images[file_image] \in Image
           /\ next \in BlockIndices /\ BlockId \in BlockNumbers
           /\ next + 1 \in 0 .. MaxDatanodeNum + MaxFileBlkCount
<1>1. file_image \in Images /\ file_images[file_image] \in Image
  BY DEF MainInv, MainTypes, LoopFillsAFile
<1>2. file_images[file_image].blocknum \in 0 .. MaxFileBlkCount
  BY <1>1 DEF Image
<1>3. next \in Nat /\ next < MaxFileBlkCount /\ first_id \in 0 .. MaxFileBlkCount
  BY <1>2, LimitsAssumption DEF MainInv, MainTypes, InFile
<1>4. next \in BlockIndices
  BY <1>3, LimitsAssumption DEF BlockIndices
<1>5. BlockId \in BlockNumbers
  BY <1>3, LimitsAssumption DEF BlockId, BlockNumbers
<1>6. next + 1 \in 0 .. MaxDatanodeNum + MaxFileBlkCount
  BY <1>3, LimitsAssumption
<1> QED  BY <1>1, <1>4, <1>5, <1>6

LEMMA AssignPortKeepsMain ==
    ASSUME RegistryTypes, MainInv, AssignPort
    PROVE  MainInv'
<1> DEFINE image == file_images[file_image]
           d == [image EXCEPT !.block_list = [@ EXCEPT ![next] = block_data']]
<1>1. /\ mpc = "port" /\ mpc' = "dn_id" /\ next' = next + 1
      /\ UNCHANGED <<request, file_image, first_id>> /\ ~Traps
      /\ block_data' = [block_data EXCEPT !.loc_port = dnlist[Target].port]
  BY DEF AssignPort, NextIndex
<1>2. file_images' = [file_images EXCEPT ![file_image] = d]
  <2>1. file_images' = [file_images EXCEPT ![file_image].block_list[next] = block_data']
    BY DEF AssignPort
  <2> QED  BY <2>1
<1>3. InFile
  BY <1>1 DEF MainInv, LoopFillsAFile
<1>4. /\ file_image \in Images /\ image \in Image /\ next \in BlockIndices
      /\ next + 1 \in 0 .. MaxDatanodeNum + MaxFileBlkCount /\ BlockId \in BlockNumbers
  BY <1>1, <1>3, LoopIndex
<1>5. block_data' \in Block
  <2>1. dnlist[Target] \in Datanode /\ block_data \in Block
    BY <1>1, TargetIsDatanode DEF MainInv, MainTypes
  <2>2. [block_data EXCEPT !.loc_port = dnlist[Target].port] \in Block
    BY <1>4, <2>1, BlockUpdates
  <2> QED  BY <1>1, <2>2
<1>6. d \in Image /\ d.filename = image.filename /\ image # Null
  <2>1. 0 \in 0 .. MaxFileBlkCount
    BY LimitsAssumption
  <2> HIDE DEF image
  <2> QED  BY <1>4, <1>5, <2>1, ImageUpdates
<1>7. file_images[file_image] # Null /\ file_images[file_image].filename = d.filename
  BY <1>6
<1>8. /\ file_images' \in [Images -> Image \cup {Null}] /\ OneImagePerFile'
      /\ file_images'[file_image] = d /\ d # Null
  <2> HIDE DEF d
  <2> QED  BY <1>2, <1>4, <1>6, <1>7, ImageUpdateKeepsApart DEF MainInv
<1>9. MainTypes'
  BY <1>1, <1>4, <1>5, <1>8 DEF MainInv, MainTypes
<1>10. LoopFillsAFile'
  BY <1>1, <1>8 DEF LoopFillsAFile
<1> QED  BY <1>8, <1>9, <1>10 DEF MainInv

LEMMA MainStepKeepsMain ==
    ASSUME RegistryTypes, MainInv, MainStep
    PROVE  MainInv'
<1>1. CASE AssignId
  <2>1. /\ mpc = "dn_id" /\ mpc' = "ip" /\ InFile /\ ~Traps
        /\ UNCHANGED <<request, file_images, file_image, next, first_id>>
        /\ block_data' = [ZeroBlock EXCEPT !.dn_id = dnlist[Target].dn_id, !.block_id = BlockId]
    BY <1>1 DEF AssignId
  <2>2. block_data' \in Block
    BY <2>1, LoopIndex, TargetIsDatanode, BlockUpdates DEF MainInv, MainTypes
  <2> QED  BY <2>1, <2>2, FillStepKeepsMain
<1>2. CASE AssignIp
  <2>1. /\ mpc = "ip" /\ mpc' = "port" /\ ~Traps
        /\ UNCHANGED <<request, file_images, file_image, next, first_id>>
        /\ block_data' = [block_data EXCEPT !.loc_ip = dnlist[Target].ip]
    BY <1>2 DEF AssignIp
  <2>2. InFile
    BY <2>1 DEF MainInv, LoopFillsAFile
  <2>3. block_data' \in Block
    BY <2>1, <2>2, LoopIndex, TargetIsDatanode, BlockUpdates DEF MainInv, MainTypes
  <2> QED  BY <2>1, <2>2, <2>3, FillStepKeepsMain
<1>3. CASE AssignPort
  BY <1>3, AssignPortKeepsMain
<1>4. CASE AnswerAssignment
  BY <1>4, AnswerKeepsMain DEF AnswerAssignment, Answer, MainInv, MainTypes
<1>5. CASE ListDatanode
  <2>1. /\ mpc = "list" /\ mpc' = mpc /\ next < dncnt /\ next' = next + 1
        /\ UNCHANGED <<request, file_images, file_image, first_id, block_data>>
    BY <1>5 DEF ListDatanode
  <2>2. next' \in 0 .. MaxDatanodeNum + MaxFileBlkCount
    BY <2>1, LimitsAssumption DEF RegistryTypes, MainInv, MainTypes
  <2>3. MainTypes'
    BY <2>1, <2>2 DEF MainInv, MainTypes
  <2>4. LoopFillsAFile' /\ OneImagePerFile'
    BY <2>1 DEF MainInv, LoopFillsAFile, OneImagePerFile
  <2> QED  BY <2>3, <2>4 DEF MainInv
<1>6. CASE LeaveSafeMode \/ AnswerList \/ Crash
  <2>1. /\ mpc' \in {"accept", "crashed"}
        /\ UNCHANGED <<request, file_images, file_image, next, first_id, block_data>>
    BY <1>6 DEF LeaveSafeMode, AnswerList, Crash, loopVars
  <2>2. MainTypes'
    BY <2>1 DEF MainInv, MainTypes
  <2>3. LoopFillsAFile' /\ OneImagePerFile'
    BY <2>1 DEF MainInv, LoopFillsAFile, OneImagePerFile
  <2> QED  BY <2>2, <2>3 DEF MainInv
<1> QED  BY <1>1, <1>2, <1>3, <1>4, <1>5, <1>6 DEF MainStep

LEMMA HeartbeatKeepsMain ==
    ASSUME MainInv, UNCHANGED mainVars
    PROVE  MainInv'
<1> USE DEF MainInv, mainVars, loopVars
<1>1. MainTypes'
  BY DEF MainTypes
<1>2. LoopFillsAFile'
  BY DEF LoopFillsAFile, InFile
<1>3. OneImagePerFile'
  BY DEF OneImagePerFile
<1> QED  BY <1>1, <1>2, <1>3

LEMMA MainInit ==
    ASSUME Init
    PROVE  MainInv
<1>1. /\ file_images = [x \in Images |-> Null] /\ mpc = "safe_mode" /\ request = Null
      /\ file_image = 0 /\ next = 0 /\ first_id = 0 /\ block_data = ZeroBlock
  BY DEF Init
<1>2. ZeroBlock \in Block
  <2>1. 0 \in BlockNumbers
    BY LimitsAssumption DEF BlockNumbers
  <2> QED  BY <2>1 DEF ZeroBlock, Block
<1>3. 0 \in Images /\ 0 \in 0 .. MaxFileBlkCount /\ 0 \in 0 .. MaxDatanodeNum + MaxFileBlkCount
  BY LimitsAssumption DEF Images
<1>4. MainTypes
  BY <1>1, <1>2, <1>3 DEF MainTypes
<1>5. LoopFillsAFile
  BY <1>1 DEF LoopFillsAFile
<1>6. OneImagePerFile
  BY <1>1 DEF OneImagePerFile
<1> QED  BY <1>4, <1>5, <1>6 DEF MainInv

(* Every step keeps the invariant: one of the main thread, one of the      *)
(* heartbeat thread, or a stutter.                                         *)
LEMMA InvariantIsKept ==
    ASSUME IInv, [Next]_vars
    PROVE  IInv'
<1>1. RegistryInv'
  BY RegistryStep DEF IInv
<1>2. CASE MainStep
  BY <1>1, <1>2, MainStepKeepsMain DEF IInv, RegistryInv
<1>3. CASE \E r \in Requests : Accept(r)
  BY <1>1, <1>3, AcceptKeepsMain DEF IInv
<1>4. CASE UNCHANGED mainVars
  BY <1>1, <1>4, HeartbeatKeepsMain DEF IInv
<1>5. (\E h \in Heartbeats : ReceiveHeartbeat(h)) \/ HeartbeatStep \/ UNCHANGED vars
      => UNCHANGED mainVars
  BY DEF ReceiveHeartbeat, HeartbeatStep, Allocate, FillId, FillIp, FillPort, ResetCount,
         CountSlot, EndHeartbeat, vars
<1> QED  BY <1>2, <1>3, <1>4, <1>5 DEF Next

LEMMA InvariantHolds == Spec => []IInv
<1>1. Init => IInv
  BY RegistryInit, MainInit DEF IInv
<1>2. IInv /\ [Next]_vars => IInv'
  BY InvariantIsKept
<1> QED  BY <1>1, <1>2, PTL DEF Spec
-----------------------------------------------------------------------------
(* The block lists.  A file is dealt up to index n: its blocks below n     *)
(* have a datanode and, if the first has number 0, their indices as        *)
(* numbers.                                                                *)
Dealing == {"dn_id", "ip", "port"}
Dealt(f, n) ==
    \A i \in BlockIndices : i < n /\ i < f.blocknum =>
        /\ f.block_list[i].dn_id # 0
        /\ f.block_list[0].block_id = 0 => f.block_list[i].block_id = i

(* Every file is dealt in full, but for the one the loop is at.            *)
OthersAreDealt ==
    mpc # "crashed" =>
        \A x \in Images : file_images[x] # Null /\ ~(mpc \in Dealing /\ x = file_image) =>
            Dealt(file_images[x], MaxFileBlkCount)

(* That one is dealt up to where the loop is, and a loop past a first block *)
(* with number 0 numbers from 0.                                           *)
LoopDealsInOrder ==
    mpc \in Dealing =>
        LET f == file_images[file_image]
        IN  Dealt(f, next) /\ (next > 0 /\ f.block_list[0].block_id = 0 => first_id = 0)

BlockInHand ==
    mpc \in {"ip", "port"} => block_data.dn_id # 0 /\ block_data.block_id = BlockId

DealInv == OthersAreDealt /\ LoopDealsInOrder /\ BlockInHand

LEMMA QuietKeepsDeal ==
    ASSUME DealInv, mpc \notin Dealing, mpc' \notin Dealing, mpc # "crashed",
           file_images' = file_images
    PROVE  DealInv'
BY DEF DealInv, OthersAreDealt, LoopDealsInOrder, BlockInHand, Dealing

(* A handler starts the loop at n: the file is dealt up to there.          *)
LEMMA AssignKeepsDeal ==
    ASSUME MainInv, DealInv, mpc = "accept", NEW x \in Images, NEW d,
           NEW n, NEW b,
           file_images' = [file_images EXCEPT ![x] = d], Assign(x, n, b),
           Dealt(d, n), n > 0 /\ d.block_list[0].block_id = 0 => b = 0
    PROVE  DealInv'
<1>1. /\ mpc' = "dn_id" /\ file_image' = x /\ next' = n /\ first_id' = b
  BY DEF Assign
<1>2. file_images'[x] = d /\ \A y \in Images \ {x} : file_images'[y] = file_images[y]
  BY DEF MainInv, MainTypes
<1>3. OthersAreDealt'
  BY <1>1, <1>2 DEF DealInv, OthersAreDealt, Dealing
<1>4. LoopDealsInOrder'
  BY <1>1, <1>2 DEF LoopDealsInOrder
<1>5. BlockInHand'
  BY <1>1 DEF BlockInHand
<1> QED  BY <1>3, <1>4, <1>5 DEF DealInv

LEMMA WriteKeepsDeal ==
    ASSUME MainInv, DealInv, mpc = "accept", NEW r \in Requests, get_file_receivers(r)
    PROVE  DealInv'
<1> DEFINE found == ImageOf(r.file_name)
           x == IF found # -1 THEN found ELSE FreeImage
           image == IF found # -1 THEN file_images[found] ELSE NewFile(r)
           d == [image EXCEPT !.blocknum = BlockCount(r.file_size)]
<1>1. CASE x = -1
  <2>1. Answer(Closed) /\ UNCHANGED <<file_images, loopVars>>
    BY <1>1 DEF get_file_receivers
  <2> QED  BY <2>1, QuietKeepsDeal DEF Answer, Dealing
<1>2. CASE x # -1
  <2> DEFINE b == image.blocknum
  <2>1. file_images' = [file_images EXCEPT ![x] = d] /\ Assign(x, 0, b)
    BY <1>2 DEF get_file_receivers
  <2>2. x \in Images
    BY <1>2, ImageOfFile, FreeImageIsFree DEF MainInv
  <2>3. Dealt(d, 0)
    BY LimitsAssumption DEF Dealt, BlockIndices
  <2>4. 0 > 0 /\ d.block_list[0].block_id = 0 => b = 0
    OBVIOUS
  <2> HIDE DEF x, d, b
  <2> QED  BY <1>2, <2>1, <2>2, <2>3, <2>4, AssignKeepsDeal
<1> QED  BY <1>1, <1>2

LEMMA ModifyKeepsDeal ==
    ASSUME MainInv, DealInv, mpc = "accept", NEW r \in Requests, get_file_update_point(r)
    PROVE  DealInv'
<1> DEFINE x == ImageOf(r.file_name)
           image == file_images[x]
           d == [image EXCEPT !.blocknum = BlockCount(r.file_size), !.file_size = r.file_size]
<1>1. CASE file_images' = file_images /\ mpc' = "accept"
  BY <1>1, QuietKeepsDeal DEF Dealing
<1>2. CASE x # -1 /\ mpc' # "accept"
  <2>1. /\ file_images' = [file_images EXCEPT ![x] =
               [@ EXCEPT !.blocknum = BlockCount(r.file_size), !.file_size = r.file_size]]
        /\ Assign(x, image.blocknum, 0)
    BY <1>2 DEF get_file_update_point, Answer, UpdateFrom
  <2>2. file_images' = [file_images EXCEPT ![x] = d]
    BY <2>1
  <2>3. x \in Images /\ image \in Image /\ image # Null
    BY <1>2, ImageOfFile, MemoryAssumption DEF MainInv
  <2>4. d.block_list = image.block_list /\ image.blocknum \in Nat
    <3> HIDE DEF image
    <3> QED  BY <2>3, LimitsAssumption DEF Image
  <2>5. Dealt(image, MaxFileBlkCount)
    BY <2>3 DEF DealInv, OthersAreDealt, Dealing
  <2>6. Dealt(d, image.blocknum)
    <3> HIDE DEF d, image
    <3> QED  BY <2>4, <2>5, LimitsAssumption DEF Dealt, BlockIndices
  <2> HIDE DEF x, d
  <2> QED  BY <2>1, <2>2, <2>3, <2>6, AssignKeepsDeal
<1> QED
  <2>1. (file_images' = file_images /\ mpc' = "accept") \/ (x # -1 /\ mpc' # "accept")
    BY DEF get_file_update_point, Answer, Assign
  <2> QED  BY <2>1, <1>1, <1>2

LEMMA AcceptKeepsDeal ==
    ASSUME MainInv, DealInv, NEW r \in Requests, Accept(r)
    PROVE  DealInv'
<1>1. mpc = "accept"
  BY DEF Accept
<1>2. CASE get_file_location(r) \/ get_system_information
  BY <1>1, <1>2, QuietKeepsDeal
     DEF get_file_location, get_system_information, Answer, Dealing
<1>3. CASE get_file_receivers(r)
  BY <1>1, <1>3, WriteKeepsDeal
<1>4. CASE get_file_update_point(r)
  BY <1>1, <1>4, ModifyKeepsDeal
<1> QED  BY <1>2, <1>3, <1>4, RequestFits DEF Accept

(* The loop puts its block into the list at its index.                     *)
LEMMA AssignPortKeepsDeal ==
    ASSUME RegistryTypes, MainInv, DealInv, AssignPort
    PROVE  DealInv'
<1> DEFINE f == file_images[file_image]
           d == [f EXCEPT !.block_list = [@ EXCEPT ![next] = block_data']]
<1>1. /\ mpc = "port" /\ mpc' = "dn_id" /\ next' = next + 1
      /\ file_image' = file_image /\ first_id' = first_id
      /\ block_data' = [block_data EXCEPT !.loc_port = dnlist[Target].port]
  BY DEF AssignPort, NextIndex
<1>2. InFile
  BY <1>1 DEF MainInv, LoopFillsAFile
<1>3. file_image \in Images /\ f \in Image /\ next \in BlockIndices
  BY <1>1, <1>2, LoopIndex
<1>4. block_data \in Block /\ first_id \in Nat /\ next \in Nat
  BY <1>3, LimitsAssumption DEF MainInv, MainTypes, BlockIndices
<1>5. block_data'.dn_id # 0 /\ block_data'.block_id = first_id + next
  <2>1. block_data.dn_id # 0 /\ block_data.block_id = BlockId
    BY <1>1 DEF DealInv, BlockInHand
  <2>2. block_data'.dn_id = block_data.dn_id /\ block_data'.block_id = block_data.block_id
    BY <1>1, <1>4 DEF Block
  <2> QED  BY <2>1, <2>2 DEF BlockId
<1>6. /\ file_images'[file_image] = d
      /\ \A y \in Images \ {file_image} : file_images'[y] = file_images[y]
  <2>1. file_images' = [file_images EXCEPT ![file_image] = d]
    BY DEF AssignPort
  <2> HIDE DEF d
  <2> QED  BY <1>3, <2>1 DEF MainInv, MainTypes
<1>7. /\ d.blocknum = f.blocknum /\ d.block_list[next] = block_data'
      /\ \A i \in BlockIndices \ {next} : d.block_list[i] = f.block_list[i]
  <2> HIDE DEF f
  <2> QED  BY <1>3 DEF Image
<1>8. Dealt(f, next) /\ (next > 0 /\ f.block_list[0].block_id = 0 => first_id = 0)
  BY <1>1 DEF DealInv, LoopDealsInOrder, Dealing
<1> HIDE DEF d, f
<1>9. d.block_list[0].block_id = 0 => first_id = 0
  <2>1. CASE next = 0
    BY <1>4, <1>5, <1>7, <2>1
  <2>2. CASE next # 0
    <3>1. 0 \in BlockIndices \ {next}
      BY <2>2, LimitsAssumption DEF BlockIndices
    <3> QED  BY <1>4, <1>7, <1>8, <2>2, <3>1
  <2> QED  BY <2>1, <2>2
<1>10. Dealt(d, next + 1)
  <2> SUFFICES ASSUME NEW i \in BlockIndices, i < next + 1, i < d.blocknum
               PROVE  /\ d.block_list[i].dn_id # 0
                      /\ d.block_list[0].block_id = 0 => d.block_list[i].block_id = i
    BY DEF Dealt
  <2>1. CASE i = next
    BY <1>4, <1>5, <1>7, <1>9, <2>1
  <2>2. CASE i # next
    <3>1. i < next /\ i < f.blocknum /\ next # 0 /\ d.block_list[i] = f.block_list[i]
      BY <1>4, <1>7, <2>2, LimitsAssumption DEF BlockIndices
    <3>2. d.block_list[0] = f.block_list[0]
      BY <1>7, <3>1, LimitsAssumption DEF BlockIndices
    <3> QED  BY <1>8, <3>1, <3>2 DEF Dealt
  <2> QED  BY <2>1, <2>2
<1>11. OthersAreDealt'
  BY <1>1, <1>6 DEF DealInv, OthersAreDealt, Dealing
<1>12. LoopDealsInOrder'
  BY <1>1, <1>6, <1>9, <1>10 DEF LoopDealsInOrder
<1>13. BlockInHand'
  BY <1>1 DEF BlockInHand
<1> QED  BY <1>11, <1>12, <1>13 DEF DealInv

LEMMA MainStepKeepsDeal ==
    ASSUME RegistryTypes, MainInv, DealInv, MainStep
    PROVE  DealInv'
<1>1. CASE AssignId
  <2>1. /\ mpc = "dn_id" /\ mpc' = "ip" /\ ~Traps
        /\ UNCHANGED <<file_images, file_image, next, first_id>>
        /\ block_data' = [ZeroBlock EXCEPT !.dn_id = dnlist[Target].dn_id, !.block_id = BlockId]
    BY <1>1 DEF AssignId
  <2>2. block_data'.dn_id = dnlist[Target].dn_id /\ block_data'.block_id = BlockId
    BY <2>1 DEF ZeroBlock
  <2>3. dnlist[Target].dn_id # 0
    <3>1. dnlist[Target].dn_id \in Ids \cup {Garbage}
      BY <2>1, TargetIsDatanode DEF MainInv, Datanode
    <3> QED  BY <3>1, HeartbeatsAssumption, MemoryAssumption DEF Ids
  <2>4. BlockId' = BlockId
    BY <2>1 DEF BlockId
  <2> QED  BY <2>1, <2>2, <2>3, <2>4
              DEF DealInv, OthersAreDealt, LoopDealsInOrder, BlockInHand, Dealing
<1>2. CASE AssignIp
  <2>1. /\ mpc = "ip" /\ mpc' = "port"
        /\ UNCHANGED <<file_images, file_image, next, first_id>>
        /\ block_data' = [block_data EXCEPT !.loc_ip = dnlist[Target].ip]
    BY <1>2 DEF AssignIp
  <2>2. block_data'.dn_id = block_data.dn_id /\ block_data'.block_id = block_data.block_id
    BY <2>1 DEF MainInv, MainTypes, Block
  <2>3. BlockId' = BlockId
    BY <2>1 DEF BlockId
  <2> QED  BY <2>1, <2>2, <2>3
              DEF DealInv, OthersAreDealt, LoopDealsInOrder, BlockInHand, Dealing
<1>3. CASE AssignPort
  BY <1>3, AssignPortKeepsDeal
<1>4. CASE AnswerAssignment
  <2>1. mpc = "dn_id" /\ mpc' = "accept" /\ file_images' = file_images /\ ~InFile
    BY <1>4 DEF AnswerAssignment, Answer
  <2> DEFINE f == file_images[file_image]
  <2>2. f \in Image /\ next \in Nat
    BY <2>1, LimitsAssumption DEF MainInv, MainTypes, LoopFillsAFile
  <2>3. f.blocknum \in Nat /\ f.blocknum <= next
    BY <2>1, <2>2, LimitsAssumption DEF InFile, Image
  <2>4. Dealt(f, next)
    BY <2>1 DEF DealInv, LoopDealsInOrder, Dealing
  <2>5. Dealt(f, MaxFileBlkCount)
    <3> HIDE DEF f
    <3> QED  BY <2>2, <2>3, <2>4, LimitsAssumption DEF Dealt, BlockIndices
  <2> QED  BY <2>1, <2>5
              DEF DealInv, OthersAreDealt, LoopDealsInOrder, BlockInHand, Dealing
<1>5. CASE LeaveSafeMode \/ ListDatanode \/ AnswerList
  BY <1>5, QuietKeepsDeal DEF LeaveSafeMode, ListDatanode, AnswerList, Dealing
<1>6. CASE Crash
  BY <1>6 DEF Crash, DealInv, OthersAreDealt, LoopDealsInOrder, BlockInHand, Dealing
<1> QED  BY <1>1, <1>2, <1>3, <1>4, <1>5, <1>6 DEF MainStep

LEMMA DealIsKept ==
    ASSUME IInv, DealInv, [Next]_vars
    PROVE  DealInv'
<1>1. CASE MainStep
  BY <1>1, MainStepKeepsDeal DEF IInv, RegistryInv
<1>2. CASE \E r \in Requests : Accept(r)
  BY <1>2, AcceptKeepsDeal DEF IInv
<1>3. CASE UNCHANGED mainVars
  BY <1>3 DEF mainVars, loopVars, DealInv, OthersAreDealt, LoopDealsInOrder, BlockInHand,
              BlockId
<1>4. (\E h \in Heartbeats : ReceiveHeartbeat(h)) \/ HeartbeatStep \/ UNCHANGED vars
      => UNCHANGED mainVars
  BY DEF ReceiveHeartbeat, HeartbeatStep, Allocate, FillId, FillIp, FillPort, ResetCount,
         CountSlot, EndHeartbeat, vars
<1> QED  BY <1>1, <1>2, <1>3, <1>4 DEF Next

LEMMA BlocksAreDealt == Spec => []DealInv
<1>1. Init => DealInv
  BY DEF Init, DealInv, OthersAreDealt, LoopDealsInOrder, BlockInHand, Dealing
<1>2. IInv /\ DealInv /\ [Next]_vars => DealInv'
  BY DealIsKept
<1> QED  BY <1>1, <1>2, InvariantHolds, PTL DEF Spec

(* Between two requests a block below the count is dealt.                  *)
LEMMA BlocksBetweenRequests ==
    ASSUME MainInv, DealInv, mpc = "accept", NEW x \in Images, file_images[x] # Null,
           NEW i \in 0 .. file_images[x].blocknum - 1
    PROVE  /\ file_images[x].block_list[i].dn_id # 0
           /\ file_images[x].block_list[0].block_id = 0 =>
                 file_images[x].block_list[i].block_id = i
<1> DEFINE f == file_images[x]
<1>1. f \in Image /\ Dealt(f, MaxFileBlkCount)
  BY DEF MainInv, MainTypes, DealInv, OthersAreDealt, Dealing
<1>2. f.blocknum \in 0 .. MaxFileBlkCount
  BY <1>1 DEF Image
<1>3. i \in BlockIndices /\ i < MaxFileBlkCount /\ i < f.blocknum
  BY <1>2, LimitsAssumption DEF BlockIndices
<1> HIDE DEF f
<1>4. f.block_list[i].dn_id # 0 /\ (f.block_list[0].block_id = 0 => f.block_list[i].block_id = i)
  BY <1>1, <1>3 DEF Dealt
<1> QED  BY <1>4 DEF f
-----------------------------------------------------------------------------
(* dncnt never exceeds the number of registered datanodes.                 *)
LEMMA CountIsNoMore ==
    ASSUME RegistryInv
    PROVE  dncnt <= Cardinality(Filled) /\ IsFiniteSet(Filled) /\ Filled \in SUBSET Slots
<1>1. Filled \in SUBSET Slots /\ Passed \subseteq Filled
  BY DEF Filled, Passed
<1>2. IsFiniteSet(Filled)
  BY <1>1, SlotSetsAreFinite
<1>3. /\ Cardinality(Passed) <= Cardinality(Filled)
      /\ Cardinality(Filled \ {Pos}) <= Cardinality(Filled)
      /\ Cardinality(Filled) \in Nat
  BY <1>1, <1>2, FS_Subset, FS_CardinalityType
<1>4. dncnt \in {Cardinality(Passed), Cardinality(Filled), Cardinality(Filled \ {Pos})}
  BY DEF RegistryInv, RegistryTypes, CountByPlace, Filling
<1> QED  BY <1>1, <1>2, <1>3, <1>4

(* A set with more than s slots has one above the first s.                 *)
LEMMA OneSlotAbove ==
    ASSUME NEW S \in SUBSET Slots, NEW s \in Slots, s \notin S, s < Cardinality(S)
    PROVE  \E t \in S : s < t
<1>1. SUFFICES ASSUME \A t \in S : ~(s < t)  PROVE FALSE
  OBVIOUS
<1>2. s \in Nat /\ S \subseteq 0 .. s - 1
  BY <1>1, LimitsAssumption DEF Slots
<1>3. IsFiniteSet(0 .. s - 1) /\ Cardinality(0 .. s - 1) = s
  BY <1>2, FS_Interval
<1>4. Cardinality(S) <= s /\ Cardinality(S) \in Nat
  BY <1>2, <1>3, FS_Subset, FS_CardinalityType
<1> QED  BY <1>2, <1>4

(* An empty slot below dncnt is a hole.                                    *)
LEMMA EmptySlotIsHole ==
    ASSUME RegistryInv, NEW s \in Slots, dnlist[s] = Null, s < dncnt
    PROVE  Hole
<1>1. Filled \in SUBSET Slots /\ s \notin Filled
  BY DEF Filled
<1>2. dncnt <= Cardinality(Filled) /\ Cardinality(Filled) \in Nat /\ dncnt \in Nat /\ s \in Nat
  BY <1>1, CountIsNoMore, SlotSetsAreFinite, LimitsAssumption
     DEF RegistryInv, RegistryTypes, Slots
<1>3. \E t \in Filled : s < t
  BY <1>1, <1>2, OneSlotAbove
<1> QED  BY <1>3 DEF Hole

(* Only Crash brings the namenode down.                                    *)
LEMMA OnlyCrashCrashes ==
    ASSUME [Next]_vars, mpc' = "crashed", mpc # "crashed"
    PROVE  Crash
<1>1. ASSUME NEW r \in Requests, Accept(r)
      PROVE  mpc' # "crashed"
  <2>1. CASE get_file_location(r) \/ get_file_receivers(r)
    BY <2>1 DEF get_file_location, get_file_receivers, Answer, Assign
  <2>2. CASE get_file_update_point(r) \/ get_system_information
    BY <2>2 DEF get_file_update_point, get_system_information, Answer, Assign
  <2> QED  BY <1>1, <2>1, <2>2, RequestFits DEF Accept
<1>2. MainStep => Crash
  BY DEF MainStep, LeaveSafeMode, AssignId, AssignIp, AssignPort, AnswerAssignment,
         ListDatanode, AnswerList, Answer
<1>3. (\E h \in Heartbeats : ReceiveHeartbeat(h)) \/ HeartbeatStep \/ UNCHANGED vars
      => mpc' = mpc
  BY DEF ReceiveHeartbeat, HeartbeatStep, Allocate, FillId, FillIp, FillPort, ResetCount,
         CountSlot, EndHeartbeat, vars, mainVars
<1> QED  BY <1>1, <1>2, <1>3 DEF Next

LEMMA CrashHasAReason ==
    ASSUME IInv, Crash
    PROVE  (hpc = "count" /\ dncnt = 0) \/ Hole
<1> USE DEF IInv, RegistryInv, MainInv
<1>1. CASE mpc \in {"dn_id", "ip", "port"} /\ Traps
  <2>1. CASE dncnt = 0
    <3>1. safeMode = 0
      BY <1>1 DEF ServedWithDatanodes
    <3> QED  BY <2>1, <3>1 DEF ServedWithDatanodes
  <2>2. CASE dncnt # 0
    <3>1. Target \in Slots /\ Target < dncnt
      BY <2>2, TargetInTable
    <3>2. dnlist[Target] = Null
      BY <1>1, <2>2 DEF Traps
    <3> HIDE DEF Target
    <3> QED  BY <3>1, <3>2, EmptySlotIsHole
  <2> QED  BY <2>1, <2>2
<1>2. CASE mpc = "list" /\ next < dncnt /\ dnlist[next] = Null
  <2>1. next \in Slots
    BY <1>2, LimitsAssumption DEF MainTypes, RegistryTypes, Slots
  <2> QED  BY <1>2, <2>1, EmptySlotIsHole
<1> QED  BY <1>1, <1>2 DEF Crash
-----------------------------------------------------------------------------
(* Both threads keep to their types; dncnt stays within the table, list    *)
(* indices and block ids within the bounds of the arrays (dfs_namenode.c). *)
THEOREM TypeCorrectness == Spec => []TypeOK
<1>1. IInv => TypeOK
  BY DEF IInv, RegistryInv, MainInv, RegistryTypes, MainTypes, TypeOK
<1> QED  BY <1>1, InvariantHolds, PTL

(* Between heartbeats dncnt is the number of registered datanodes, during a *)
(* recount the number of those passed, never more than there are.          *)
THEOREM CountCorrectness == Spec => []CountIsExact
<1>1. IInv => CountIsExact
  BY CountIsNoMore DEF IInv, RegistryInv, CountByPlace, CountIsExact, Passed
<1> QED  BY <1>1, InvariantHolds, PTL

(* The main thread reads an entry the heartbeat thread still fills only     *)
(* when a datanode with a larger id registered before it.                  *)
THEOREM EntriesAreFilledFirst == Spec => []UnfilledIsOutOfReach
<1>1. ASSUME IInv, NEW s \in Filled, s < dncnt, Unfilled(s)
      PROVE  \E t \in Filled : s < t
  <2> DEFINE others == Filled \ {s}
  <2>1. dncnt = Cardinality(others)
    BY <1>1 DEF IInv, RegistryInv, GarbageByPlace
  <2>2. others \in SUBSET Slots /\ s \in Slots /\ s \notin others
    BY DEF Filled
  <2>3. \E t \in others : s < t
    <3> HIDE DEF others
    <3> QED  BY <1>1, <2>1, <2>2, OneSlotAbove
  <2> QED  BY <2>3
<1>2. IInv => UnfilledIsOutOfReach
  BY <1>1 DEF UnfilledIsOutOfReach
<1> QED  BY <1>2, InvariantHolds, PTL

(* A request brings the namenode down only inside the recount window, or   *)
(* while a smaller datanode id is missing.                                 *)
THEOREM CrashesAreExplained == Spec => CrashNeedsRecountOrHole
<1>1. ASSUME IInv, [Next]_vars
      PROVE  [mpc' = "crashed" /\ mpc # "crashed"
              => (hpc = "count" /\ dncnt = 0) \/ Hole]_vars
  BY <1>1, OnlyCrashCrashes, CrashHasAReason
<1> QED  BY <1>1, InvariantHolds, PTL DEF Spec, CrashNeedsRecountOrHole

(* No sequence of requests gives a file two images.                        *)
THEOREM ImagesAreApart == Spec => []OneImagePerFile
<1>1. IInv => OneImagePerFile
  BY DEF IInv, MainInv
<1> QED  BY <1>1, InvariantHolds, PTL

(* Between two requests every block of every file has a datanode, for      *)
(* every number of datanodes and whatever heartbeats came in between.      *)
THEOREM ListsAreComplete == Spec => []ImagesAreComplete
<1>1. MainInv /\ DealInv => ImagesAreComplete
  BY BlocksBetweenRequests DEF ImagesAreComplete
<1> QED  BY <1>1, BlocksAreDealt, InvariantHolds, PTL DEF IInv

(* A file whose first block has number 0 has block i numbered i, however   *)
(* often it was pushed and modified.                                       *)
THEOREM NumbersFollowIndices == Spec => []NumberedFromZero
<1>1. MainInv /\ DealInv => NumberedFromZero
  BY BlocksBetweenRequests DEF NumberedFromZero
<1> QED  BY <1>1, BlocksAreDealt, InvariantHolds, PTL DEF IInv
=============================================================================
