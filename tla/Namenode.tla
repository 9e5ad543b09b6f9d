------------------------------ MODULE Namenode ------------------------------
(***************************************************************************)
(* The namenode of the distributed file system                             *)
(* (Old/OS/pa3/namenode/dfs_namenode.c): the thread that registers the     *)
(* datanodes from their heartbeats and the main thread that serves the     *)
(* clients.  They share dnlist, dncnt and safeMode without a lock and the  *)
(* program is built without optimisation, so a step is one access to these *)
(* three; what a thread does with its own state goes with that access.     *)
(***************************************************************************)
EXTENDS Integers, Sequences, FiniteSets

CONSTANTS
    MaxDatanodeNum,   \* MAX_DATANODE_NUM
    MaxFileCount,     \* MAX_FILE_COUNT
    MaxFileBlkCount,  \* MAX_FILE_BLK_COUNT
    DfsBlockSize,     \* DFS_BLOCK_SIZE
    Heartbeats,       \* the heartbeats that may arrive: [datanode_id, ip, port]
    Requests,         \* the requests that may arrive: [req_type, file_name, file_size]
    Null,             \* the null pointer
    Garbage,          \* what malloc leaves in a field
    Blank             \* an ip or a port of zero bytes

Slots == 0 .. MaxDatanodeNum - 1
Images == 0 .. MaxFileCount - 1
BlockIndices == 0 .. MaxFileBlkCount - 1
Ids == {h.datanode_id : h \in Heartbeats}
Ips == {h.ip : h \in Heartbeats}
Ports == {h.port : h \in Heartbeats}
Names == {r.file_name : r \in Requests}
Sizes == {r.file_size : r \in Requests}

ASSUME LimitsAssumption ==
    /\ MaxDatanodeNum \in Nat \ {0} /\ MaxFileCount \in Nat \ {0}
    /\ MaxFileBlkCount \in Nat \ {0} /\ DfsBlockSize \in Nat \ {0}
(* An id is 1 or more (dfs_namenode.c:87); nothing else checks it. *)
ASSUME HeartbeatsAssumption ==
    \A h \in Heartbeats :
        /\ h = [datanode_id |-> h.datanode_id, ip |-> h.ip, port |-> h.port]
        /\ h.datanode_id \in Nat \ {0}
        /\ h.ip \notin {Garbage, Blank} /\ h.port \notin {Garbage, Blank}
(* Nothing checks that a file fits its block_list: the model starts where  *)
(* it does.                                                                *)
ASSUME RequestsAssumption ==
    \A r \in Requests :
        /\ r = [req_type |-> r.req_type, file_name |-> r.file_name,
                file_size |-> r.file_size]
        /\ r.req_type \in {"read", "write", "query", "modify"}
        /\ r.file_size \in 0 .. MaxFileBlkCount * DfsBlockSize
Datanode == [dn_id : Ids \cup {Garbage}, ip : Ips \cup {Garbage}, port : Ports \cup {Garbage}]
BlockNumbers == 0 .. 2 * MaxFileBlkCount    \* the block ids a list can show
Block == [dn_id : Ids \cup {0, Garbage}, block_id : BlockNumbers,
          loc_ip : Ips \cup {Blank, Garbage}, loc_port : Ports \cup {Blank, Garbage}]
Image == [filename : Names, file_size : Sizes, blocknum : 0 .. MaxFileBlkCount,
          block_list : [BlockIndices -> Block]]
ASSUME MemoryAssumption ==
    Garbage \notin Nat /\ Garbage # Blank /\ Null \notin Datanode /\ Null \notin Image

VARIABLES
    dnlist,           \* slot -> datanode or Null
    dncnt,
    safeMode,
    hpc,              \* where the heartbeat thread is in register_datanode
    datanode_status,  \* the heartbeat it handles
    count_i,          \* the i of its recount
    mpc,              \* where the main thread is
    request,          \* the request it serves
    file_images,      \* index -> file or Null, used by the main thread only
    file_image,       \* the image its loop fills
    next,             \* the index its loop is at
    first_id,         \* the block id at list index 0
    block_data,
    response          \* the reply to the last client, NoReply until there is one

registry == <<dnlist, dncnt, safeMode>>
heartbeatVars == <<hpc, datanode_status, count_i>>
loopVars == <<file_image, next, first_id, block_data>>
mainVars == <<mpc, request, file_images, loopVars, response>>
vars == <<registry, heartbeatVars, mainVars>>

ZeroBlock == [dn_id |-> 0, block_id |-> 0, loc_ip |-> Blank, loc_port |-> Blank]
UnfilledDatanode == [dn_id |-> Garbage, ip |-> Garbage, port |-> Garbage]

NoReply == [kind |-> "none"]
Closed == [kind |-> "closed"]      \* the connection ends without a byte
FileReply(image) == [kind |-> "file", query_result |-> image]
SystemReply(num, list) == [kind |-> "system", datanode_num |-> num, datanodes |-> list]

Running == mpc # "crashed"
Filled == {s \in Slots : dnlist[s] # Null}
-----------------------------------------------------------------------------
(* The heartbeat thread, register_datanode. *)
Position(status) == status.datanode_id - 1

(* A heartbeat is received; one with the id MAX_DATANODE_NUM or more is    *)
(* dropped.                                                                *)
ReceiveHeartbeat(h) ==
    /\ Running /\ hpc = "accept"
    /\ datanode_status' = h
    /\ hpc' = IF h.datanode_id < MaxDatanodeNum THEN "allocate" ELSE "accept"
    /\ UNCHANGED <<registry, count_i, mainVars>>

AllocatedAlways(datanode) ==  \* a seeded fault: malloc without the check for NULL
    IF datanode = Null THEN UnfilledDatanode ELSE UnfilledDatanode
Allocated(datanode) == IF datanode = Null THEN UnfilledDatanode ELSE datanode

Allocate ==
    /\ Running /\ hpc = "allocate"
    /\ dnlist' = [dnlist EXCEPT ![Position(datanode_status)] = Allocated(@)]
    /\ hpc' = "dn_id"
    /\ UNCHANGED <<dncnt, safeMode, datanode_status, count_i, mainVars>>

FillId ==
    /\ Running /\ hpc = "dn_id"
    /\ dnlist' = [dnlist EXCEPT ![Position(datanode_status)].dn_id = datanode_status.datanode_id]
    /\ hpc' = "ip"
    /\ UNCHANGED <<dncnt, safeMode, datanode_status, count_i, mainVars>>

FillIp ==
    /\ Running /\ hpc = "ip"
    /\ dnlist' = [dnlist EXCEPT ![Position(datanode_status)].ip = datanode_status.ip]
    /\ hpc' = "port"
    /\ UNCHANGED <<dncnt, safeMode, datanode_status, count_i, mainVars>>

FillPort ==
    /\ Running /\ hpc = "port"
    /\ dnlist' = [dnlist EXCEPT ![Position(datanode_status)].port = datanode_status.port]
    /\ hpc' = "reset"
    /\ UNCHANGED <<dncnt, safeMode, datanode_status, count_i, mainVars>>

(* Every heartbeat counts the datanodes anew, in dncnt itself. *)
CountKept == dncnt    \* a seeded fault: the old count is not reset
CountFrom == 0

ResetCount ==
    /\ Running /\ hpc = "reset"
    /\ dncnt' = CountFrom
    /\ count_i' = 0
    /\ hpc' = "count"
    /\ UNCHANGED <<dnlist, safeMode, datanode_status, mainVars>>

CountsEverySlot(i) == 1    \* a seeded fault: empty slots are counted too
Counts(i) == IF dnlist[i] # Null THEN 1 ELSE 0

CountSlot ==
    /\ Running /\ hpc = "count" /\ count_i \in Slots
    /\ dncnt' = dncnt + Counts(count_i)
    /\ count_i' = count_i + 1
    /\ UNCHANGED <<dnlist, safeMode, hpc, datanode_status, mainVars>>

SafeModeKept == safeMode    \* a seeded fault: safe mode is not left
SafeModeAfter == 0

EndHeartbeat ==
    /\ Running /\ hpc = "count" /\ count_i = MaxDatanodeNum
    /\ safeMode' = SafeModeAfter
    /\ hpc' = "accept"
    /\ UNCHANGED <<dnlist, dncnt, datanode_status, count_i, mainVars>>
-----------------------------------------------------------------------------
(* The main thread: mainLoop and the handlers. *)
LeaveSafeMode ==
    /\ mpc = "safe_mode" /\ safeMode = 0
    /\ mpc' = "accept"
    /\ UNCHANGED <<registry, heartbeatVars, request, file_images, loopVars, response>>

(* The first image of a file, or -1. *)
FirstImage(which) ==
    IF which = {} THEN -1 ELSE CHOOSE x \in which : \A y \in which : x <= y
ImageButFirst(name) ==  \* a seeded fault: the search starts one image late
    FirstImage({x \in 1 .. MaxFileCount - 1 :
                   file_images[x] # Null /\ file_images[x].filename = name})
ImageOf(name) ==
    FirstImage({x \in Images : file_images[x] # Null /\ file_images[x].filename = name})
FreeImage == FirstImage({x \in Images : file_images[x] = Null})

BlockCount(file_size) == (file_size + (DfsBlockSize - 1)) \div DfsBlockSize

(* The loop that assigns blocks to datanodes starts at list index n; list  *)
(* index and block id go up together, b is the id that index 0 has.        *)
Assign(x, n, b) ==
    /\ mpc' = "dn_id"
    /\ file_image' = x /\ next' = n /\ first_id' = b /\ block_data' = ZeroBlock
    /\ response' = NoReply

Answer(reply) ==
    /\ mpc' = "accept"
    /\ response' = reply

NewFile(r) ==
    [filename |-> r.file_name, file_size |-> r.file_size, blocknum |-> 0,
     block_list |-> [i \in BlockIndices |-> ZeroBlock]]

(* The connection is closed without an answer when the file is unknown. *)
get_file_location(r) ==
    /\ Answer(IF ImageOf(r.file_name) = -1 THEN Closed
              ELSE FileReply(file_images[ImageOf(r.file_name)]))
    /\ UNCHANGED <<file_images, loopVars>>

(* A file that has an image keeps its file_size and its block list; the    *)
(* blocks are assigned anew, numbered from the old count on.               *)
get_file_receivers(r) ==
    LET found == ImageOf(r.file_name)
        x == IF found # -1 THEN found ELSE FreeImage
        image == IF found # -1 THEN file_images[found] ELSE NewFile(r)
    IN  IF x = -1
        THEN Answer(Closed) /\ UNCHANGED <<file_images, loopVars>>
        ELSE /\ file_images' = [file_images EXCEPT ![x] =
                    [image EXCEPT !.blocknum = BlockCount(r.file_size)]]
             /\ Assign(x, 0, image.blocknum)

UpdateFromEnd(image, r) == BlockCount(r.file_size)  \* a seeded fault: read after the update
UpdateFrom(image, r) == image.blocknum

get_file_update_point(r) ==
    LET x == ImageOf(r.file_name)
    IN  \/ /\ x = -1
           /\ Answer(Closed) /\ UNCHANGED <<file_images, loopVars>>
        \/ /\ x # -1 /\ r.file_size <= file_images[x].file_size
           /\ Answer(FileReply(file_images[x])) /\ UNCHANGED <<file_images, loopVars>>
        \/ /\ x # -1 /\ r.file_size > file_images[x].file_size
           /\ file_images' = [file_images EXCEPT ![x] =
                    [@ EXCEPT !.blocknum = BlockCount(r.file_size), !.file_size = r.file_size]]
           /\ Assign(x, UpdateFrom(file_images[x], r), 0)

get_system_information ==
    /\ mpc' = "list"
    /\ next' = 0
    /\ response' = SystemReply(dncnt, << >>)
    /\ UNCHANGED <<file_images, file_image, first_id, block_data>>

(* mainLoop accepts a client and dispatches its request. *)
Accept(r) ==
    /\ mpc = "accept"
    /\ request' = r
    /\ CASE r.req_type = "read"   -> get_file_location(r)
         [] r.req_type = "write"  -> get_file_receivers(r)
         [] r.req_type = "query"  -> get_system_information
         [] r.req_type = "modify" -> get_file_update_point(r)
    /\ UNCHANGED <<registry, heartbeatVars>>

(* dnlist[next % dncnt] is read for each field of a block: the modulo      *)
(* traps when dncnt is 0, the access when the slot is empty.               *)
TargetOneTooFar == next % (dncnt + 1)    \* a seeded fault: an off-by-one divisor
Target == next % dncnt
Traps == IF dncnt = 0 THEN TRUE ELSE dnlist[Target] = Null

(* The loop goes on while next is a block of the file. *)
InFile == next < file_images[file_image].blocknum

Crash ==
    /\ \/ /\ mpc \in {"dn_id", "ip", "port"}
          /\ InFile /\ Traps
       \/ /\ mpc = "list" /\ next < dncnt
          /\ dnlist[next] = Null
    /\ mpc' = "crashed"
    /\ UNCHANGED <<registry, heartbeatVars, request, file_images, loopVars, response>>

BlockIdStays == first_id    \* a seeded fault: the block id does not advance
BlockId == first_id + next

AssignId ==
    /\ mpc = "dn_id" /\ InFile /\ ~Traps
    /\ block_data' = [ZeroBlock EXCEPT !.dn_id = dnlist[Target].dn_id, !.block_id = BlockId]
    /\ mpc' = "ip"
    /\ UNCHANGED <<registry, heartbeatVars, request, file_images, file_image, next, first_id,
                   response>>

AssignIp ==
    /\ mpc = "ip" /\ ~Traps
    /\ block_data' = [block_data EXCEPT !.loc_ip = dnlist[Target].ip]
    /\ mpc' = "port"
    /\ UNCHANGED <<registry, heartbeatVars, request, file_images, file_image, next, first_id,
                   response>>

NextStays == next         \* a seeded fault: the loop does not advance
NextIndex == next + 1

AssignPort ==
    /\ mpc = "port" /\ ~Traps
    /\ block_data' = [block_data EXCEPT !.loc_port = dnlist[Target].port]
    /\ file_images' = [file_images EXCEPT ![file_image].block_list[next] = block_data']
    /\ next' = NextIndex
    /\ mpc' = "dn_id"
    /\ UNCHANGED <<registry, heartbeatVars, request, file_image, first_id, response>>

AnswerAssignment ==
    /\ mpc = "dn_id" /\ ~InFile
    /\ Answer(FileReply(file_images[file_image]))
    /\ UNCHANGED <<registry, heartbeatVars, request, file_images, loopVars>>

ListDatanode ==
    /\ mpc = "list" /\ next < dncnt /\ dnlist[next] # Null
    /\ response' = [response EXCEPT !.datanodes = Append(@, dnlist[next])]
    /\ next' = next + 1
    /\ UNCHANGED <<registry, heartbeatVars, mpc, request, file_images, file_image, first_id,
                   block_data>>

AnswerList ==
    /\ mpc = "list" /\ next >= dncnt
    /\ mpc' = "accept"
    /\ UNCHANGED <<registry, heartbeatVars, request, file_images, loopVars, response>>
-----------------------------------------------------------------------------
Init ==
    /\ dnlist = [s \in Slots |-> Null]
    /\ dncnt = 0
    /\ safeMode = 1
    /\ hpc = "accept" /\ datanode_status = Null /\ count_i = 0
    /\ mpc = "safe_mode" /\ request = Null
    /\ file_images = [x \in Images |-> Null]
    /\ file_image = 0 /\ next = 0 /\ first_id = 0 /\ block_data = ZeroBlock
    /\ response = NoReply

HeartbeatStep ==
    Allocate \/ FillId \/ FillIp \/ FillPort \/ ResetCount \/ CountSlot \/ EndHeartbeat

MainStep ==
    LeaveSafeMode \/ AssignId \/ AssignIp \/ AssignPort \/ AnswerAssignment
    \/ ListDatanode \/ AnswerList \/ Crash

Next ==
    \/ \E h \in Heartbeats : ReceiveHeartbeat(h)
    \/ HeartbeatStep
    \/ \E r \in Requests : Accept(r)
    \/ MainStep

Spec == Init /\ [][Next]_vars

(* Each thread runs on while it has work; nobody has to send anything. *)
FairSpec == Spec /\ WF_vars(HeartbeatStep) /\ WF_vars(MainStep)
-----------------------------------------------------------------------------
(* TypeOK: both threads keep to their types; dncnt never counts past the   *)
(* table and the block ids a client is told stay below twice the longest   *)
(* list, also when files are pushed again and again.                       *)
TypeOK ==
    /\ dnlist \in [Slots -> Datanode \cup {Null}]
    /\ dncnt \in 0 .. MaxDatanodeNum /\ safeMode \in {0, 1}
    /\ hpc \in {"accept", "allocate", "dn_id", "ip", "port", "reset", "count"}
    /\ datanode_status \in Heartbeats \cup {Null} /\ count_i \in 0 .. MaxDatanodeNum
    /\ mpc \in {"safe_mode", "accept", "dn_id", "ip", "port", "list", "crashed"}
    /\ request \in Requests \cup {Null}
    /\ file_images \in [Images -> Image \cup {Null}]
    /\ file_image \in Images /\ next \in 0 .. MaxDatanodeNum + MaxFileBlkCount
    /\ first_id \in 0 .. MaxFileBlkCount /\ block_data \in Block

(* CountIsExact: between two heartbeats dncnt is the number of registered  *)
(* datanodes, during a recount the number of those already passed, and it  *)
(* is never more than what is registered (dfs_namenode.c:92-107).          *)
CountIsExact ==
    /\ hpc = "accept" => dncnt = Cardinality(Filled)
    /\ hpc = "count" => dncnt = Cardinality({s \in Filled : s < count_i})
    /\ dncnt <= Cardinality(Filled)

(* CrashNeedsRecountOrHole: a request brings the namenode down only in the *)
(* window in which a heartbeat has reset dncnt to 0, or while a datanode   *)
(* is registered and one with a smaller id is not.                         *)
Hole == \E s \in Slots : dnlist[s] = Null /\ \E t \in Filled : s < t
CrashNeedsRecountOrHole ==
    [][mpc' = "crashed" /\ mpc # "crashed" => (hpc = "count" /\ dncnt = 0) \/ Hole]_vars

(* UnfilledIsOutOfReach: an entry fresh from malloc, which the heartbeat   *)
(* thread still fills, is at an index the main thread reads (below dncnt)  *)
(* only when a datanode with a larger id registered before it.             *)
Unfilled(s) == Garbage \in {dnlist[s].dn_id, dnlist[s].ip, dnlist[s].port}
UnfilledIsOutOfReach ==
    \A s \in Filled : s < dncnt /\ Unfilled(s) => \E t \in Filled : s < t

(* OneImagePerFile: no sequence of pushes gives a file two images, of      *)
(* which later requests would find the first only.                         *)
OneImagePerFile ==
    \A x, y \in Images :
        /\ file_images[x] # Null /\ file_images[y] # Null
        /\ file_images[x].filename = file_images[y].filename
        => x = y

(* ImagesAreComplete: between two requests every block of every file was   *)
(* assigned to a datanode, whatever pushes and modifies came before; in    *)
(* particular no reply lists a block that is still zero.                   *)
ImagesAreComplete ==
    mpc = "accept" =>
        \A x \in Images : file_images[x] # Null =>
            \A i \in 0 .. file_images[x].blocknum - 1 :
                file_images[x].block_list[i].dn_id # 0

(* NumberedFromZero: a file whose first block has number 0 has its block i *)
(* numbered i, also after it grew by modifies.                             *)
NumberedFromZero ==
    mpc = "accept" =>
        \A x \in Images : file_images[x] # Null =>
            LET f == file_images[x]
            IN  f.blocknum > 0 /\ f.block_list[0].block_id = 0 =>
                    \A i \in 0 .. f.blocknum - 1 : f.block_list[i].block_id = i

(* RequestsEnd: the loops of the handlers end, while heartbeats change the *)
(* count they divide by: the client is answered, or the namenode is down.  *)
RequestsEnd ==
    mpc \in {"dn_id", "ip", "port", "list"} ~> mpc \in {"accept", "crashed"}

(* ServiceStarts: once a heartbeat was accepted for registration the       *)
(* namenode leaves safe mode and serves.                                   *)
ServiceStarts == hpc = "allocate" ~> mpc # "safe_mode"
-----------------------------------------------------------------------------
(* What comments and tests say and the code does not do.                   *)

(* DivisorIsTheNumberOfDatanodes: blocks are dealt out modulo the number   *)
(* of datanodes (dfs_namenode.c:158).                                      *)
DivisorIsTheNumberOfDatanodes ==
    mpc \in {"dn_id", "ip", "port"} /\ InFile =>
        dncnt # 0 /\ (hpc = "count" => dncnt = Cardinality(Filled))
=============================================================================
