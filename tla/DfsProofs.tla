------------------------------ MODULE DfsProofs ------------------------------
(***************************************************************************)
(* Theorems about the distributed file system at work, for every number of *)
(* clients, datanodes, files and blocks: its types, and that a pull ends   *)
(* with what was pushed.  The namenode's invariants (NamenodeProofs) hold   *)
(* here too; four more rest on them:                                       *)
(*   DfsShapes   what the variables of clients and datanodes hold;         *)
(*   CallInv     what a client's place in its call says of its request, of *)
(*               its local file and of the namenode;                       *)
(*   ReadInv     a client waits for one answer, and for which one;         *)
(*   PushInv     what the one push of a file sent is all that lists,       *)
(*               queues, datanodes and pulls have of the file.             *)
(***************************************************************************)
EXTENDS Dfs, NamenodeProofs, SequenceTheorems, Arithmetic

Content == [Offsets -> Bytes]
Message == [client : Clients, op_type : {0, 1}, owner_name : Names, block_id : BlockNumbers,
            content : Content \cup {<< >>}]
Stored(blocks) ==
    /\ DOMAIN blocks \subseteq Names \X BlockNumbers
    /\ \A b \in DOMAIN blocks : blocks[b] \in Content
History == [content : Seq(Bytes), by : Clients \cup {Nobody},
            state : {"none", "sending", "sent", "mixed"}]

DfsShapes ==
    /\ pc \in [Clients -> ClientPcs] /\ asked \in [Clients -> Requests \cup {Null}]
    /\ range \in [Clients -> Modifications \cup {Whole}]
    /\ reply \in [Clients -> Image \cup {NoImage}]
    /\ i \in [Clients -> 0 .. MaxFileBlkCount]
    /\ local \in [Clients -> [Names -> Seq(Bytes) \cup {NoFile}]]
    /\ served \in Clients \cup {Nobody} /\ up \in [Datanodes -> BOOLEAN]
    /\ queue \in [Datanodes -> Seq(Message)] /\ DOMAIN stored = Datanodes
    /\ \A d \in Datanodes :
          /\ \A k \in DOMAIN queue[d] :
                queue[d][k].op_type = 1 => queue[d][k].content \in Content
          /\ Stored(stored[d])
    /\ original \in [Names -> History]

(* The namenode works for the client it has in hand, who waits.            *)
ServedInv ==
    /\ mpc = "safe_mode" => served = Nobody
    /\ mpc \in Dealing \cup {"list"} => served \in Clients /\ pc[served] = "waiting"
    /\ mpc \in Dealing => asked[served].req_type \in {"write", "modify"}
    /\ mpc = "list" => response = SystemReply(response.datanode_num, response.datanodes)

(* A client in a call has asked for a file of its own that a pull has      *)
(* emptied and nothing else changes until the pull fills it.               *)
FileAsked(c) == local[c][asked[c].file_name]
ClientInv(c) ==
    /\ pc[c] # "idle" =>
          /\ asked[c] \in Requests
          /\ range[c] \in IF asked[c].req_type = "modify" THEN Modifications ELSE {Whole}
    /\ pc[c] = "waiting" => asked[c].req_type # "read"
    /\ pc[c] \in {"asking", "waiting", "blocks", "answer"} /\ asked[c].req_type # "query" =>
          FileAsked(c) \in Seq(Bytes)
    /\ pc[c] = "asking" /\ asked[c].req_type = "read" => FileAsked(c) = << >>
    /\ pc[c] \in {"asking", "waiting", "blocks"} /\ asked[c].req_type = "write" =>
          asked[c].file_size = Len(FileAsked(c))
    /\ pc[c] \in {"blocks", "answer"} =>
          reply[c] \in Image /\ range[c].start_addr \div DfsBlockSize <= i[c]
    /\ pc[c] = "answer" => asked[c].req_type = "read" /\ i[c] < reply[c].blocknum

CallInv == ServedInv /\ \A c \in Clients : ClientInv(c)

(* A request to read belongs to a client that waits for the block it is    *)
(* at, and to no other request of the client.                              *)
IsRead(d, k) == k \in DOMAIN queue[d] /\ queue[d][k].op_type = 0
ReadIsAwaited(r) ==
    /\ pc[r.client] = "answer" /\ r.owner_name = asked[r.client].file_name
    /\ r.block_id = reply[r.client].block_list[i[r.client]].block_id
ReadInv ==
    \A d \in Datanodes : \A k \in DOMAIN queue[d] : queue[d][k].op_type = 0 =>
        /\ ReadIsAwaited(queue[d][k])
        /\ \A e \in Datanodes : \A j \in DOMAIN queue[e] :
              queue[e][j].op_type = 0 /\ queue[e][j].client = queue[d][k].client => e = d /\ j = k

(* What there is of a file that was pushed once, or of one that was not    *)
(* pushed: requests to store and stored blocks, the client that sends, the *)
(* image, and the clients that pull.                                       *)
Pulled(file, n) ==
    [at \in 1 .. n * DfsBlockSize |-> IF at <= Len(file) THEN file[at] ELSE Garbage]
PushedOnly(name) == original[name].state # "mixed"
HasBegun(name) == original[name].state # "none"
First(name) == original[name].content

QueueInv(name) ==
    \A d \in Datanodes : \A k \in DOMAIN queue[d] :
        queue[d][k].op_type = 1 /\ queue[d][k].owner_name = name =>
            HasBegun(name) /\ queue[d][k].content = PushContent(First(name), queue[d][k].block_id)
StoredInv(name) ==
    \A d \in Datanodes : \A id \in BlockNumbers : <<name, id>> \in DOMAIN stored[d] =>
        HasBegun(name) /\ stored[d][<<name, id>>] = PushContent(First(name), id)
Sends(c, name) ==
    /\ pc[c] \in {"waiting", "blocks"} /\ asked[c].req_type \in {"write", "modify"}
    /\ asked[c].file_name = name
SenderInv(name) ==
    \A c \in Clients : Sends(c, name) =>
        HasBegun(name) /\ asked[c].req_type = "write" /\ local[c][name] = First(name)
ListsInOrder(image, name) ==
    image.blocknum = BlockCount(Len(First(name))) /\ image.block_list[0].block_id = 0
ImageInv(name) ==
    \A x \in Images : file_images[x] # Null /\ file_images[x].filename = name =>
        /\ HasBegun(name) /\ ListsInOrder(file_images[x], name)
        /\ mpc \in Dealing /\ file_image = x => first_id = 0
Pulls(c, name) ==
    /\ pc[c] \in {"blocks", "answer"} /\ asked[c].req_type = "read"
    /\ asked[c].file_name = name
HasPulled(c, name) ==
    /\ HasBegun(name) /\ reply[c].blocknum = BlockCount(Len(First(name)))
    /\ \A k \in 0 .. reply[c].blocknum - 1 : reply[c].block_list[k].block_id = k
    /\ i[c] <= reply[c].blocknum /\ local[c][name] = Pulled(First(name), i[c])
PullInv(name) == \A c \in Clients : Pulls(c, name) => HasPulled(c, name)

FileInv(name) ==
    QueueInv(name) /\ StoredInv(name) /\ SenderInv(name) /\ ImageInv(name) /\ PullInv(name)
PushInv == \A name \in Names : PushedOnly(name) => FileInv(name)
-----------------------------------------------------------------------------
(* The start: every datanode is registered, in the slots from 0 on.        *)
LEMMA StartOfRegistry ==
    ASSUME DfsInit
    PROVE  RegistryInv
<1> DEFINE n == Cardinality(Datanodes)
           At(s, h) == Position(h) = s
           g(s) == CHOOSE h \in Heartbeats : At(s, h)
<1>1. n \in Nat /\ n >= 1 /\ n < MaxDatanodeNum /\ Datanodes = 1 .. n
  <2>1. n \in Nat /\ n # 0
    BY RegisteredAssumption, FS_CardinalityType, FS_EmptySet
  <2> QED  BY <2>1, RegisteredAssumption
<1> HIDE DEF n
<1>2. \A s \in Slots : (\E h \in Heartbeats : At(s, h)) <=> s < n
  <2> SUFFICES ASSUME NEW s \in Slots  PROVE (\E h \in Heartbeats : At(s, h)) <=> s < n
    OBVIOUS
  <2>1. ASSUME NEW h \in Heartbeats, At(s, h)  PROVE s < n
    <3>1. h.datanode_id \in 1 .. n
      BY <1>1 DEF Datanodes, Ids
    <3> QED  BY <2>1, <3>1, <1>1 DEF Position, Slots
  <2>2. ASSUME s < n  PROVE \E h \in Heartbeats : At(s, h)
    <3>1. s + 1 \in Ids /\ s \in Nat
      BY <1>1, <2>2, LimitsAssumption DEF Datanodes, Slots
    <3>2. PICK h \in Heartbeats : h.datanode_id = s + 1
      BY <3>1 DEF Ids
    <3> QED  BY <3>1, <3>2 DEF Position
  <2> QED  BY <2>1, <2>2
<1>3. dnlist = [s \in Slots |->
          IF \E h \in Heartbeats : At(s, h)
          THEN [dn_id |-> g(s).datanode_id, ip |-> g(s).ip, port |-> g(s).port] ELSE Null]
  BY DEF DfsInit
<1>4. \A s \in Slots : IF s < n THEN g(s) \in Heartbeats
                          /\ dnlist[s] = [dn_id |-> g(s).datanode_id, ip |-> g(s).ip,
                                          port |-> g(s).port]
                       ELSE dnlist[s] = Null
  BY <1>2, <1>3
<1> HIDE DEF g, At
<1>5. \A s \in Slots : s < n => dnlist[s] \in Datanode /\ ~Unfilled(s) /\ dnlist[s] # Null
  <2> SUFFICES ASSUME NEW s \in Slots, s < n
               PROVE  dnlist[s] \in Datanode /\ ~Unfilled(s) /\ dnlist[s] # Null
    OBVIOUS
  <2>1. /\ g(s) \in Heartbeats
        /\ dnlist[s] = [dn_id |-> g(s).datanode_id, ip |-> g(s).ip, port |-> g(s).port]
    BY <1>4
  <2>2. /\ g(s).datanode_id \in Ids /\ g(s).ip \in Ips /\ g(s).port \in Ports
        /\ Garbage \notin {g(s).datanode_id, g(s).ip, g(s).port}
    BY <2>1, HeartbeatFields
  <2> QED  BY <2>1, <2>2, MemoryAssumption DEF Datanode, Unfilled
<1>6. Filled = 0 .. n - 1
  <2>1. 0 .. n - 1 \subseteq Slots
    BY <1>1, LimitsAssumption DEF Slots
  <2>2. \A s \in Slots : s < n <=> s \in 0 .. n - 1
    BY <1>1, LimitsAssumption DEF Slots
  <2> QED  BY <1>4, <1>5, <2>1, <2>2 DEF Filled
<1>7. Cardinality(Filled) = n
  <2>1. Cardinality(0 .. n - 1) = IF 0 > n - 1 THEN 0 ELSE (n - 1) - 0 + 1
    BY <1>1, FS_Interval
  <2> QED  BY <1>1, <1>6, <2>1
<1>8. /\ dncnt = n /\ safeMode = 0 /\ hpc = "accept" /\ datanode_status = Null
      /\ count_i = MaxDatanodeNum /\ mpc = "safe_mode"
  BY DEF DfsInit, n
<1>9. RegistryTypes
  <2>1. dnlist \in [Slots -> Datanode \cup {Null}]
    BY <1>3, <1>4, <1>5
  <2> QED  BY <1>1, <1>8, <2>1, LimitsAssumption DEF RegistryTypes
<1>10. EntryListed
  BY <1>8 DEF EntryListed, Filling
<1>11. CountByPlace
  BY <1>7, <1>8 DEF CountByPlace, Filling
<1>12. GarbageByPlace
  <2>1. \A s \in Filled : ~Unfilled(s)
    BY <1>1, <1>5, <1>6, LimitsAssumption DEF Slots
  <2> QED  BY <1>8, <2>1 DEF GarbageByPlace
<1>13. ServedWithDatanodes
  BY <1>1, <1>8 DEF ServedWithDatanodes
<1> QED  BY <1>9, <1>10, <1>11, <1>12, <1>13 DEF RegistryInv

LEMMA StartOfNamenode ==
    ASSUME DfsInit
    PROVE  IInv /\ DealInv
<1>1. /\ file_images = [x \in Images |-> Null] /\ mpc = "safe_mode" /\ request = Null
      /\ file_image = 0 /\ next = 0 /\ first_id = 0 /\ block_data = ZeroBlock
  BY DEF DfsInit
<1>2. ZeroBlock \in Block
  <2>1. 0 \in BlockNumbers
    BY LimitsAssumption DEF BlockNumbers
  <2> QED  BY <2>1 DEF ZeroBlock, Block
<1>3. 0 \in Images /\ 0 \in 0 .. MaxFileBlkCount /\ 0 \in 0 .. MaxDatanodeNum + MaxFileBlkCount
  BY LimitsAssumption DEF Images
<1>4. MainTypes
  BY <1>1, <1>2, <1>3 DEF MainTypes
<1>5. LoopFillsAFile /\ OneImagePerFile
  BY <1>1 DEF LoopFillsAFile, OneImagePerFile
<1>6. DealInv
  BY <1>1 DEF DealInv, OthersAreDealt, LoopDealsInOrder, BlockInHand, Dealing
<1> QED  BY <1>4, <1>5, <1>6, StartOfRegistry DEF IInv, MainInv

LEMMA StartOfCalls ==
    ASSUME DfsInit
    PROVE  DfsShapes /\ CallInv /\ ReadInv /\ PushInv
<1>1. /\ pc = [c \in Clients |-> "idle"] /\ asked = [c \in Clients |-> Null]
      /\ range = [c \in Clients |-> Whole] /\ reply = [c \in Clients |-> NoImage]
      /\ i = [c \in Clients |-> 0] /\ local = LocalFiles /\ served = Nobody
      /\ up = [d \in Datanodes |-> TRUE] /\ queue = [d \in Datanodes |-> << >>]
      /\ stored = [d \in Datanodes |-> [b \in {} |-> << >>]]
      /\ original = [x \in Names |-> Unwritten]
      /\ mpc = "safe_mode" /\ file_images = [x \in Images |-> Null]
  BY DEF DfsInit
<1>2. << >> \in Seq(Bytes) /\ << >> \in Seq(Message) /\ Len(<< >>) = 0
  BY EmptySeq
<1>3. DfsShapes
  <2>1. \A d \in Datanodes : DOMAIN queue[d] = {}
    BY <1>1, <1>2
  <2>2. \A d \in Datanodes : Stored(stored[d])
    BY <1>1 DEF Stored
  <2>3. original \in [Names -> History]
    BY <1>1, <1>2 DEF History, Unwritten
  <2>4. /\ i \in [Clients -> 0 .. MaxFileBlkCount] /\ pc \in [Clients -> ClientPcs]
        /\ asked \in [Clients -> Requests \cup {Null}]
        /\ range \in [Clients -> Modifications \cup {Whole}]
        /\ reply \in [Clients -> Image \cup {NoImage}]
        /\ local \in [Clients -> [Names -> Seq(Bytes) \cup {NoFile}]]
        /\ served \in Clients \cup {Nobody} /\ up \in [Datanodes -> BOOLEAN]
        /\ queue \in [Datanodes -> Seq(Message)] /\ DOMAIN stored = Datanodes
    BY <1>1, <1>2, FilesAssumption, LimitsAssumption DEF ClientPcs
  <2> QED  BY <2>1, <2>2, <2>3, <2>4 DEF DfsShapes
<1>4. CallInv
  BY <1>1 DEF CallInv, ServedInv, ClientInv, Dealing
<1>5. ReadInv
  BY <1>1 DEF ReadInv
<1>6. PushInv
  BY <1>1 DEF PushInv, FileInv, QueueInv, StoredInv, SenderInv, Sends, ImageInv, PullInv, Pulls
<1> QED  BY <1>3, <1>4, <1>5, <1>6
-----------------------------------------------------------------------------
(* What the namenode's steps are to a client: the place it goes to, and    *)
(* the answer it gives when it goes back to accept.                        *)
LEMMA ImagesAreImages ==
    ASSUME IInv, NEW x \in Images, file_images[x] # Null
    PROVE  file_images[x] \in Image /\ file_images[x].filename \in Names
<1>1. file_images[x] \in Image
  BY DEF IInv, MainInv, MainTypes
<1> QED  BY <1>1 DEF Image

LEMMA AcceptEffect ==
    ASSUME IInv, NEW r \in Requests, Accept(r)
    PROVE  /\ mpc = "accept"
           /\ \/ /\ mpc' = "accept" /\ response' = Closed /\ file_images' = file_images
              \/ /\ mpc' = "accept" /\ r.req_type \in {"read", "modify"}
                 /\ file_images' = file_images
                 /\ \E x \in Images : /\ file_images[x] # Null
                                      /\ file_images[x].filename = r.file_name
                                      /\ response' = FileReply(file_images[x])
              \/ mpc' = "dn_id" /\ r.req_type \in {"write", "modify"}
              \/ /\ mpc' = "list" /\ r.req_type = "query" /\ file_images' = file_images
                 /\ response' = SystemReply(dncnt, << >>)
<1> DEFINE x == ImageOf(r.file_name)
<1>1. mpc = "accept" /\ r.req_type \in {"read", "write", "query", "modify"}
  BY RequestFits DEF Accept
<1>2. IF x = -1 THEN TRUE
      ELSE x \in Images /\ file_images[x] # Null /\ file_images[x].filename = r.file_name
  BY ImageOfFile, MemoryAssumption DEF IInv, MainInv
<1> HIDE DEF x
<1>3. CASE r.req_type = "read"
  <2>1. /\ mpc' = "accept" /\ file_images' = file_images
        /\ response' = IF x = -1 THEN Closed ELSE FileReply(file_images[x])
    BY <1>3 DEF Accept, get_file_location, Answer, x
  <2> QED  BY <1>1, <1>2, <1>3, <2>1
<1>4. CASE r.req_type = "write"
  <2>1. get_file_receivers(r)
    BY <1>4 DEF Accept
  <2> QED  BY <1>1, <1>4, <2>1 DEF get_file_receivers, Answer, Assign
<1>5. CASE r.req_type = "modify"
  <2>1. get_file_update_point(r)
    BY <1>5 DEF Accept
  <2> QED  BY <1>1, <1>2, <1>5, <2>1 DEF get_file_update_point, Answer, Assign, x
<1>6. CASE r.req_type = "query"
  BY <1>1, <1>6 DEF Accept, get_system_information
<1> QED  BY <1>1, <1>3, <1>4, <1>5, <1>6

LEMMA MainStepEffect ==
    ASSUME IInv, ServedInv, MainStep
    PROVE  \/ mpc = "safe_mode" /\ mpc' = "accept" /\ file_images' = file_images
           \/ mpc \in Dealing /\ mpc' \in Dealing \cup {"crashed"}
           \/ /\ mpc \in Dealing /\ mpc' = "accept" /\ file_images' = file_images
              /\ response' = FileReply(file_images[file_image])
              /\ file_images[file_image] \in Image
           \/ /\ mpc = "list" /\ mpc' \in {"list", "accept", "crashed"}
              /\ file_images' = file_images
              /\ response' = SystemReply(response'.datanode_num, response'.datanodes)
<1>1. CASE LeaveSafeMode
  BY <1>1 DEF LeaveSafeMode
<1>2. CASE AssignId \/ AssignIp \/ AssignPort
  BY <1>2 DEF AssignId, AssignIp, AssignPort, Dealing
<1>3. CASE AnswerAssignment
  <2>1. file_images[file_image] \in Image
    BY <1>3 DEF AnswerAssignment, IInv, MainInv, MainTypes, LoopFillsAFile
  <2> QED  BY <1>3, <2>1 DEF AnswerAssignment, Answer, Dealing
<1>4. CASE ListDatanode
  <2>1. /\ mpc = "list" /\ mpc' = mpc /\ file_images' = file_images
        /\ response' = [response EXCEPT !.datanodes = Append(@, dnlist[next])]
    BY <1>4 DEF ListDatanode
  <2>2. response = SystemReply(response.datanode_num, response.datanodes)
    BY <2>1 DEF ServedInv
  <2> DEFINE a == response.datanode_num
             b == response.datanodes
             z == Append(b, dnlist[next])
  <2>3. response' = [response EXCEPT !.datanodes = z]
    BY <2>1
  <2>4. response = SystemReply(a, b)
    BY <2>2
  <2>5. response' = SystemReply(a, z)
    <3> HIDE DEF a, b, z
    <3> QED  BY <2>3, <2>4 DEF SystemReply
  <2> QED  BY <2>1, <2>5 DEF SystemReply
<1>5. CASE AnswerList
  <2>1. mpc = "list" /\ mpc' = "accept" /\ file_images' = file_images /\ response' = response
    BY <1>5 DEF AnswerList
  <2>2. response = SystemReply(response.datanode_num, response.datanodes)
    BY <2>1 DEF ServedInv
  <2> QED  BY <2>1, <2>2
<1>6. CASE Crash
  <2>1. /\ mpc \in Dealing \cup {"list"} /\ mpc' = "crashed" /\ file_images' = file_images
        /\ response' = response
    BY <1>6 DEF Crash, Dealing
  <2>2. mpc = "list" => response = SystemReply(response.datanode_num, response.datanodes)
    BY DEF ServedInv
  <2> QED  BY <2>1, <2>2
<1> QED  BY <1>1, <1>2, <1>3, <1>4, <1>5, <1>6 DEF MainStep

(* A modify starts at a block of the file, any other call at the first.    *)
LEMMA RangeFits ==
    ASSUME NEW m \in Modifications \cup {Whole}
    PROVE  /\ m.start_addr \in Nat /\ m.end_addr \in Nat
           /\ m.start_addr <= m.end_addr
           /\ m.end_addr < MaxFileBlkCount * DfsBlockSize
           /\ m.start_addr \div DfsBlockSize \in 0 .. MaxFileBlkCount
           /\ m = Whole => m.start_addr \div DfsBlockSize = 0
<1> DEFINE D == DfsBlockSize
           M == MaxFileBlkCount * D
           s == m.start_addr
           q == s \div D
<1>1. D \in Nat \ {0} /\ MaxFileBlkCount \in Nat \ {0} /\ M \in Nat /\ M > 0
  BY LimitsAssumption, AtLeast
<1>2. s \in Nat /\ m.end_addr \in Nat /\ s <= m.end_addr /\ m.end_addr < M
  <2>1. CASE m = Whole
    BY <1>1, <2>1 DEF Whole
  <2>2. CASE m \in Modifications
    <3> HIDE DEF M
    <3>1. /\ m.file_size \in 0 .. M /\ m.end_addr \in 0 .. m.file_size - 1
          /\ m.start_addr \in 0 .. m.end_addr
      BY <2>2, RangesAssumption DEF M
    <3> QED  BY <1>1, <3>1
  <2> QED  BY <2>1, <2>2
<1> HIDE DEF s
<1>3. q \in Nat /\ D * q <= s
  <2>1. s % D \in 0 .. D - 1 /\ q \in Nat /\ s = D * q + (s % D)
    BY <1>1, <1>2, Division, Zenon
  <2> QED  BY <1>1, <1>2, <2>1
<1>4. q < MaxFileBlkCount
  <2> HIDE DEF q
  <2>1. D * q < D * MaxFileBlkCount
    BY <1>1, <1>2, <1>3
  <2> QED  BY <1>1, <1>3, <2>1
<1>5. m = Whole => q = 0
  <2>1. m = Whole => s = 0
    BY DEF s, Whole
  <2>2. 0 \div D = 0
    BY <1>1
  <2> QED  BY <2>1, <2>2
<1> QED  BY <1>1, <1>2, <1>3, <1>4, <1>5 DEF s

(* The client goes on after an answer.                                     *)
LEMMA ReceiveEffect ==
    ASSUME DfsShapes, NEW c \in Clients, Receive(c),
           \/ response' = Closed
           \/ \E a, b : response' = SystemReply(a, b)
           \/ \E x \in Image : response' = FileReply(x)
    PROVE  /\ \A b \in Clients \ {c} : pc'[b] = pc[b] /\ reply'[b] = reply[b] /\ i'[b] = i[b]
           /\ pc' \in [Clients -> ClientPcs] /\ reply' \in [Clients -> Image \cup {NoImage}]
           /\ i' \in [Clients -> 0 .. MaxFileBlkCount]
           /\ \/ response' = Closed /\ pc'[c] = "spinning"
              \/ (\E a, b : response' = SystemReply(a, b)) /\ pc'[c] = "idle"
              \/ /\ \E x \in Image : response' = FileReply(x) /\ reply'[c] = x
                 /\ pc'[c] = "blocks" /\ i'[c] = range[c].start_addr \div DfsBlockSize
<1>1. range[c] \in Modifications \cup {Whole}
  BY DEF DfsShapes
<1>2. range[c].start_addr \div DfsBlockSize \in 0 .. MaxFileBlkCount
  BY <1>1, RangeFits
<1>3. /\ pc \in [Clients -> ClientPcs] /\ reply \in [Clients -> Image \cup {NoImage}]
      /\ i \in [Clients -> 0 .. MaxFileBlkCount]
  BY DEF DfsShapes
<1>4. CASE response' = Closed
  <2>1. response'.kind = "closed"
    BY <1>4 DEF Closed
  <2>2. pc' = [pc EXCEPT ![c] = "spinning"] /\ reply' = reply /\ i' = i
    BY <2>1 DEF Receive
  <2> QED  BY <1>3, <1>4, <2>2 DEF ClientPcs
<1>5. CASE \E a, b : response' = SystemReply(a, b)
  <2>1. response'.kind = "system"
    BY <1>5 DEF SystemReply
  <2>2. pc' = [pc EXCEPT ![c] = "idle"] /\ reply' = reply /\ i' = i
    BY <2>1 DEF Receive
  <2> QED  BY <1>3, <1>5, <2>2 DEF ClientPcs
<1>6. CASE \E x \in Image : response' = FileReply(x)
  <2>1. PICK x \in Image : response' = FileReply(x)
    BY <1>6
  <2>2. response'.kind = "file" /\ response'.query_result = x
    BY <2>1 DEF FileReply
  <2>3. /\ pc' = [pc EXCEPT ![c] = "blocks"] /\ reply' = [reply EXCEPT ![c] = x]
        /\ i' = [i EXCEPT ![c] = range[c].start_addr \div DfsBlockSize]
    BY <2>2 DEF Receive
  <2> QED  BY <1>2, <1>3, <2>1, <2>3 DEF ClientPcs
<1> QED  BY <1>4, <1>5, <1>6
-----------------------------------------------------------------------------
(* Blocks and files.                                                       *)
LEMMA PushContentIsContent ==
    ASSUME NEW file \in Seq(Bytes), NEW id \in Nat
    PROVE  PushContent(file, id) \in Content
<1>1. DfsBlockSize \in Nat \ {0} /\ Len(file) \in Nat /\ \A k \in 1 .. Len(file) : file[k] \in Bytes
  BY LimitsAssumption, ElementOfSeq, LenProperties
<1>2. ASSUME NEW k \in Offsets
      PROVE  (IF id * DfsBlockSize + k <= Len(file) THEN file[id * DfsBlockSize + k] ELSE Garbage)
                 \in Bytes
  <2> DEFINE at == id * DfsBlockSize + k
  <2>1. at \in Nat /\ at >= 1
    BY <1>1 DEF Offsets
  <2> HIDE DEF at
  <2>2. (IF at <= Len(file) THEN file[at] ELSE Garbage) \in Bytes
    BY <1>1, <2>1, FilesAssumption
  <2> QED  BY <2>2 DEF at
<1> QED  BY <1>2 DEF PushContent, Content

LEMMA ModifyContentIsContent ==
    ASSUME NEW file \in Seq(Bytes), NEW m \in Modifications \cup {Whole}, NEW k0 \in Nat
    PROVE  ModifyContent(file, m, k0) \in Content
<1>1. DfsBlockSize \in Nat \ {0} /\ Len(file) \in Nat /\ \A k \in 1 .. Len(file) : file[k] \in Bytes
  BY LimitsAssumption, ElementOfSeq, LenProperties
<1> DEFINE at(k) == k0 * DfsBlockSize + k
           byte(k) == IF at(k) > m.end_addr - m.start_addr + 1 THEN Garbage
                      ELSE IF m.start_addr + at(k) <= Len(file) THEN file[m.start_addr + at(k)]
                      ELSE Zero
<1>2. ASSUME NEW k \in Offsets  PROVE byte(k) \in Bytes
  <2>1. at(k) \in Nat /\ at(k) >= 1
    BY <1>1 DEF Offsets
  <2>2. m.start_addr + at(k) \in Nat /\ m.start_addr + at(k) >= 1
    <3> HIDE DEF at
    <3> QED  BY <2>1, RangeFits
  <2> DEFINE from == m.start_addr + at(k)
  <2>3. (IF from <= Len(file) THEN file[from] ELSE Zero) \in Bytes
    <3> HIDE DEF from
    <3>1. from \in Nat /\ from >= 1
      BY <2>2 DEF from
    <3> QED  BY <1>1, <3>1, FilesAssumption
  <2> HIDE DEF at
  <2> QED  BY <2>3, FilesAssumption
<1>3. ModifyContent(file, m, k0) = [k \in Offsets |-> byte(k)]
  BY DEF ModifyContent
<1> HIDE DEF byte
<1> QED  BY <1>2, <1>3 DEF Content

LEMMA WithBlockIsFile ==
    ASSUME NEW file \in Seq(Bytes), NEW id \in Nat, NEW content \in Content
    PROVE  WithBlock(file, id, content) \in Seq(Bytes)
<1> DEFINE start == id * DfsBlockSize
           end == (id + 1) * DfsBlockSize
           n == IF Len(file) > end THEN Len(file) ELSE end
           byte(at) == IF at > start /\ at <= end THEN content[at - start]
                       ELSE IF at <= Len(file) THEN file[at] ELSE Zero
<1>1. DfsBlockSize \in Nat \ {0} /\ Len(file) \in Nat /\ \A k \in 1 .. Len(file) : file[k] \in Bytes
  BY LimitsAssumption, ElementOfSeq, LenProperties
<1>2. start \in Nat /\ end \in Nat /\ end = start + DfsBlockSize
  BY <1>1
<1> HIDE DEF start, end
<1>3. n \in Nat
  BY <1>1, <1>2
<1>4. ASSUME NEW at \in 1 .. n  PROVE byte(at) \in Bytes
  <2>1. CASE at > start /\ at <= end
    <3>1. at - start \in Offsets
      BY <1>1, <1>2, <1>3, <2>1 DEF Offsets
    <3> QED  BY <2>1, <3>1 DEF Content
  <2>2. CASE ~(at > start /\ at <= end)
    <3>1. (IF at <= Len(file) THEN file[at] ELSE Zero) \in Bytes
      BY <1>1, <1>3, FilesAssumption
    <3> QED  BY <2>2, <3>1
  <2> QED  BY <2>1, <2>2
<1>5. WithBlock(file, id, content) = [at \in 1 .. n |-> byte(at)]
  BY DEF WithBlock, start, end
<1> HIDE DEF n, byte
<1>6. [at \in 1 .. n |-> byte(at)] \in [1 .. n -> Bytes]
  BY <1>4
<1>7. [at \in 1 .. n |-> byte(at)] \in Seq(Bytes)
  BY <1>3, <1>6, SeqDef
<1> QED  BY <1>5, <1>7

(* A client whose loop goes on is at a block of a list.                    *)
LEMMA LoopInList ==
    ASSUME DfsShapes, NEW c \in Clients, ClientInv(c), pc[c] = "blocks", HasMore(c)
    PROVE  /\ i[c] \in 0 .. MaxFileBlkCount - 1 /\ i[c] + 1 \in 0 .. MaxFileBlkCount
           /\ i[c] \in Nat /\ i[c] \in BlockNumbers
           /\ BlockOf(c) = reply[c].block_list[i[c]] /\ BlockOf(c) \in Block
           /\ BlockOf(c).block_id \in BlockNumbers
           /\ range[c].start_addr \div DfsBlockSize \in Nat
           /\ i[c] - range[c].start_addr \div DfsBlockSize \in Nat
           /\ asked[c].req_type # "modify" => i[c] < reply[c].blocknum
<1> DEFINE D == DfsBlockSize
           M == MaxFileBlkCount
           m == range[c]
           q == m.start_addr \div D
           j == i[c]
<1>1. /\ D \in Nat \ {0} /\ M \in Nat \ {0} /\ j \in 0 .. M /\ m \in Modifications \cup {Whole}
      /\ reply[c] \in Image /\ q <= j
  BY LimitsAssumption DEF DfsShapes, ClientInv
<1>2. /\ m.start_addr \in Nat /\ m.end_addr \in Nat /\ m.end_addr < M * D /\ q \in 0 .. M
      /\ D * q <= m.start_addr
  <2>1. m.start_addr \in Nat /\ m.end_addr \in Nat /\ m.end_addr < M * D /\ q \in 0 .. M
    BY <1>1, RangeFits
  <2>2. m.start_addr % D \in 0 .. D - 1 /\ m.start_addr = D * q + (m.start_addr % D)
    BY <1>1, <2>1, Division, Zenon
  <2>3. m.start_addr % D \in Nat /\ D * q \in Nat
    BY <1>1, <2>1, <2>2
  <2> HIDE DEF q
  <2>4. \A a, b, d \in Nat : a = b + d => b <= a
    OBVIOUS
  <2> QED  BY <2>1, <2>2, <2>3, <2>4
<1>3. IF asked[c].req_type = "modify" THEN (j - q) * D < m.end_addr - m.start_addr
      ELSE j < reply[c].blocknum
  BY DEF HasMore
<1> HIDE DEF m, q, j
<1>4. j < M
  <2>1. CASE asked[c].req_type = "modify"
    <3>1. (j - q) * D < m.end_addr - m.start_addr
      BY <1>3, <2>1
    <3>2. (j - q) * D = j * D - D * q
      BY <1>1, <1>2
    <3>3. j * D \in Nat /\ D * q \in Nat /\ M * D \in Nat
      BY <1>1, <1>2
    <3>4. j * D < M * D
      <4> DEFINE a == j * D
                 b == D * q
                 e == M * D
      <4>1. a - b < m.end_addr - m.start_addr /\ a \in Nat /\ b \in Nat /\ e \in Nat
        BY <3>1, <3>2, <3>3
      <4>2. b <= m.start_addr /\ m.end_addr < e
        BY <1>2
      <4> HIDE DEF a, b, e
      <4>3. a < e
        BY <1>2, <4>1, <4>2
      <4> QED  BY <4>3 DEF a, e
    <3> QED  BY <1>1, <3>4
  <2>2. CASE asked[c].req_type # "modify"
    <3>1. reply[c].blocknum \in 0 .. M
      BY <1>1 DEF Image
    <3> QED  BY <1>1, <1>3, <2>2, <3>1
  <2> QED  BY <2>1, <2>2
<1>5. j \in 0 .. M - 1 /\ j + 1 \in 0 .. M /\ j \in Nat /\ j \in 0 .. 2 * M /\ j - q \in Nat
      /\ q \in Nat
  BY <1>1, <1>2, <1>4
<1>6. j \in BlockIndices /\ j \in BlockNumbers
  BY <1>5 DEF BlockIndices, BlockNumbers
<1>7. reply[c].block_list[j] \in Block /\ BlockOf(c) = reply[c].block_list[j]
  <2>1. reply[c].block_list \in [BlockIndices -> Block]
    BY <1>1 DEF Image
  <2> QED  BY <1>6, <2>1 DEF BlockOf, j
<1>8. BlockOf(c).block_id \in BlockNumbers
  BY <1>7 DEF Block
<1> QED  BY <1>3, <1>5, <1>6, <1>7, <1>8 DEF j, q, m

LEMMA DatanodeIsThere ==
    ASSUME NEW block, DatanodeAt(block) # 0
    PROVE  DatanodeAt(block) \in Datanodes
<1> DEFINE there == {h \in Heartbeats : h.ip = block.loc_ip /\ h.port = block.loc_port
                                        /\ up[h.datanode_id]}
<1>1. there # {} /\ DatanodeAt(block) = (CHOOSE h \in there : TRUE).datanode_id
  BY DEF DatanodeAt
<1>2. (CHOOSE h \in there : TRUE) \in there
  BY <1>1
<1> QED  BY <1>1, <1>2 DEF Datanodes, Ids

(* A queue that a request joins, and one that a request leaves.            *)
LEMMA RequestJoins ==
    ASSUME DfsShapes, NEW d \in Datanodes, NEW m \in Message,
           m.op_type = 1 => m.content \in Content,
           queue' = [queue EXCEPT ![d] = Append(@, m)]
    PROVE  /\ queue' \in [Datanodes -> Seq(Message)]
           /\ \A e \in Datanodes :
                 /\ \A k \in DOMAIN queue'[e] :
                       \/ k \in DOMAIN queue[e] /\ queue'[e][k] = queue[e][k]
                       \/ e = d /\ k = Len(queue[d]) + 1 /\ queue'[e][k] = m
                 /\ \A k \in DOMAIN queue'[e] :
                       queue'[e][k].op_type = 1 => queue'[e][k].content \in Content
<1>1. queue \in [Datanodes -> Seq(Message)]
  BY DEF DfsShapes
<1> DEFINE s == queue[d]
<1>2. s \in Seq(Message)
  BY <1>1
<1> HIDE DEF s
<1>3. /\ Append(s, m) \in Seq(Message) /\ Len(Append(s, m)) = Len(s) + 1 /\ Len(s) \in Nat
      /\ DOMAIN s = 1 .. Len(s) /\ DOMAIN Append(s, m) = 1 .. Len(s) + 1
      /\ \A k \in 1 .. Len(s) : Append(s, m)[k] = s[k]
      /\ Append(s, m)[Len(s) + 1] = m
  BY <1>2, AppendProperties, LenProperties
<1>4. queue'[d] = Append(s, m) /\ \A e \in Datanodes \ {d} : queue'[e] = queue[e]
  BY <1>1 DEF s
<1>5. queue' \in [Datanodes -> Seq(Message)]
  BY <1>1, <1>3 DEF s
<1>6. \A k \in DOMAIN queue'[d] : (k \in DOMAIN s /\ queue'[d][k] = s[k])
                                  \/ (k = Len(s) + 1 /\ queue'[d][k] = m)
  BY <1>3, <1>4
<1>7. ASSUME NEW e \in Datanodes
      PROVE  \A k \in DOMAIN queue'[e] :
                 \/ k \in DOMAIN queue[e] /\ queue'[e][k] = queue[e][k]
                 \/ e = d /\ k = Len(queue[d]) + 1 /\ queue'[e][k] = m
  BY <1>4, <1>6 DEF s
<1>8. ASSUME NEW e \in Datanodes, NEW k \in DOMAIN queue'[e], queue'[e][k].op_type = 1
      PROVE  queue'[e][k].content \in Content
  BY <1>7, <1>8 DEF DfsShapes
<1> QED  BY <1>5, <1>7, <1>8

LEMMA RequestLeaves ==
    ASSUME DfsShapes, NEW d \in Datanodes, queue[d] # << >>,
           queue' = [queue EXCEPT ![d] = Rest(d)]
    PROVE  /\ 1 \in DOMAIN queue[d] /\ Request(d) = queue[d][1] /\ Request(d) \in Message
           /\ queue' \in [Datanodes -> Seq(Message)]
           /\ \A e \in Datanodes \ {d} : queue'[e] = queue[e]
           /\ \A k \in DOMAIN queue'[d] : /\ k \in Nat \ {0} /\ k + 1 \in DOMAIN queue[d]
                                          /\ queue'[d][k] = queue[d][k + 1]
<1>1. queue \in [Datanodes -> Seq(Message)]
  BY DEF DfsShapes
<1> DEFINE s == queue[d]
           n == Len(s) - 1
           t == [k \in 1 .. n |-> s[IF k < Oldest(d) THEN k ELSE k + 1]]
<1>2. /\ s \in Seq(Message) /\ DOMAIN s = 1 .. Len(s) /\ Len(s) \in Nat /\ Len(s) > 0
      /\ \A k \in 1 .. Len(s) : s[k] \in Message
  <2>1. s \in Seq(Message)
    BY <1>1
  <2> HIDE DEF s
  <2>2. s # << >>
    BY DEF s
  <2> QED  BY <2>1, <2>2, LenProperties, ElementOfSeq, EmptySeq
<1>3. queue'[d] = t /\ \A e \in Datanodes \ {d} : queue'[e] = queue[e]
  BY <1>1 DEF Rest
<1> HIDE DEF s
<1>4. n \in Nat /\ \A k \in 1 .. n : k \in Nat \ {0} /\ ~(k < 1) /\ k + 1 \in 1 .. Len(s)
  BY <1>2
<1>5. t = [k \in 1 .. n |-> s[k + 1]]
  BY <1>4 DEF Oldest
<1> HIDE DEF n, t
<1>6. t \in [1 .. n -> Message] /\ DOMAIN t = 1 .. n /\ \A k \in 1 .. n : t[k] = s[k + 1]
  BY <1>2, <1>4, <1>5
<1>7. t \in Seq(Message) /\ Len(t) = n
  BY <1>4, <1>6, SeqDef, LenProperties
<1>8. queue' \in [Datanodes -> Seq(Message)]
  <2>1. queue' = [queue EXCEPT ![d] = t]
    BY <1>1, <1>3
  <2> QED  BY <1>1, <1>7, <2>1
<1>9. 1 \in DOMAIN queue[d] /\ Request(d) = queue[d][1] /\ Request(d) \in Message
  BY <1>2 DEF s, Request, Oldest
<1>10. ASSUME NEW k \in DOMAIN queue'[d]
       PROVE  k \in Nat \ {0} /\ k + 1 \in DOMAIN queue[d] /\ queue'[d][k] = queue[d][k + 1]
  BY <1>2, <1>3, <1>4, <1>6 DEF s
<1> QED  BY <1>3, <1>8, <1>9, <1>10

(* A file whose blocks fit a list is no longer than the list.              *)
LEMMA FileFits ==
    ASSUME NEW n \in Nat, BlockCount(n) <= MaxFileBlkCount
    PROVE  n \in 0 .. MaxFileBlkCount * DfsBlockSize
<1> DEFINE D == DfsBlockSize
           M == MaxFileBlkCount
           a == n + (D - 1)
           q == a \div D
<1>1. D \in Nat \ {0} /\ M \in Nat /\ a \in Nat /\ M * D \in Nat
  BY LimitsAssumption
<1>2. a % D \in 0 .. D - 1 /\ q \in Nat /\ a = D * q + (a % D)
  BY <1>1, Division, Zenon
<1>3. q <= M
  BY DEF BlockCount
<1>4. D * q \in Nat /\ D * q <= M * D
  <2> HIDE DEF q
  <2> QED  BY <1>1, <1>2, <1>3
<1>5. n <= D * q
  <2> DEFINE p == D * q
             r == a % D
  <2>1. p \in Nat /\ r \in 0 .. D - 1 /\ n + (D - 1) = p + r
    BY <1>2, <1>4
  <2> HIDE DEF p, r
  <2>2. n <= p
    BY <1>1, <2>1
  <2> QED  BY <2>2 DEF p
<1> HIDE DEF q
<1>6. \A b, e \in Nat : n <= b /\ b <= e => n \in 0 .. e
  OBVIOUS
<1> QED  BY <1>1, <1>4, <1>5, <1>6
-----------------------------------------------------------------------------
(* Types, calls and reads together: what the steps keep.                   *)
BaseInv == DfsShapes /\ CallInv /\ ReadInv

LEMMA ClientStays ==
    ASSUME NEW b \in Clients, ClientInv(b), pc'[b] = pc[b], asked'[b] = asked[b],
           range'[b] = range[b], reply'[b] = reply[b], i'[b] = i[b], local'[b] = local[b]
    PROVE  ClientInv(b)'
  BY DEF ClientInv, FileAsked

(* While the queues stay, it is enough that who waits still waits.         *)
LEMMA ReadersStay ==
    ASSUME DfsShapes, ReadInv, queue' = queue,
           \A b \in Clients : pc[b] = "answer" =>
               pc'[b] = pc[b] /\ asked'[b] = asked[b] /\ reply'[b] = reply[b] /\ i'[b] = i[b]
    PROVE  ReadInv'
<1>1. ASSUME NEW d \in Datanodes, NEW k \in DOMAIN queue[d], queue[d][k].op_type = 0
      PROVE  ReadIsAwaited(queue[d][k])'
  <2>1. queue[d][k].client \in Clients
    <3>1. queue[d] \in Seq(Message)
      BY DEF DfsShapes
    <3>2. queue[d][k] \in Message
      BY <3>1, ElementOfSeq, LenProperties
    <3> QED  BY <3>2 DEF Message
  <2>2. ReadIsAwaited(queue[d][k])
    BY <1>1 DEF ReadInv
  <2> QED  BY <2>1, <2>2 DEF ReadIsAwaited
<1> QED  BY <1>1 DEF ReadInv

LEMMA ServedStays ==
    ASSUME ServedInv, UNCHANGED <<mpc, served, response>>,
           served \in Clients /\ pc[served] = "waiting" =>
               pc'[served] = pc[served] /\ asked'[served] = asked[served]
    PROVE  ServedInv'
  BY DEF ServedInv, Dealing

(* Any request that a call makes can arrive.                               *)
LEMMA RequestIsRequest ==
    ASSUME NEW type \in {"read", "write", "query", "modify"}, NEW name \in Names,
           NEW size \in 0 .. MaxFileBlkCount * DfsBlockSize
    PROVE  [req_type |-> type, file_name |-> name, file_size |-> size] \in Requests
  BY AskedAssumption

LEMMA AskKeepsBase ==
    ASSUME BaseInv, NEW c \in Clients, NEW type \in {"read", "write", "query", "modify"},
           NEW name \in Names, NEW size \in 0 .. MaxFileBlkCount * DfsBlockSize,
           NEW m \in (IF type = "modify" THEN Modifications ELSE {Whole}),
           Ask(c, type, name, size, m),
           local' \in [Clients -> [Names -> Seq(Bytes) \cup {NoFile}]],
           \A b \in Clients \ {c} : local'[b] = local[b],
           type # "query" => local'[c][name] \in Seq(Bytes),
           type = "read" => local'[c][name] = << >>,
           type = "write" => size = Len(local'[c][name])
    PROVE  BaseInv'
<1> DEFINE r == [req_type |-> type, file_name |-> name, file_size |-> size]
<1>1. /\ pc[c] = "idle" /\ asked' = [asked EXCEPT ![c] = r] /\ range' = [range EXCEPT ![c] = m]
      /\ pc' = [pc EXCEPT ![c] = "asking"]
      /\ UNCHANGED <<reply, i, up, queue, stored, served, mpc, response, original>>
  BY DEF Ask, datanodeVars, namenodeVars, mainVars
<1>2. r \in Requests /\ r.req_type = type /\ r.file_name = name /\ r.file_size = size
  BY RequestIsRequest
<1> HIDE DEF r
<1>3. DfsShapes'
  BY <1>1, <1>2 DEF BaseInv, DfsShapes, ClientPcs
<1>4. /\ pc'[c] = "asking" /\ asked'[c] = r /\ range'[c] = m
      /\ \A b \in Clients \ {c} : pc'[b] = pc[b] /\ asked'[b] = asked[b] /\ range'[b] = range[b]
  BY <1>1 DEF BaseInv, DfsShapes
<1>5. ASSUME NEW b \in Clients  PROVE ClientInv(b)'
  <2>1. CASE b = c
    BY <1>2, <1>4, <2>1 DEF ClientInv, FileAsked
  <2>2. CASE b # c
    BY <1>1, <1>4, <2>2, ClientStays DEF BaseInv, CallInv
  <2> QED  BY <2>1, <2>2
<1>6. ServedInv'
  BY <1>1, <1>4, ServedStays DEF BaseInv, CallInv
<1>7. ReadInv'
  BY <1>1, <1>4, ReadersStay DEF BaseInv
<1> QED  BY <1>3, <1>5, <1>6, <1>7 DEF BaseInv, CallInv

LEMMA BeginsKeepBase ==
    ASSUME BaseInv, NEW c \in Clients, NEW name \in Names,
           \/ push_file(c, name) \/ pull_file(c, name) \/ get_system_info(c)
           \/ \E m \in Modifications : modify_file(c, name, m)
    PROVE  BaseInv'
<1>1. local \in [Clients -> [Names -> Seq(Bytes) \cup {NoFile}]]
  BY DEF BaseInv, DfsShapes
<1>2. 0 \in 0 .. MaxFileBlkCount * DfsBlockSize
  BY LimitsAssumption, AtLeast
<1>3. CASE push_file(c, name)
  <2> DEFINE n == Len(local[c][name])
  <2>1. /\ local[c][name] \in Seq(Bytes) /\ BlockCount(n) <= MaxFileBlkCount
        /\ Ask(c, "write", name, n, Whole) /\ local' = local
    BY <1>1, <1>3 DEF push_file
  <2>2. n \in Nat
    BY <2>1, LenProperties
  <2> HIDE DEF n
  <2>3. n \in 0 .. MaxFileBlkCount * DfsBlockSize
    BY <2>1, <2>2, FileFits
  <2>4. n = Len(local'[c][name])
    BY <2>1 DEF n
  <2> QED  BY <1>1, <2>1, <2>3, <2>4, AskKeepsBase
<1>4. CASE pull_file(c, name)
  <2>1. << >> \in Seq(Bytes)
    BY EmptySeq
  <2>2. Ask(c, "read", name, 0, Whole) /\ local' = [local EXCEPT ![c][name] = << >>]
    BY <1>4 DEF pull_file
  <2>3. /\ local' \in [Clients -> [Names -> Seq(Bytes) \cup {NoFile}]]
        /\ \A b \in Clients \ {c} : local'[b] = local[b]
        /\ local'[c][name] = << >>
    BY <1>1, <2>1, <2>2
  <2> QED  BY <1>2, <2>1, <2>2, <2>3, AskKeepsBase
<1>5. CASE get_system_info(c)
  <2>1. PICK x \in Names : Ask(c, "query", x, 0, Whole) /\ local' = local
    BY <1>5 DEF get_system_info
  <2> QED  BY <1>1, <1>2, <2>1, AskKeepsBase
<1>6. CASE \E m \in Modifications : modify_file(c, name, m)
  <2>1. PICK m \in Modifications : modify_file(c, name, m)
    BY <1>6
  <2>2. /\ local[c][name] \in Seq(Bytes) /\ Ask(c, "modify", name, m.file_size, m)
        /\ local' = local
    BY <1>1, <2>1 DEF modify_file
  <2>3. m.file_size \in 0 .. MaxFileBlkCount * DfsBlockSize
    BY RangesAssumption
  <2> QED  BY <1>1, <2>2, <2>3, AskKeepsBase
<1> QED  BY <1>3, <1>4, <1>5, <1>6

(* The namenode accepts a client.                                          *)
LEMMA ConnectEffect ==
    ASSUME IInv, BaseInv, NEW c \in Clients, Connect(c)
    PROVE  /\ pc[c] = "asking" /\ Accept(asked[c]) /\ served' = c
           /\ UNCHANGED <<asked, range, local, up, queue, stored>>
           /\ asked[c] \in Requests /\ asked[c].file_name \in Names
           /\ asked[c].req_type \in {"read", "write", "query", "modify"}
           /\ mpc' \in {"accept", "dn_id", "list"}
           /\ mpc' = "dn_id" => asked[c].req_type \in {"write", "modify"}
           /\ mpc' = "list" => asked[c].req_type = "query" /\ response' = SystemReply(dncnt, << >>)
           /\ \A b \in Clients \ {c} : pc'[b] = pc[b] /\ reply'[b] = reply[b] /\ i'[b] = i[b]
           /\ pc' \in [Clients -> ClientPcs] /\ reply' \in [Clients -> Image \cup {NoImage}]
           /\ i' \in [Clients -> 0 .. MaxFileBlkCount]
           /\ \/ mpc' = "accept" /\ pc'[c] = "spinning"
              \/ /\ mpc' = "accept" /\ pc'[c] = "blocks" /\ asked[c].req_type \in {"read", "modify"}
                 /\ reply'[c] \in Image /\ i'[c] = range[c].start_addr \div DfsBlockSize
                 /\ \E x \in Images : /\ file_images[x] # Null /\ reply'[c] = file_images[x]
                                      /\ file_images[x].filename = asked[c].file_name
              \/ /\ mpc' # "accept" /\ pc'[c] = "waiting" /\ reply'[c] = reply[c] /\ i'[c] = i[c]
<1> DEFINE r == asked[c]
           Found(y) == \E x \in Images : /\ file_images[x] # Null /\ y = file_images[x]
                                        /\ file_images[x].filename = r.file_name
<1>1. /\ pc[c] = "asking" /\ Accept(r) /\ served' = c
      /\ UNCHANGED <<asked, range, local, up, queue, stored>>
      /\ mpc' = "accept" => Receive(c)
      /\ mpc' # "accept" => pc' = [pc EXCEPT ![c] = "waiting"] /\ reply' = reply /\ i' = i
  BY DEF Connect, datanodeVars
<1>2. /\ r \in Requests /\ r.req_type \in {"read", "write", "query", "modify"}
      /\ r.file_name \in Names
  BY <1>1, RequestFits DEF BaseInv, CallInv, ClientInv
<1>3. /\ \/ mpc' = "accept" /\ response' = Closed
         \/ /\ mpc' = "accept" /\ r.req_type \in {"read", "modify"}
            /\ \E y \in Image : response' = FileReply(y) /\ Found(y)
         \/ mpc' = "dn_id" /\ r.req_type \in {"write", "modify"}
         \/ mpc' = "list" /\ r.req_type = "query" /\ response' = SystemReply(dncnt, << >>)
  BY <1>1, <1>2, AcceptEffect, ImagesAreImages
<1> HIDE DEF r, Found
<1>4. CASE mpc' = "accept"
  <2>1. \/ response' = Closed
        \/ /\ r.req_type \in {"read", "modify"}
           /\ \E y \in Image : response' = FileReply(y) /\ Found(y)
    BY <1>3, <1>4
  <2>2. /\ \A b \in Clients \ {c} : pc'[b] = pc[b] /\ reply'[b] = reply[b] /\ i'[b] = i[b]
        /\ pc' \in [Clients -> ClientPcs] /\ reply' \in [Clients -> Image \cup {NoImage}]
        /\ i' \in [Clients -> 0 .. MaxFileBlkCount]
        /\ \/ response' = Closed /\ pc'[c] = "spinning"
           \/ (\E a, b : response' = SystemReply(a, b)) /\ pc'[c] = "idle"
           \/ /\ \E x \in Image : response' = FileReply(x) /\ reply'[c] = x
              /\ pc'[c] = "blocks" /\ i'[c] = range[c].start_addr \div DfsBlockSize
    BY <1>1, <1>4, <2>1, ReceiveEffect DEF BaseInv
  <2>3. ~(\E a, b : response' = SystemReply(a, b))
    BY <2>1 DEF SystemReply, FileReply, Closed
  <2>4. CASE response' = Closed
    <3>1. \A x : response' # FileReply(x)
      BY <2>4 DEF FileReply, Closed
    <3> QED  BY <1>1, <1>2, <1>4, <2>2, <2>3, <3>1 DEF r
  <2>5. CASE /\ r.req_type \in {"read", "modify"}
             /\ \E y \in Image : response' = FileReply(y) /\ Found(y)
    <3>1. PICK y \in Image : response' = FileReply(y) /\ Found(y)
      BY <2>5
    <3>2. response' # Closed /\ \A x : response' = FileReply(x) => x = y
      BY <3>1 DEF FileReply, Closed
    <3>3. pc'[c] = "blocks" /\ i'[c] = range[c].start_addr \div DfsBlockSize /\ reply'[c] = y
      BY <2>2, <2>3, <3>2
    <3> QED  BY <1>1, <1>2, <1>4, <2>2, <2>5, <3>1, <3>3 DEF r, Found
  <2> QED  BY <2>1, <2>4, <2>5
<1>5. CASE mpc' # "accept"
  <2>1. /\ \A b \in Clients \ {c} : pc'[b] = pc[b] /\ reply'[b] = reply[b] /\ i'[b] = i[b]
        /\ pc' \in [Clients -> ClientPcs] /\ reply' \in [Clients -> Image \cup {NoImage}]
        /\ i' \in [Clients -> 0 .. MaxFileBlkCount]
        /\ pc'[c] = "waiting" /\ reply'[c] = reply[c] /\ i'[c] = i[c]
    BY <1>1, <1>5 DEF BaseInv, DfsShapes, ClientPcs
  <2> QED  BY <1>1, <1>2, <1>3, <1>5, <2>1 DEF r
<1> QED  BY <1>4, <1>5

LEMMA ConnectKeepsBase ==
    ASSUME IInv, BaseInv, NEW c \in Clients, Connect(c)
    PROVE  BaseInv'
<1> DEFINE r == asked[c]
<1>1. /\ pc[c] = "asking" /\ Accept(r) /\ served' = c
      /\ UNCHANGED <<asked, range, local, up, queue, stored>>
  BY ConnectEffect
<1>2. /\ r \in Requests /\ r.req_type \in {"read", "write", "query", "modify"}
      /\ r.file_name \in Names
  BY ConnectEffect
<1>3. /\ mpc' \in {"accept", "dn_id", "list"}
      /\ mpc' = "dn_id" => r.req_type \in {"write", "modify"}
      /\ mpc' = "list" => r.req_type = "query" /\ response' = SystemReply(dncnt, << >>)
  BY ConnectEffect
<1> HIDE DEF r
<1>4. /\ \A b \in Clients \ {c} : pc'[b] = pc[b] /\ reply'[b] = reply[b] /\ i'[b] = i[b]
      /\ pc' \in [Clients -> ClientPcs] /\ reply' \in [Clients -> Image \cup {NoImage}]
      /\ i' \in [Clients -> 0 .. MaxFileBlkCount]
      /\ \/ mpc' = "accept" /\ pc'[c] = "spinning"
         \/ /\ mpc' = "accept" /\ pc'[c] = "blocks" /\ r.req_type \in {"read", "modify"}
            /\ reply'[c] \in Image /\ i'[c] = range[c].start_addr \div DfsBlockSize
         \/ /\ mpc' # "accept" /\ pc'[c] = "waiting" /\ reply'[c] = reply[c] /\ i'[c] = i[c]
  BY ConnectEffect DEF r
<1>5. original' \in [Names -> History]
  <2> DEFINE name == r.file_name
             first == [content |-> local[c][name], by |-> c, state |-> "sending"]
             mixed == [original[name] EXCEPT !.state = "mixed"]
  <2>1. original \in [Names -> History]
    BY DEF BaseInv, DfsShapes
  <2>2. mixed \in History
    BY <1>2, <2>1 DEF History
  <2>3. r.req_type = "write" => first \in History
    <3>1. r.req_type = "write" => local[c][name] \in Seq(Bytes)
      BY <1>1 DEF BaseInv, CallInv, ClientInv, FileAsked, r
    <3> QED  BY <3>1 DEF History
  <2>4. \/ original' = original
        \/ original' = [original EXCEPT ![name] = mixed]
        \/ r.req_type = "write" /\ original' = [original EXCEPT ![name] = first]
    BY <2>1, <1>2 DEF Connect, r
  <2> HIDE DEF mixed, first
  <2> QED  BY <2>1, <2>2, <2>3, <2>4
<1>6. DfsShapes'
  BY <1>1, <1>4, <1>5 DEF BaseInv, DfsShapes
<1>7. ASSUME NEW b \in Clients  PROVE ClientInv(b)'
  <2>1. CASE b # c
    BY <1>1, <1>4, <2>1, ClientStays DEF BaseInv, CallInv
  <2>2. CASE b = c
    <3>1. ClientInv(c) /\ asked'[c] = asked[c] /\ range'[c] = range[c] /\ local'[c] = local[c]
          /\ pc'[c] \in {"spinning", "blocks", "waiting"}
      BY <1>1, <1>4 DEF BaseInv, CallInv
    <3>2. pc'[c] = "waiting" => r.req_type # "read"
      BY <1>3, <1>4
    <3>3. pc'[c] = "blocks" => reply'[c] \in Image
                               /\ range[c].start_addr \div DfsBlockSize <= i'[c]
      <4>1. range[c] \in Modifications \cup {Whole}
        BY DEF BaseInv, DfsShapes
      <4>2. range[c].start_addr \div DfsBlockSize \in 0 .. MaxFileBlkCount
        BY <4>1, RangeFits
      <4> QED  BY <1>4, <4>2, LimitsAssumption
    <3> QED  BY <1>1, <2>2, <3>1, <3>2, <3>3 DEF ClientInv, FileAsked, r
  <2> QED  BY <2>1, <2>2
<1>8. ServedInv'
  <2>1. mpc' \in {"accept", "dn_id", "list"} /\ served' = c /\ asked'[c] = r
    BY <1>1, <1>3 DEF r
  <2>2. mpc' # "accept" => pc'[c] = "waiting"
    BY <1>4
  <2>3. mpc' \in Dealing => r.req_type \in {"write", "modify"}
    BY <1>3 DEF Dealing
  <2>4. mpc' = "list" => response' = SystemReply(response'.datanode_num, response'.datanodes)
    BY <1>3 DEF SystemReply
  <2> QED  BY <2>1, <2>2, <2>3, <2>4 DEF ServedInv, Dealing
<1>9. ReadInv'
  BY <1>1, <1>4, ReadersStay DEF BaseInv
<1> QED  BY <1>6, <1>7, <1>8, <1>9 DEF BaseInv, CallInv

(* The namenode works on; its client gets the answer.                      *)
LEMMA WorksEffect ==
    ASSUME IInv, BaseInv, NamenodeWorks, mpc' # "crashed"
    PROVE  /\ UNCHANGED <<served, asked, range, local, up, queue, stored, original>>
           /\ \A b \in Clients :
                 b # served => pc'[b] = pc[b] /\ reply'[b] = reply[b] /\ i'[b] = i[b]
           /\ pc' \in [Clients -> ClientPcs] /\ reply' \in [Clients -> Image \cup {NoImage}]
           /\ i' \in [Clients -> 0 .. MaxFileBlkCount]
           /\ \/ /\ pc' = pc /\ reply' = reply /\ i' = i
                 /\ mpc = "safe_mode" /\ mpc' = "accept" /\ served = Nobody
              \/ /\ pc' = pc /\ reply' = reply /\ i' = i
                 /\ mpc \in Dealing /\ mpc' \in Dealing
              \/ /\ pc' = pc /\ reply' = reply /\ i' = i /\ mpc = "list" /\ mpc' = "list"
                 /\ response' = SystemReply(response'.datanode_num, response'.datanodes)
              \/ /\ mpc = "list" /\ mpc' = "accept" /\ served \in Clients /\ pc'[served] = "idle"
              \/ /\ mpc \in Dealing /\ mpc' = "accept" /\ served \in Clients
                 /\ pc[served] = "waiting" /\ pc'[served] = "blocks" /\ reply'[served] \in Image
                 /\ i'[served] = range[served].start_addr \div DfsBlockSize
                 /\ asked[served].req_type \in {"write", "modify"}
<1>1. /\ MainStep
      /\ IF mpc' = "accept" /\ served # Nobody THEN Receive(served)
         ELSE pc' = pc /\ reply' = reply /\ i' = i
      /\ UNCHANGED <<served, asked, range, local, up, queue, stored, original>>
  BY DEF NamenodeWorks, datanodeVars
<1>2. ServedInv /\ DfsShapes
  BY DEF BaseInv, CallInv
<1>3. /\ pc \in [Clients -> ClientPcs] /\ reply \in [Clients -> Image \cup {NoImage}]
      /\ i \in [Clients -> 0 .. MaxFileBlkCount]
  BY <1>2 DEF DfsShapes
<1>4. \/ mpc = "safe_mode" /\ mpc' = "accept"
      \/ mpc \in Dealing /\ mpc' \in Dealing
      \/ /\ mpc \in Dealing /\ mpc' = "accept" /\ \E x \in Image : response' = FileReply(x)
      \/ /\ mpc = "list" /\ mpc' \in {"list", "accept"}
         /\ response' = SystemReply(response'.datanode_num, response'.datanodes)
  BY <1>1, <1>2, MainStepEffect
<1>5. CASE mpc = "safe_mode" /\ mpc' = "accept"
  <2>1. served = Nobody
    BY <1>2, <1>5 DEF ServedInv
  <2> QED  BY <1>1, <1>3, <1>5, <2>1
<1>6. CASE mpc \in Dealing \cup {"list"} /\ mpc' # "accept"
  <2>1. mpc # "safe_mode" /\ ~("list" \in Dealing) /\ ~("accept" \in Dealing)
    BY <1>6 DEF Dealing
  <2> QED  BY <1>1, <1>3, <1>4, <1>6, <2>1
<1>7. CASE mpc \in Dealing \cup {"list"} /\ mpc' = "accept"
  <2>1. served \in Clients /\ served # Nobody /\ pc[served] = "waiting"
        /\ (mpc \in Dealing => asked[served].req_type \in {"write", "modify"})
    BY <1>2, <1>7, NobodyAssumption DEF ServedInv
  <2>2. Receive(served)
    BY <1>1, <1>7, <2>1
  <2>3. \/ mpc \in Dealing /\ \E x \in Image : response' = FileReply(x)
        \/ mpc = "list" /\ \E a, b : response' = SystemReply(a, b)
    BY <1>4, <1>7 DEF Dealing
  <2>4. /\ \A b \in Clients \ {served} : pc'[b] = pc[b] /\ reply'[b] = reply[b] /\ i'[b] = i[b]
        /\ pc' \in [Clients -> ClientPcs] /\ reply' \in [Clients -> Image \cup {NoImage}]
        /\ i' \in [Clients -> 0 .. MaxFileBlkCount]
        /\ \/ response' = Closed /\ pc'[served] = "spinning"
           \/ (\E a, b : response' = SystemReply(a, b)) /\ pc'[served] = "idle"
           \/ /\ \E x \in Image : response' = FileReply(x) /\ reply'[served] = x
              /\ pc'[served] = "blocks"
              /\ i'[served] = range[served].start_addr \div DfsBlockSize
    BY <1>2, <2>1, <2>2, <2>3, ReceiveEffect
  <2>5. /\ \A a, b : response' = SystemReply(a, b) => response'.kind = "system"
        /\ \A x : response' = FileReply(x) => response'.kind = "file"
        /\ response' = Closed => response'.kind = "closed"
    BY DEF SystemReply, FileReply, Closed
  <2> QED  BY <1>1, <1>7, <2>1, <2>3, <2>4, <2>5
<1> QED  BY <1>4, <1>5, <1>6, <1>7

LEMMA WorksKeepsBase ==
    ASSUME IInv, BaseInv, NamenodeWorks, mpc' # "crashed"
    PROVE  BaseInv'
<1>1. /\ UNCHANGED <<served, asked, range, local, up, queue, stored, original>>
      /\ \A b \in Clients : b # served => pc'[b] = pc[b] /\ reply'[b] = reply[b] /\ i'[b] = i[b]
      /\ pc' \in [Clients -> ClientPcs] /\ reply' \in [Clients -> Image \cup {NoImage}]
      /\ i' \in [Clients -> 0 .. MaxFileBlkCount]
  BY WorksEffect
<1>2. DfsShapes'
  BY <1>1 DEF BaseInv, DfsShapes
<1>3. CASE /\ pc' = pc /\ reply' = reply /\ i' = i
           /\ \/ mpc = "safe_mode" /\ mpc' = "accept" /\ served = Nobody
              \/ mpc \in Dealing /\ mpc' \in Dealing
              \/ mpc = "list" /\ mpc' = "list"
                 /\ response' = SystemReply(response'.datanode_num, response'.datanodes)
  <2>1. \A b \in Clients : ClientInv(b)'
    BY <1>1, <1>3, ClientStays DEF BaseInv, CallInv
  <2>2. ServedInv'
    BY <1>1, <1>3 DEF BaseInv, CallInv, ServedInv, Dealing
  <2>3. ReadInv'
    BY <1>1, <1>3, ReadersStay DEF BaseInv
  <2> QED  BY <1>2, <2>1, <2>2, <2>3 DEF BaseInv, CallInv
<1>4. CASE /\ mpc' = "accept" /\ served \in Clients /\ pc[served] = "waiting"
           /\ \/ pc'[served] = "idle"
              \/ /\ pc'[served] = "blocks" /\ reply'[served] \in Image
                 /\ i'[served] = range[served].start_addr \div DfsBlockSize
  <2>1. ASSUME NEW b \in Clients  PROVE ClientInv(b)'
    <3>1. CASE b # served
      BY <1>1, <2>1, <3>1, ClientStays DEF BaseInv, CallInv
    <3>2. CASE b = served
      <4>1. range[b] \in Modifications \cup {Whole}
        BY DEF BaseInv, DfsShapes
      <4>2. range[b].start_addr \div DfsBlockSize \in 0 .. MaxFileBlkCount
        BY <4>1, RangeFits
      <4>3. range[b].start_addr \div DfsBlockSize <= range[b].start_addr \div DfsBlockSize
        BY <4>2, LimitsAssumption
      <4>4. ClientInv(b)
        BY DEF BaseInv, CallInv
      <4> QED  BY <1>1, <1>4, <3>2, <4>3, <4>4 DEF ClientInv, FileAsked
    <3> QED  BY <3>1, <3>2
  <2>2. ServedInv'
    BY <1>4 DEF ServedInv, Dealing
  <2>3. ReadInv'
    BY <1>1, <1>4, ReadersStay DEF BaseInv
  <2> QED  BY <1>2, <2>1, <2>2, <2>3 DEF BaseInv, CallInv
<1> QED
  <2>1. mpc \in Dealing \cup {"list"} => pc[served] = "waiting"
    BY DEF BaseInv, CallInv, ServedInv
  <2> QED  BY <1>3, <1>4, <2>1, WorksEffect

(* When the namenode crashes, whoever it has a connection of never hears   *)
(* from it.                                                                *)
LEMMA CrashEffect ==
    ASSUME BaseInv, NamenodeWorks, mpc' = "crashed"
    PROVE  /\ UNCHANGED <<served, asked, range, reply, i, local, up, queue, stored, original,
                          file_images, file_image, first_id>>
           /\ pc' \in [Clients -> ClientPcs]
           /\ \A c \in Clients :
                 \/ pc'[c] = pc[c]
                 \/ pc[c] \in {"asking", "waiting"} /\ pc'[c] = "spinning"
<1>1. LoseConnections
      /\ UNCHANGED <<served, asked, range, local, up, queue, stored, original>>
  BY DEF NamenodeWorks, datanodeVars
<1>2. UNCHANGED <<file_images, file_image, first_id>>
  BY DEF NamenodeWorks, MainStep, LeaveSafeMode, AssignId, AssignIp, AssignPort,
         AnswerAssignment, Answer, ListDatanode, AnswerList, Crash, loopVars
<1>3. pc \in [Clients -> ClientPcs]
  BY DEF BaseInv, DfsShapes
<1> QED  BY <1>1, <1>2, <1>3 DEF LoseConnections, ClientPcs

LEMMA CrashKeepsBase ==
    ASSUME BaseInv, NamenodeWorks, mpc' = "crashed"
    PROVE  BaseInv'
<1>1. /\ UNCHANGED <<served, asked, range, reply, i, local, up, queue, stored, original>>
      /\ pc' \in [Clients -> ClientPcs]
      /\ \A c \in Clients :
            \/ pc'[c] = pc[c]
            \/ pc[c] \in {"asking", "waiting"} /\ pc'[c] = "spinning"
  BY CrashEffect
<1>2. DfsShapes'
  BY <1>1 DEF BaseInv, DfsShapes
<1>3. ASSUME NEW b \in Clients  PROVE ClientInv(b)'
  <2>1. CASE pc'[b] = pc[b]
    BY <1>1, <2>1, ClientStays DEF BaseInv, CallInv
  <2>2. CASE pc[b] \in {"asking", "waiting"} /\ pc'[b] = "spinning"
    BY <1>1, <2>2 DEF BaseInv, CallInv, ClientInv
  <2> QED  BY <1>1, <2>1, <2>2
<1>4. ServedInv'
  BY DEF ServedInv, Dealing
<1>5. ReadInv'
  <2>1. \A b \in Clients : pc[b] = "answer" => pc'[b] = pc[b]
    BY <1>1
  <2> QED  BY <1>1, <2>1, ReadersStay DEF BaseInv
<1> QED  BY <1>2, <1>3, <1>4, <1>5 DEF BaseInv, CallInv
-----------------------------------------------------------------------------
(* The clients' loops.                                                     *)
LEMMA QueuedIsMessage ==
    ASSUME DfsShapes, NEW d \in Datanodes, NEW k \in DOMAIN queue[d]
    PROVE  queue[d][k] \in Message
<1>1. queue[d] \in Seq(Message)
  BY DEF DfsShapes
<1> QED  BY <1>1, ElementOfSeq, LenProperties

LEMMA SendBlockEffect ==
    ASSUME BaseInv, NEW c \in Clients, SendBlock(c)
    PROVE  \E d \in Datanodes, m \in Message :
              /\ m.op_type = 1 /\ m.content \in Content
              /\ m.owner_name = asked[c].file_name
              /\ asked[c].req_type = "write" =>
                    m.content = PushContent(local[c][asked[c].file_name], m.block_id)
              /\ queue' = [queue EXCEPT ![d] = Append(@, m)]
<1> DEFINE name == asked[c].file_name
           file == local[c][name]
           d == DatanodeAt(BlockOf(c))
           first == range[c].start_addr \div DfsBlockSize
           id == BlockOf(c).block_id
           pushed == [client |-> c, op_type |-> 1, owner_name |-> name, block_id |-> id,
                      content |-> PushContent(file, id)]
           modified == [client |-> c, op_type |-> 1, owner_name |-> name, block_id |-> i[c],
                        content |-> ModifyContent(file, range[c], i[c] - first)]
<1>1. /\ pc[c] = "blocks" /\ asked[c].req_type \in {"write", "modify"} /\ HasMore(c) /\ d # 0
      /\ ClientInv(c) /\ DfsShapes
  BY DEF SendBlock, BaseInv, CallInv
<1>2. d \in Datanodes
  BY <1>1, DatanodeIsThere
<1>3. file \in Seq(Bytes) /\ name \in Names /\ range[c] \in Modifications \cup {Whole}
  <2>1. asked[c] \in Requests /\ file \in Seq(Bytes)
    BY <1>1 DEF ClientInv, FileAsked
  <2> QED  BY <2>1, <1>1, RequestFits DEF DfsShapes
<1>4. i[c] \in BlockNumbers /\ i[c] \in Nat /\ id \in BlockNumbers /\ id \in Nat
      /\ i[c] - first \in Nat
  <2>1. i[c] \in BlockNumbers /\ i[c] \in Nat /\ id \in BlockNumbers /\ i[c] - first \in Nat
    BY <1>1, LoopInList
  <2> QED  BY <2>1, LimitsAssumption DEF BlockNumbers
<1> HIDE DEF name, file, d, first, id
<1>5. PushContent(file, id) \in Content /\ ModifyContent(file, range[c], i[c] - first) \in Content
  BY <1>3, <1>4, PushContentIsContent, ModifyContentIsContent
<1>6. pushed \in Message /\ modified \in Message
  BY <1>3, <1>4, <1>5 DEF Message
<1>7. \/ asked[c].req_type = "write" /\ Send(c, d, 1, id, PushContent(file, id))
      \/ asked[c].req_type = "modify"
         /\ Send(c, d, 1, i[c], ModifyContent(file, range[c], i[c] - first))
  BY DEF SendBlock, name, file, d, first, id
<1>8. CASE asked[c].req_type = "write" /\ Send(c, d, 1, id, PushContent(file, id))
  <2>1. queue' = [queue EXCEPT ![d] = Append(@, pushed)]
    BY <1>8 DEF Send, name
  <2>2. /\ pushed.op_type = 1 /\ pushed.content \in Content /\ pushed.owner_name = name
        /\ pushed.content = PushContent(file, pushed.block_id)
    BY <1>5
  <2> HIDE DEF pushed
  <2> QED  BY <1>2, <1>6, <2>1, <2>2 DEF name, file
<1>9. CASE asked[c].req_type = "modify"
           /\ Send(c, d, 1, i[c], ModifyContent(file, range[c], i[c] - first))
  <2>1. queue' = [queue EXCEPT ![d] = Append(@, modified)]
    BY <1>9 DEF Send, name
  <2>2. modified.op_type = 1 /\ modified.content \in Content /\ modified.owner_name = name
    BY <1>5
  <2> HIDE DEF modified
  <2> QED  BY <1>2, <1>6, <1>9, <2>1, <2>2 DEF name
<1> QED  BY <1>7, <1>8, <1>9

LEMMA SendBlockKeepsBase ==
    ASSUME BaseInv, NEW c \in Clients, SendBlock(c)
    PROVE  BaseInv'
<1>1. /\ pc[c] = "blocks" /\ HasMore(c) /\ i' = [i EXCEPT ![c] = @ + 1]
      /\ UNCHANGED <<pc, asked, range, reply, local, up, stored, original, served, mpc, response>>
  BY DEF SendBlock, Send, namenodeVars, mainVars
<1>2. PICK d \in Datanodes, m \in Message :
         /\ m.op_type = 1 /\ m.content \in Content
         /\ queue' = [queue EXCEPT ![d] = Append(@, m)]
  BY SendBlockEffect
<1>3. /\ queue' \in [Datanodes -> Seq(Message)]
      /\ \A e \in Datanodes :
            /\ \A k \in DOMAIN queue'[e] :
                  \/ k \in DOMAIN queue[e] /\ queue'[e][k] = queue[e][k]
                  \/ e = d /\ k = Len(queue[d]) + 1 /\ queue'[e][k] = m
            /\ \A k \in DOMAIN queue'[e] :
                  queue'[e][k].op_type = 1 => queue'[e][k].content \in Content
  BY <1>2, RequestJoins DEF BaseInv
<1>4. i[c] + 1 \in 0 .. MaxFileBlkCount /\ i[c] \in Nat
      /\ range[c].start_addr \div DfsBlockSize \in Nat
  BY <1>1, LoopInList DEF BaseInv, CallInv
<1>5. DfsShapes'
  BY <1>1, <1>3, <1>4 DEF BaseInv, DfsShapes
<1>6. \A b \in Clients : i'[b] = IF b = c THEN i[c] + 1 ELSE i[b]
  BY <1>1 DEF BaseInv, DfsShapes
<1>7. ASSUME NEW b \in Clients  PROVE ClientInv(b)'
  <2>1. CASE b # c
    BY <1>1, <1>6, <2>1, ClientStays DEF BaseInv, CallInv
  <2>2. CASE b = c
    <3>1. ClientInv(c)
      BY DEF BaseInv, CallInv
    <3>2. range[c].start_addr \div DfsBlockSize <= i[c]
      BY <1>1, <3>1 DEF ClientInv
    <3>3. range[c].start_addr \div DfsBlockSize <= i[c] + 1
      BY <1>4, <3>2
    <3> QED  BY <1>1, <1>6, <2>2, <3>1, <3>3 DEF ClientInv, FileAsked
  <2> QED  BY <2>1, <2>2
<1>8. ServedInv'
  BY <1>1, ServedStays DEF BaseInv, CallInv
<1>9. ReadInv'
  <2>1. ASSUME NEW e \in Datanodes, NEW k \in DOMAIN queue'[e], queue'[e][k].op_type = 0
        PROVE  k \in DOMAIN queue[e] /\ queue'[e][k] = queue[e][k]
    BY <1>2, <1>3, <2>1
  <2>2. ASSUME NEW e \in Datanodes, NEW k \in DOMAIN queue[e], queue[e][k].op_type = 0
        PROVE  ReadIsAwaited(queue[e][k])'
    <3>1. ReadIsAwaited(queue[e][k]) /\ queue[e][k].client \in Clients
      BY <2>2, QueuedIsMessage DEF BaseInv, ReadInv, Message
    <3>2. queue[e][k].client # c
      BY <1>1, <3>1 DEF ReadIsAwaited
    <3>3. queue'[e][k] = queue[e][k] => ReadIsAwaited(queue[e][k])'
      BY <1>1, <1>6, <3>1, <3>2 DEF ReadIsAwaited
    <3>4. queue'[e][k] = queue[e][k]
      <4>1. queue[e] \in Seq(Message) /\ DOMAIN queue[e] = 1 .. Len(queue[e])
        BY LenProperties DEF BaseInv, DfsShapes
      <4>2. CASE e = d
        <5>1. Append(queue[e], m)[k] = queue[e][k]
          BY <4>1, AppendProperties
        <5> QED  BY <1>2, <4>2, <5>1 DEF BaseInv, DfsShapes
      <4>3. CASE e # d
        BY <1>2, <4>3 DEF BaseInv, DfsShapes
      <4> QED  BY <4>2, <4>3
    <3> QED  BY <3>3, <3>4
  <2>3. ReadInv
    BY DEF BaseInv
  <2> QED  BY <2>1, <2>2, <2>3 DEF ReadInv
<1> QED  BY <1>5, <1>7, <1>8, <1>9 DEF BaseInv, CallInv

(* A client that asks for a block waits for the answer to this request and *)
(* had no other.                                                           *)
LEMMA AskForBlockKeepsBase ==
    ASSUME BaseInv, NEW c \in Clients, AskForBlock(c)
    PROVE  BaseInv'
<1> DEFINE d == DatanodeAt(BlockOf(c))
           id == BlockOf(c).block_id
           name == asked[c].file_name
           asks == [client |-> c, op_type |-> 0, owner_name |-> name, block_id |-> id,
                    content |-> << >>]
<1>1. /\ pc[c] = "blocks" /\ asked[c].req_type = "read" /\ HasMore(c) /\ d # 0
      /\ queue' = [queue EXCEPT ![d] = Append(@, asks)]
      /\ pc' = [pc EXCEPT ![c] = "answer"]
      /\ UNCHANGED <<i, asked, range, reply, local, up, stored, original, served, mpc, response>>
  BY DEF AskForBlock, Send, namenodeVars, mainVars
<1>2. d \in Datanodes
  BY <1>1, DatanodeIsThere
<1>3. /\ id \in BlockNumbers /\ id = reply[c].block_list[i[c]].block_id
      /\ i[c] < reply[c].blocknum
  BY <1>1, LoopInList DEF BaseInv, CallInv
<1>4. name \in Names /\ ClientInv(c)
  BY <1>1, RequestFits DEF BaseInv, CallInv, ClientInv
<1> HIDE DEF d, id, name
<1>5. asks \in Message
  BY <1>3, <1>4 DEF Message
<1>6. PICK ask \in Message :
         /\ ask = asks /\ ask.op_type = 0 /\ ask.client = c /\ ask.owner_name = name
         /\ ask.block_id = id
  BY <1>5
<1> HIDE DEF asks
<1>7. /\ queue' \in [Datanodes -> Seq(Message)]
      /\ \A e \in Datanodes :
            /\ \A k \in DOMAIN queue'[e] :
                  \/ k \in DOMAIN queue[e] /\ queue'[e][k] = queue[e][k]
                  \/ e = d /\ k = Len(queue[d]) + 1 /\ queue'[e][k] = ask
            /\ \A k \in DOMAIN queue'[e] :
                  queue'[e][k].op_type = 1 => queue'[e][k].content \in Content
  <2>1. queue' = [queue EXCEPT ![d] = Append(@, ask)]
    BY <1>1, <1>6
  <2>2. ask.op_type = 1 => ask.content \in Content
    BY <1>6
  <2>3. DfsShapes
    BY DEF BaseInv
  <2> QED  BY <1>2, <2>1, <2>2, <2>3, RequestJoins
<1>8. /\ pc' \in [Clients -> ClientPcs]
      /\ \A b \in Clients : pc'[b] = IF b = c THEN "answer" ELSE pc[b]
  BY <1>1 DEF BaseInv, DfsShapes, ClientPcs
<1>9. DfsShapes'
  BY <1>1, <1>7, <1>8 DEF BaseInv, DfsShapes
<1>10. ASSUME NEW b \in Clients  PROVE ClientInv(b)'
  <2>1. CASE b # c
    BY <1>1, <1>8, <2>1, ClientStays DEF BaseInv, CallInv
  <2>2. CASE b = c
    BY <1>1, <1>3, <1>4, <1>8, <2>2 DEF ClientInv, FileAsked
  <2> QED  BY <2>1, <2>2
<1>11. ServedInv'
  BY <1>1, <1>8, ServedStays DEF BaseInv, CallInv
<1>12. ReadInv'
  <2>1. ReadIsAwaited(ask)'
    BY <1>1, <1>3, <1>6, <1>8 DEF ReadIsAwaited, name
  <2>2. ASSUME NEW e \in Datanodes, NEW k \in DOMAIN queue[e], queue[e][k].op_type = 0
        PROVE  queue[e][k].client # c
    BY <1>1, <2>2 DEF BaseInv, ReadInv, ReadIsAwaited
  <2>3. ASSUME NEW e \in Datanodes, NEW k \in DOMAIN queue'[e], queue'[e][k].op_type = 0
        PROVE  /\ ReadIsAwaited(queue[e][k])'
               /\ \A f \in Datanodes : \A j \in DOMAIN queue'[f] :
                     queue'[f][j].op_type = 0 /\ queue'[f][j].client = queue'[e][k].client
                     => f = e /\ j = k
    <3>1. ASSUME NEW r \in Message, k \in DOMAIN queue[e], queue[e][k] = r, queue'[e][k] = r
          PROVE  ReadIsAwaited(r)' /\ r.client # c
      <4>1. ReadIsAwaited(r) /\ r.client \in Clients
        BY <2>3, <3>1 DEF BaseInv, ReadInv, Message
      <4>2. r.client # c
        BY <2>2, <2>3, <3>1
      <4> QED  BY <1>1, <1>8, <4>1, <4>2 DEF ReadIsAwaited
    <3>2. CASE k \in DOMAIN queue[e] /\ queue'[e][k] = queue[e][k]
      <4>1. PICK r \in Message : queue[e][k] = r
        BY <3>2, QueuedIsMessage DEF BaseInv
      <4>2. ReadIsAwaited(r)' /\ r.client # c /\ queue'[e][k] = r
        BY <3>1, <3>2, <4>1
      <4>3. ReadIsAwaited(queue[e][k])'
        BY <4>2 DEF ReadIsAwaited
      <4>4. ASSUME NEW f \in Datanodes, NEW j \in DOMAIN queue'[f], queue'[f][j].op_type = 0,
                   queue'[f][j].client = queue'[e][k].client
            PROVE  f = e /\ j = k
        <5>1. j \in DOMAIN queue[f] /\ queue'[f][j] = queue[f][j]
          BY <1>6, <1>7, <4>2, <4>4
        <5> QED  BY <2>3, <3>2, <4>4, <5>1 DEF BaseInv, ReadInv
      <4> QED  BY <4>3, <4>4
    <3>3. CASE e = d /\ k = Len(queue[d]) + 1 /\ queue'[e][k] = ask
      <4>1. ReadIsAwaited(queue[e][k])'
        BY <2>1, <3>3 DEF ReadIsAwaited
      <4>2. ASSUME NEW f \in Datanodes, NEW j \in DOMAIN queue'[f], queue'[f][j].op_type = 0,
                   queue'[f][j].client = c
            PROVE  f = d /\ j = Len(queue[d]) + 1
        BY <1>7, <2>2, <4>2
      <4> QED  BY <1>6, <3>3, <4>1, <4>2
    <3> QED  BY <1>7, <3>2, <3>3
  <2> QED  BY <2>3 DEF ReadInv
<1> QED  BY <1>9, <1>10, <1>11, <1>12 DEF BaseInv, CallInv

LEMMA EndsKeepBase ==
    ASSUME BaseInv, NEW c \in Clients, EndCall(c) \/ Abort(c)
    PROVE  BaseInv'
<1>1. /\ pc[c] = "blocks" /\ pc' = [pc EXCEPT ![c] = pc'[c]] /\ pc'[c] \in {"idle", "aborted"}
      /\ UNCHANGED <<i, asked, range, reply, local, up, queue, stored, served, mpc, response>>
  BY DEF EndCall, Abort, namenodeVars, datanodeVars, mainVars, BaseInv, DfsShapes
<1>2. pc' \in [Clients -> ClientPcs] /\ \A b \in Clients \ {c} : pc'[b] = pc[b]
  BY <1>1 DEF BaseInv, DfsShapes, ClientPcs
<1>3. original' \in [Names -> History]
  <2>1. original \in [Names -> History]
    BY DEF BaseInv, DfsShapes
  <2> DEFINE name == asked[c].file_name
             sent == [original[name] EXCEPT !.state = "sent"]
  <2>2. name \in Names
    BY <1>1, RequestFits DEF BaseInv, CallInv, ClientInv
  <2>3. sent \in History
    BY <2>1, <2>2 DEF History
  <2>4. original' = original \/ original' = [original EXCEPT ![name] = sent]
    BY DEF EndCall, Abort
  <2> HIDE DEF name, sent
  <2> QED  BY <2>1, <2>3, <2>4
<1>4. DfsShapes'
  BY <1>1, <1>2, <1>3 DEF BaseInv, DfsShapes
<1>5. ASSUME NEW b \in Clients  PROVE ClientInv(b)'
  <2>1. CASE b # c
    BY <1>1, <1>2, <2>1, ClientStays DEF BaseInv, CallInv
  <2>2. CASE b = c
    BY <1>1, <2>2 DEF BaseInv, CallInv, ClientInv
  <2> QED  BY <2>1, <2>2
<1>6. ServedInv'
  BY <1>1, <1>2, ServedStays DEF BaseInv, CallInv
<1>7. ReadInv'
  BY <1>1, <1>2, ReadersStay DEF BaseInv
<1> QED  BY <1>4, <1>5, <1>6, <1>7 DEF BaseInv, CallInv
-----------------------------------------------------------------------------
(* The datanodes.  A request that is taken leaves the other reads as they  *)
(* are, and none of them is of the same client.                            *)
LEMMA LeaveKeepsReads ==
    ASSUME DfsShapes, ReadInv, NEW d \in Datanodes, queue[d] # << >>,
           queue' = [queue EXCEPT ![d] = Rest(d)],
           \A b \in Clients :
               pc[b] = "answer" /\ (Request(d).op_type = 0 => b # Request(d).client) =>
                   pc'[b] = pc[b] /\ asked'[b] = asked[b] /\ reply'[b] = reply[b] /\ i'[b] = i[b]
    PROVE  ReadInv'
<1>1. /\ 1 \in DOMAIN queue[d] /\ Request(d) = queue[d][1]
      /\ \A e \in Datanodes \ {d} : queue'[e] = queue[e]
      /\ \A k \in DOMAIN queue'[d] : /\ k \in Nat \ {0} /\ k + 1 \in DOMAIN queue[d]
                                     /\ queue'[d][k] = queue[d][k + 1]
  BY RequestLeaves
<1> DEFINE old(e, k) == IF e = d THEN k + 1 ELSE k
<1>2. ASSUME NEW e \in Datanodes, NEW k \in DOMAIN queue'[e]
      PROVE  /\ old(e, k) \in DOMAIN queue[e] /\ queue'[e][k] = queue[e][old(e, k)]
             /\ ~(e = d /\ old(e, k) = 1)
  BY <1>1
<1>3. \A e \in Datanodes : \A j \in DOMAIN queue'[e], k \in DOMAIN queue'[e] :
          old(e, j) = old(e, k) => j = k
  BY <1>1
<1> HIDE DEF old
<1>4. ASSUME NEW e \in Datanodes, NEW k \in DOMAIN queue'[e], queue'[e][k].op_type = 0
      PROVE  ReadIsAwaited(queue[e][k])'
  <2>1. PICK k0 : k0 = old(e, k)
    OBVIOUS
  <2>2. /\ k0 \in DOMAIN queue[e] /\ queue'[e][k] = queue[e][k0] /\ ~(e = d /\ k0 = 1)
        /\ queue[e][k0].op_type = 0
    BY <1>2, <1>4, <2>1
  <2>3. PICK r \in Message : r = queue[e][k0]
    BY <2>2, QueuedIsMessage
  <2>4. ReadIsAwaited(r) /\ r.client \in Clients
    BY <2>2, <2>3 DEF ReadInv, Message
  <2>5. Request(d).op_type = 0 => r.client # Request(d).client
    BY <1>1, <2>2, <2>3 DEF ReadInv
  <2>6. ReadIsAwaited(r)'
    BY <2>4, <2>5 DEF ReadIsAwaited
  <2> QED  BY <2>2, <2>3, <2>6
<1>5. ASSUME NEW e \in Datanodes, NEW k \in DOMAIN queue'[e], queue'[e][k].op_type = 0,
             NEW f \in Datanodes, NEW j \in DOMAIN queue'[f], queue'[f][j].op_type = 0,
             queue'[f][j].client = queue'[e][k].client
      PROVE  f = e /\ j = k
  <2>1. /\ old(e, k) \in DOMAIN queue[e] /\ queue'[e][k] = queue[e][old(e, k)]
        /\ old(f, j) \in DOMAIN queue[f] /\ queue'[f][j] = queue[f][old(f, j)]
    BY <1>2
  <2>2. f = e /\ old(f, j) = old(e, k)
    BY <1>5, <2>1 DEF ReadInv
  <2> QED  BY <1>3, <2>2
<1> QED  BY <1>4, <1>5 DEF ReadInv

(* The other types when a request is taken.                                *)
LEMMA LeaveKeepsQueues ==
    ASSUME DfsShapes, NEW d \in Datanodes, queue[d] # << >>,
           queue' = [queue EXCEPT ![d] = Rest(d)]
    PROVE  /\ queue' \in [Datanodes -> Seq(Message)]
           /\ \A e \in Datanodes : \A k \in DOMAIN queue'[e] :
                 queue'[e][k].op_type = 1 => queue'[e][k].content \in Content
<1>1. /\ queue' \in [Datanodes -> Seq(Message)]
      /\ \A e \in Datanodes \ {d} : queue'[e] = queue[e]
      /\ \A k \in DOMAIN queue'[d] : /\ k + 1 \in DOMAIN queue[d]
                                     /\ queue'[d][k] = queue[d][k + 1]
  BY RequestLeaves
<1>2. ASSUME NEW e \in Datanodes, NEW k \in DOMAIN queue'[e], queue'[e][k].op_type = 1
      PROVE  queue'[e][k].content \in Content
  BY <1>1, <1>2 DEF DfsShapes
<1> QED  BY <1>1, <1>2

LEMMA CreateBlockEffect ==
    ASSUME DfsShapes, NEW d \in Datanodes, create_block(d)
    PROVE  /\ queue[d] # << >> /\ queue' = [queue EXCEPT ![d] = Rest(d)]
           /\ 1 \in DOMAIN queue[d] /\ Request(d) = queue[d][1] /\ Request(d) \in Message
           /\ Request(d).op_type = 1 /\ Request(d).content \in Content
           /\ Block_asked(d) \in Names \X BlockNumbers
           /\ DOMAIN stored' = Datanodes
           /\ \A e \in Datanodes \ {d} : stored'[e] = stored[e]
           /\ DOMAIN stored'[d] = DOMAIN stored[d] \cup {Block_asked(d)}
           /\ \A b \in DOMAIN stored'[d] :
                 stored'[d][b] = IF b = Block_asked(d) THEN Request(d).content ELSE stored[d][b]
           /\ UNCHANGED <<up, pc, asked, range, reply, i, local, served, mpc, response,
                          file_images, file_image, first_id, original>>
<1>1. /\ queue[d] # << >> /\ queue' = [queue EXCEPT ![d] = Rest(d)] /\ Request(d).op_type = 1
      /\ UNCHANGED <<up, pc, asked, range, reply, i, local, served, mpc, response,
                     file_images, file_image, first_id, original>>
  BY DEF create_block, clientVars, namenodeVars, mainVars, loopVars
<1>2. 1 \in DOMAIN queue[d] /\ Request(d) = queue[d][1] /\ Request(d) \in Message
  BY <1>1, RequestLeaves
<1>3. Request(d).content \in Content
  BY <1>1, <1>2 DEF DfsShapes
<1>4. Block_asked(d) \in Names \X BlockNumbers
  BY <1>2 DEF Block_asked, Message
<1> DEFINE new == [b \in DOMAIN stored[d] \cup {Block_asked(d)} |->
                      IF b = Block_asked(d) THEN Request(d).content ELSE stored[d][b]]
<1>5. stored' = [stored EXCEPT ![d] = new] /\ DOMAIN stored = Datanodes
  BY DEF create_block, DfsShapes
<1>6. /\ DOMAIN new = DOMAIN stored[d] \cup {Block_asked(d)}
      /\ \A b \in DOMAIN new :
            new[b] = IF b = Block_asked(d) THEN Request(d).content ELSE stored[d][b]
  OBVIOUS
<1> HIDE DEF new
<1>7. /\ stored'[d] = new /\ DOMAIN stored' = Datanodes
      /\ \A e \in Datanodes \ {d} : stored'[e] = stored[e]
  BY <1>5
<1> QED  BY <1>1, <1>2, <1>3, <1>4, <1>6, <1>7

LEMMA CreateBlockKeepsBase ==
    ASSUME BaseInv, NEW d \in Datanodes, create_block(d)
    PROVE  BaseInv'
<1>1. DfsShapes
  BY DEF BaseInv
<1>2. /\ queue[d] # << >> /\ queue' = [queue EXCEPT ![d] = Rest(d)]
      /\ Request(d).op_type = 1 /\ Request(d).content \in Content
      /\ Block_asked(d) \in Names \X BlockNumbers
      /\ DOMAIN stored' = Datanodes
      /\ \A e \in Datanodes \ {d} : stored'[e] = stored[e]
      /\ DOMAIN stored'[d] = DOMAIN stored[d] \cup {Block_asked(d)}
      /\ \A b \in DOMAIN stored'[d] :
            stored'[d][b] = IF b = Block_asked(d) THEN Request(d).content ELSE stored[d][b]
      /\ UNCHANGED <<up, pc, asked, range, reply, i, local, served, mpc, response, original>>
  BY <1>1, CreateBlockEffect
<1>3. ASSUME NEW e \in Datanodes  PROVE Stored(stored[e])'
  <2>1. Stored(stored[e])
    BY <1>1 DEF DfsShapes
  <2> QED  BY <1>2, <2>1 DEF Stored
<1>4. DfsShapes'
  BY <1>1, <1>2, <1>3, LeaveKeepsQueues DEF DfsShapes
<1>5. CallInv'
  <2>1. \A b \in Clients : ClientInv(b)'
    BY <1>2, ClientStays DEF BaseInv, CallInv
  <2>2. ServedInv'
    BY <1>2, ServedStays DEF BaseInv, CallInv
  <2> QED  BY <2>1, <2>2 DEF CallInv
<1>6. ReadInv'
  BY <1>1, <1>2, LeaveKeepsReads DEF BaseInv
<1> QED  BY <1>4, <1>5, <1>6 DEF BaseInv

(* The answer reaches the one client that waits for it.                    *)
LEMMA ReadBlockEffect ==
    ASSUME BaseInv, NEW d \in Datanodes, read_block(d)
    PROVE  \E r \in Message :
              /\ r = Request(d) /\ r.client \in Clients /\ pc[r.client] = "answer"
              /\ asked[r.client].req_type = "read" /\ r.owner_name = asked[r.client].file_name
              /\ i[r.client] < reply[r.client].blocknum /\ reply[r.client] \in Image
              /\ r.block_id = reply[r.client].block_list[i[r.client]].block_id
              /\ r.op_type = 0 /\ r.owner_name \in Names /\ r.block_id \in BlockNumbers
              /\ <<r.owner_name, r.block_id>> \in DOMAIN stored[d]
              /\ local[r.client][r.owner_name] \in Seq(Bytes)
              /\ queue[d] # << >> /\ queue' = [queue EXCEPT ![d] = Rest(d)]
              /\ local' = [local EXCEPT ![r.client][r.owner_name] =
                              WithBlock(@, r.block_id, stored[d][<<r.owner_name, r.block_id>>])]
              /\ pc' = [pc EXCEPT ![r.client] = "blocks"]
              /\ i' = [i EXCEPT ![r.client] = @ + 1]
              /\ UNCHANGED <<up, stored, asked, range, reply, served, mpc, response,
                             file_images, file_image, first_id, original>>
<1>1. /\ queue[d] # << >> /\ queue' = [queue EXCEPT ![d] = Rest(d)] /\ Request(d).op_type = 0
      /\ Block_asked(d) \in DOMAIN stored[d]
      /\ local' = [local EXCEPT ![Request(d).client][Request(d).owner_name] =
                      WithBlock(@, Request(d).block_id, stored[d][Block_asked(d)])]
      /\ pc' = [pc EXCEPT ![Request(d).client] = "blocks"]
      /\ i' = [i EXCEPT ![Request(d).client] = @ + 1]
      /\ UNCHANGED <<up, stored, asked, range, reply, served, mpc, response,
                     file_images, file_image, first_id, original>>
  BY DEF read_block, namenodeVars, mainVars, loopVars
<1>2. 1 \in DOMAIN queue[d] /\ Request(d) = queue[d][1] /\ Request(d) \in Message
  BY <1>1, RequestLeaves DEF BaseInv
<1>3. PICK r \in Message : r = Request(d) /\ Block_asked(d) = <<r.owner_name, r.block_id>>
  BY <1>2 DEF Block_asked
<1>4. r.client \in Clients /\ r.owner_name \in Names /\ r.block_id \in BlockNumbers
  BY DEF Message
<1>5. ReadIsAwaited(r)
  BY <1>1, <1>2, <1>3 DEF BaseInv, ReadInv
<1>6. /\ pc[r.client] = "answer" /\ r.owner_name = asked[r.client].file_name
      /\ r.block_id = reply[r.client].block_list[i[r.client]].block_id
  BY <1>5 DEF ReadIsAwaited
<1>7. ClientInv(r.client)
  BY <1>4 DEF BaseInv, CallInv
<1>8. /\ asked[r.client].req_type = "read" /\ i[r.client] < reply[r.client].blocknum
      /\ reply[r.client] \in Image /\ local[r.client][r.owner_name] \in Seq(Bytes)
  BY <1>6, <1>7 DEF ClientInv, FileAsked
<1>9. /\ r.op_type = 0 /\ <<r.owner_name, r.block_id>> \in DOMAIN stored[d]
      /\ local' = [local EXCEPT ![r.client][r.owner_name] =
                      WithBlock(@, r.block_id, stored[d][<<r.owner_name, r.block_id>>])]
      /\ pc' = [pc EXCEPT ![r.client] = "blocks"]
      /\ i' = [i EXCEPT ![r.client] = @ + 1]
  BY <1>1, <1>3
<1> QED  BY <1>1, <1>3, <1>4, <1>6, <1>8, <1>9

LEMMA ReadBlockKeepsBase ==
    ASSUME BaseInv, NEW d \in Datanodes, read_block(d)
    PROVE  BaseInv'
<1>1. PICK r \in Message :
         /\ r = Request(d) /\ r.client \in Clients /\ pc[r.client] = "answer"
         /\ asked[r.client].req_type = "read" /\ r.owner_name = asked[r.client].file_name
         /\ i[r.client] < reply[r.client].blocknum /\ reply[r.client] \in Image
         /\ r.op_type = 0 /\ r.owner_name \in Names /\ r.block_id \in BlockNumbers
         /\ <<r.owner_name, r.block_id>> \in DOMAIN stored[d]
         /\ local[r.client][r.owner_name] \in Seq(Bytes)
         /\ queue[d] # << >> /\ queue' = [queue EXCEPT ![d] = Rest(d)]
         /\ local' = [local EXCEPT ![r.client][r.owner_name] =
                         WithBlock(@, r.block_id, stored[d][<<r.owner_name, r.block_id>>])]
         /\ pc' = [pc EXCEPT ![r.client] = "blocks"]
         /\ i' = [i EXCEPT ![r.client] = @ + 1]
         /\ UNCHANGED <<up, stored, asked, range, reply, served, mpc, response, original>>
  BY ReadBlockEffect
<1> DEFINE c == r.client
           file == WithBlock(local[c][r.owner_name], r.block_id,
                             stored[d][<<r.owner_name, r.block_id>>])
<1>2. DfsShapes /\ ClientInv(c)
  BY <1>1 DEF BaseInv, CallInv
<1>3. file \in Seq(Bytes)
  <2>1. stored[d][<<r.owner_name, r.block_id>>] \in Content
    BY <1>1, <1>2 DEF DfsShapes, Stored
  <2>2. r.block_id \in Nat
    BY <1>1, LimitsAssumption DEF BlockNumbers
  <2> QED  BY <1>1, <2>1, <2>2, WithBlockIsFile
<1>4. local' = [local EXCEPT ![c][r.owner_name] = file]
  BY <1>1
<1> HIDE DEF file
<1>5. c \in Clients
  BY <1>1
<1>6. i[c] \in Nat /\ i[c] + 1 \in 0 .. MaxFileBlkCount
  <2>1. reply[c].blocknum \in 0 .. MaxFileBlkCount
    BY <1>1 DEF Image
  <2>2. i[c] \in 0 .. MaxFileBlkCount
    BY <1>2, <1>5 DEF DfsShapes
  <2> QED  BY <1>1, <2>1, <2>2, LimitsAssumption
<1>7. /\ pc' \in [Clients -> ClientPcs] /\ i' \in [Clients -> 0 .. MaxFileBlkCount]
      /\ local' \in [Clients -> [Names -> Seq(Bytes) \cup {NoFile}]]
      /\ pc'[c] = "blocks" /\ i'[c] = i[c] + 1 /\ local'[c][r.owner_name] = file
      /\ \A b \in Clients \ {c} : pc'[b] = pc[b] /\ i'[b] = i[b] /\ local'[b] = local[b]
  <2>1. /\ pc \in [Clients -> ClientPcs] /\ i \in [Clients -> 0 .. MaxFileBlkCount]
        /\ local \in [Clients -> [Names -> Seq(Bytes) \cup {NoFile}]]
    BY <1>2 DEF DfsShapes
  <2>2. pc' = [pc EXCEPT ![c] = "blocks"] /\ i' = [i EXCEPT ![c] = i[c] + 1]
        /\ r.owner_name \in Names
    BY <1>1
  <2> HIDE DEF c
  <2>3. /\ pc' \in [Clients -> ClientPcs] /\ pc'[c] = "blocks"
        /\ \A b \in Clients \ {c} : pc'[b] = pc[b]
    BY <1>5, <2>1, <2>2 DEF ClientPcs
  <2>4. /\ i' \in [Clients -> 0 .. MaxFileBlkCount] /\ i'[c] = i[c] + 1
        /\ \A b \in Clients \ {c} : i'[b] = i[b]
    BY <1>5, <1>6, <2>1, <2>2
  <2>5. /\ local' \in [Clients -> [Names -> Seq(Bytes) \cup {NoFile}]]
        /\ local'[c][r.owner_name] = file
        /\ \A b \in Clients \ {c} : local'[b] = local[b]
    BY <1>3, <1>4, <1>5, <2>1, <2>2
  <2> QED  BY <2>3, <2>4, <2>5
<1>8. DfsShapes'
  <2>1. /\ queue' \in [Datanodes -> Seq(Message)]
        /\ \A e \in Datanodes : \A k \in DOMAIN queue'[e] :
              queue'[e][k].op_type = 1 => queue'[e][k].content \in Content
    BY <1>1, <1>2, LeaveKeepsQueues
  <2>2. /\ asked' \in [Clients -> Requests \cup {Null}]
        /\ range' \in [Clients -> Modifications \cup {Whole}]
        /\ reply' \in [Clients -> Image \cup {NoImage}]
        /\ served' \in Clients \cup {Nobody} /\ up' \in [Datanodes -> BOOLEAN]
        /\ DOMAIN stored' = Datanodes /\ \A e \in Datanodes : Stored(stored'[e])
        /\ original' \in [Names -> History]
    BY <1>1, <1>2 DEF DfsShapes
  <2> QED  BY <1>7, <2>1, <2>2 DEF DfsShapes
<1>9. ASSUME NEW b \in Clients  PROVE ClientInv(b)'
  <2>1. CASE b # c
    BY <1>1, <1>7, <2>1, ClientStays DEF BaseInv, CallInv
  <2>2. CASE b = c
    <3>1. /\ pc'[c] = "blocks" /\ asked'[c] = asked[c] /\ range'[c] = range[c]
          /\ reply'[c] = reply[c] /\ asked[c].req_type = "read" /\ pc[c] = "answer"
      BY <1>1, <1>7
    <3>2. FileAsked(c)' \in Seq(Bytes)
      BY <1>1, <1>3, <1>7 DEF FileAsked
    <3>3. range[c].start_addr \div DfsBlockSize <= i'[c]
      <4>1. range[c].start_addr \div DfsBlockSize <= i[c]
            /\ range[c] \in Modifications \cup {Whole}
        BY <1>2, <3>1 DEF ClientInv, DfsShapes
      <4>2. range[c].start_addr \div DfsBlockSize \in 0 .. MaxFileBlkCount
        BY <4>1, RangeFits
      <4> HIDE DEF c
      <4> QED  BY <1>6, <1>7, <4>1, <4>2, LimitsAssumption
    <3> HIDE DEF c
    <3> QED  BY <1>2, <2>2, <3>1, <3>2, <3>3 DEF ClientInv
  <2> QED  BY <2>1, <2>2
<1>10. ServedInv'
  BY <1>1, <1>7, ServedStays DEF BaseInv, CallInv
<1>11. ReadInv'
  <2>1. \A b \in Clients : pc[b] = "answer" /\ (Request(d).op_type = 0 => b # Request(d).client) =>
            pc'[b] = pc[b] /\ asked'[b] = asked[b] /\ reply'[b] = reply[b] /\ i'[b] = i[b]
    BY <1>1, <1>7
  <2> QED  BY <1>1, <1>2, <2>1, LeaveKeepsReads DEF BaseInv
<1> QED  BY <1>8, <1>9, <1>10, <1>11 DEF BaseInv, CallInv

(* A datanode that goes down takes its queue with it; the reads that are   *)
(* left are of clients that had none there.                                *)
LEMMA DownKeepsBase ==
    ASSUME BaseInv, NEW d \in Datanodes, GoDown(d)
    PROVE  BaseInv'
<1> DEFINE Lost(c) == \E k \in DOMAIN queue[d] :
                          queue[d][k].client = c /\ queue[d][k].op_type = 0
<1>1. /\ up' = [up EXCEPT ![d] = FALSE] /\ queue' = [queue EXCEPT ![d] = << >>]
      /\ pc' = [c \in Clients |-> IF Lost(c) THEN "spinning" ELSE pc[c]]
      /\ UNCHANGED <<stored, asked, range, reply, i, local, served, mpc, response, original>>
  BY DEF GoDown, namenodeVars, mainVars
<1>2. DfsShapes
  BY DEF BaseInv
<1>3. \A c \in Clients : Lost(c) => pc[c] = "answer"
  BY DEF BaseInv, ReadInv, ReadIsAwaited
<1>4. /\ \A c \in Clients : pc'[c] = IF Lost(c) THEN "spinning" ELSE pc[c]
      /\ pc' \in [Clients -> ClientPcs]
  BY <1>1, <1>2 DEF DfsShapes, ClientPcs
<1>5. /\ queue' \in [Datanodes -> Seq(Message)] /\ queue'[d] = << >>
      /\ \A e \in Datanodes \ {d} : queue'[e] = queue[e]
      /\ DOMAIN queue'[d] = {}
  <2>1. << >> \in Seq(Message) /\ DOMAIN << >> = {}
    BY EmptySeq
  <2>2. queue' \in [Datanodes -> Seq(Message)] /\ queue'[d] = << >>
        /\ \A e \in Datanodes \ {d} : queue'[e] = queue[e]
    BY <1>1, <1>2, <2>1 DEF DfsShapes
  <2> QED  BY <2>1, <2>2
<1>6. up' \in [Datanodes -> BOOLEAN]
  BY <1>1, <1>2 DEF DfsShapes
<1>7. DfsShapes'
  <2>1. ASSUME NEW e \in Datanodes
        PROVE  /\ \A k \in DOMAIN queue'[e] :
                     queue'[e][k].op_type = 1 => queue'[e][k].content \in Content
               /\ Stored(stored'[e])
    BY <1>1, <1>2, <1>5 DEF DfsShapes
  <2> QED  BY <1>1, <1>2, <1>4, <1>5, <1>6, <2>1 DEF DfsShapes
<1>8. ASSUME NEW b \in Clients  PROVE ClientInv(b)'
  <2>1. CASE ~Lost(b)
    <3>1. pc'[b] = pc[b]
      BY <1>4, <2>1
    <3> QED  BY <1>1, <3>1, ClientStays DEF BaseInv, CallInv
  <2>2. CASE Lost(b)
    <3>1. pc'[b] = "spinning" /\ pc[b] = "answer"
      BY <1>3, <1>4, <2>2
    <3> QED  BY <1>1, <3>1 DEF BaseInv, CallInv, ClientInv
  <2> QED  BY <2>1, <2>2
<1>9. ServedInv'
  <2>1. served \in Clients /\ pc[served] = "waiting" => pc'[served] = pc[served]
    BY <1>3, <1>4
  <2> QED  BY <1>1, <2>1, ServedStays DEF BaseInv, CallInv
<1>10. ReadInv'
  <2>1. ASSUME NEW e \in Datanodes, NEW k \in DOMAIN queue'[e], queue'[e][k].op_type = 0
        PROVE  ReadIsAwaited(queue[e][k])'
    <3>1. e # d /\ queue'[e] = queue[e]
      BY <1>5, <2>1
    <3>2. PICK r \in Message : r = queue[e][k]
      BY <1>2, <2>1, <3>1, QueuedIsMessage
    <3>3. ReadIsAwaited(r) /\ r.client \in Clients /\ ~Lost(r.client)
      BY <2>1, <3>1, <3>2 DEF BaseInv, ReadInv, Message
    <3>4. pc'[r.client] = pc[r.client]
      BY <1>4, <3>3
    <3>5. ReadIsAwaited(r)'
      BY <1>1, <3>3, <3>4 DEF ReadIsAwaited
    <3> QED  BY <3>1, <3>2, <3>5
  <2>2. ASSUME NEW e \in Datanodes, NEW k \in DOMAIN queue'[e], queue'[e][k].op_type = 0,
               NEW f \in Datanodes, NEW j \in DOMAIN queue'[f], queue'[f][j].op_type = 0,
               queue'[f][j].client = queue'[e][k].client
        PROVE  f = e /\ j = k
    <3>1. e # d /\ queue'[e] = queue[e] /\ f # d /\ queue'[f] = queue[f]
      BY <1>5, <2>2
    <3> QED  BY <2>2, <3>1 DEF BaseInv, ReadInv
  <2> QED  BY <2>1, <2>2 DEF ReadInv
<1> QED  BY <1>7, <1>8, <1>9, <1>10 DEF BaseInv, CallInv
-----------------------------------------------------------------------------
(* Every step of the system is one of these.                               *)
LEMMA DfsSteps ==
    ASSUME [DfsNext]_dfsVars
    PROVE  \/ \E c \in Clients, x \in Names :
                 \/ push_file(c, x) \/ pull_file(c, x) \/ get_system_info(c)
                 \/ \E m \in Modifications : modify_file(c, x, m)
           \/ \E c \in Clients : Connect(c)
           \/ \E c \in Clients : SendBlock(c)
           \/ \E c \in Clients : AskForBlock(c)
           \/ \E c \in Clients : EndCall(c) \/ Abort(c)
           \/ NamenodeWorks
           \/ \E d \in Datanodes : create_block(d)
           \/ \E d \in Datanodes : read_block(d)
           \/ \E d \in Datanodes : GoDown(d)
           \/ \E c \in Clients : Refused(c)
           \/ HeartbeatWorks \/ Heartbeat
           \/ UNCHANGED dfsVars
<1>1. ASSUME NEW c \in Clients, get_system_info(c)
      PROVE  \E x \in Names : get_system_info(c)
  BY <1>1 DEF get_system_info
<1> QED  BY <1>1 DEF DfsNext, ClientWorks, DatanodeWorks, ReadMissing, HeartbeatAborts

(* A refused call and the heartbeats leave the clients' calls, the main    *)
(* thread of the namenode and the datanodes as they are.                   *)
Aside ==
    UNCHANGED <<pc, asked, range, reply, i, local, up, queue, stored, original, served, mpc,
                response, file_images, file_image, first_id>>

LEMMA StepsAside ==
    ASSUME (\E c \in Clients : Refused(c)) \/ HeartbeatWorks \/ Heartbeat \/ UNCHANGED dfsVars
    PROVE  Aside
<1>1. ASSUME NEW c \in Clients, Refused(c)  PROVE Aside
  BY <1>1 DEF Refused, Aside, datanodeVars, namenodeVars, mainVars, loopVars
<1>2. ASSUME HeartbeatWorks  PROVE Aside
  <2>1. UNCHANGED mainVars
    BY <1>2 DEF HeartbeatWorks, HeartbeatStep, Allocate, FillId, FillIp, FillPort, ResetCount,
                CountSlot, EndHeartbeat
  <2> QED  BY <1>2, <2>1 DEF HeartbeatWorks, Aside, clientVars, datanodeVars, mainVars, loopVars
<1>3. ASSUME Heartbeat  PROVE Aside
  BY <1>3 DEF Heartbeat, ReceiveHeartbeat, Aside, clientVars, datanodeVars, mainVars, loopVars
<1>4. ASSUME UNCHANGED dfsVars  PROVE Aside
  BY <1>4 DEF Aside, dfsVars, clientVars, datanodeVars, namenodeVars, mainVars, loopVars
<1> QED  BY <1>1, <1>2, <1>3, <1>4

(* A step that begins a call changes nothing but the client's variables.   *)
LEMMA BeginsEffect ==
    ASSUME NEW c \in Clients, NEW x \in Names,
           \/ push_file(c, x) \/ pull_file(c, x) \/ get_system_info(c)
           \/ \E m \in Modifications : modify_file(c, x, m)
    PROVE  /\ pc[c] = "idle" /\ pc' = [pc EXCEPT ![c] = "asking"]
           /\ asked' = [asked EXCEPT ![c] = asked'[c]]
           /\ local' = local \/ local' = [local EXCEPT ![c][x] = << >>]
           /\ UNCHANGED <<reply, i, datanodeVars, namenodeVars, original>>
<1>1. ASSUME NEW type, NEW name, NEW size, NEW m, Ask(c, type, name, size, m)
      PROVE  /\ pc[c] = "idle" /\ pc' = [pc EXCEPT ![c] = "asking"]
             /\ asked' = [asked EXCEPT ![c] = [req_type |-> type, file_name |-> name,
                                               file_size |-> size]]
             /\ UNCHANGED <<reply, i, datanodeVars, namenodeVars, original>>
  BY <1>1 DEF Ask
<1> QED  BY <1>1 DEF push_file, pull_file, get_system_info, modify_file

LEMMA StepOfNamenode ==
    ASSUME BaseInv, [DfsNext]_dfsVars
    PROVE  [Next]_vars
<1>1. ASSUME NEW c \in Clients, NEW x \in Names,
             \/ push_file(c, x) \/ pull_file(c, x) \/ get_system_info(c)
             \/ \E m \in Modifications : modify_file(c, x, m)
      PROVE  UNCHANGED vars
  BY <1>1 DEF push_file, pull_file, get_system_info, modify_file, Ask, namenodeVars, vars
<1>2. ASSUME NEW c \in Clients, Connect(c)  PROVE Next
  <2>1. asked[c] \in Requests /\ Accept(asked[c])
    BY <1>2 DEF Connect, BaseInv, CallInv, ClientInv
  <2> QED  BY <2>1 DEF Next
<1>3. ASSUME NEW c \in Clients, SendBlock(c) \/ AskForBlock(c) \/ EndCall(c) \/ Abort(c)
      PROVE  UNCHANGED vars
  BY <1>3 DEF SendBlock, AskForBlock, EndCall, Abort, namenodeVars, vars
<1>4. ASSUME NEW d \in Datanodes, create_block(d) \/ read_block(d) \/ GoDown(d)
      PROVE  UNCHANGED vars
  BY <1>4 DEF create_block, read_block, GoDown, namenodeVars, vars
<1>5. NamenodeWorks => Next
  BY DEF NamenodeWorks, Next
<1>6. HeartbeatWorks \/ Heartbeat => Next
  BY RegisteredAssumption DEF HeartbeatWorks, Heartbeat, Next
<1>7. ASSUME NEW c \in Clients, Refused(c)  PROVE UNCHANGED vars
  BY <1>7 DEF Refused, namenodeVars, vars
<1>8. UNCHANGED dfsVars => UNCHANGED vars
  BY DEF dfsVars, namenodeVars, vars
<1> QED  BY <1>1, <1>2, <1>3, <1>4, <1>5, <1>6, <1>7, <1>8, DfsSteps

LEMMA AsideKeepsBase ==
    ASSUME BaseInv, Aside
    PROVE  BaseInv'
<1>1. UNCHANGED <<pc, asked, range, reply, i, local, up, queue, stored, original, served, mpc,
                  response>>
  BY DEF Aside
<1>2. DfsShapes'
  BY <1>1 DEF BaseInv, DfsShapes
<1>3. \A b \in Clients : ClientInv(b)'
  BY <1>1, ClientStays DEF BaseInv, CallInv
<1>4. ServedInv'
  BY <1>1, ServedStays DEF BaseInv, CallInv
<1>5. ReadInv'
  BY <1>1, ReadersStay DEF BaseInv
<1> QED  BY <1>2, <1>3, <1>4, <1>5 DEF BaseInv, CallInv

LEMMA BaseIsKept ==
    ASSUME IInv, BaseInv, [DfsNext]_dfsVars
    PROVE  BaseInv'
<1>1. ASSUME NEW c \in Clients, NEW x \in Names,
             \/ push_file(c, x) \/ pull_file(c, x) \/ get_system_info(c)
             \/ \E m \in Modifications : modify_file(c, x, m)
      PROVE  BaseInv'
  BY <1>1, BeginsKeepBase
<1>2. ASSUME NEW c \in Clients,
             Connect(c) \/ SendBlock(c) \/ AskForBlock(c) \/ EndCall(c) \/ Abort(c)
      PROVE  BaseInv'
  BY <1>2, ConnectKeepsBase, SendBlockKeepsBase, AskForBlockKeepsBase, EndsKeepBase
<1>3. ASSUME NEW d \in Datanodes, create_block(d) \/ read_block(d) \/ GoDown(d)
      PROVE  BaseInv'
  BY <1>3, CreateBlockKeepsBase, ReadBlockKeepsBase, DownKeepsBase
<1>4. NamenodeWorks => BaseInv'
  BY WorksKeepsBase, CrashKeepsBase
<1>5. Aside => BaseInv'
  BY AsideKeepsBase
<1> QED  BY <1>1, <1>2, <1>3, <1>4, <1>5, DfsSteps, StepsAside

(* The namenode's invariants hold of the whole system, and with them those *)
(* of clients and datanodes.                                               *)
DfsBase == IInv /\ DealInv /\ BaseInv

LEMMA DfsBaseHolds == DfsSpec => []DfsBase
<1>1. DfsInit => DfsBase
  BY StartOfNamenode, StartOfCalls DEF DfsBase, BaseInv
<1>2. ASSUME DfsBase, [DfsNext]_dfsVars  PROVE DfsBase'
  <2>1. [Next]_vars
    BY <1>2, StepOfNamenode DEF DfsBase
  <2>2. IInv' /\ DealInv'
    BY <1>2, <2>1, InvariantIsKept, DealIsKept DEF DfsBase
  <2>3. BaseInv'
    BY <1>2, BaseIsKept DEF DfsBase
  <2> QED  BY <2>2, <2>3 DEF DfsBase
<1> QED  BY <1>1, <1>2, PTL DEF DfsSpec
-----------------------------------------------------------------------------
(* A pull that has n blocks of a file goes on with the block n.            *)
LEMMA PulledIsFile ==
    ASSUME NEW file \in Seq(Bytes), NEW n \in Nat
    PROVE  /\ Pulled(file, n) \in Seq(Bytes) /\ Len(Pulled(file, n)) = n * DfsBlockSize
           /\ Pulled(file, 0) = << >>
<1> DEFINE byte(at) == IF at <= Len(file) THEN file[at] ELSE Garbage
           N == n * DfsBlockSize
           p == [at \in 1 .. N |-> byte(at)]
<1>1. /\ DfsBlockSize \in Nat \ {0} /\ Len(file) \in Nat
      /\ \A at \in 1 .. Len(file) : file[at] \in Bytes
  BY LimitsAssumption, ElementOfSeq, LenProperties
<1>2. N \in Nat /\ 0 * DfsBlockSize = 0
  BY <1>1
<1> HIDE DEF N
<1>3. \A at \in 1 .. N : byte(at) \in Bytes
  BY <1>1, <1>2, FilesAssumption
<1>4. p \in Seq(Bytes)
  <2> HIDE DEF byte
  <2>1. p \in [1 .. N -> Bytes]
    BY <1>3
  <2> QED  BY <1>2, <2>1, SeqDef
<1>5. Len(p) = N
  <2>1. DOMAIN p = 1 .. N
    OBVIOUS
  <2>2. DOMAIN p = 1 .. Len(p) /\ Len(p) \in Nat
    BY <1>4, LenProperties
  <2> HIDE DEF p
  <2> QED  BY <1>2, <2>1, <2>2
<1>6. Pulled(file, n) = p
  BY DEF Pulled, N
<1>7. Pulled(file, 0) = << >>
  <2>1. Pulled(file, 0) = [at \in 1 .. 0 |-> byte(at)]
    BY <1>2 DEF Pulled
  <2> HIDE DEF byte
  <2> QED  BY <2>1
<1> QED  BY <1>4, <1>5, <1>6, <1>7 DEF N

LEMMA PulledGrows ==
    ASSUME NEW file \in Seq(Bytes), NEW n \in Nat
    PROVE  WithBlock(Pulled(file, n), n, PushContent(file, n)) = Pulled(file, n + 1)
<1> DEFINE D == DfsBlockSize
           start == n * D
           end == (n + 1) * D
           old == Pulled(file, n)
           content == PushContent(file, n)
           byte(at) == IF at <= Len(file) THEN file[at] ELSE Garbage
           new(at) == IF at > start /\ at <= end THEN content[at - start]
                      ELSE IF at <= Len(old) THEN old[at] ELSE Zero
<1>1. /\ D \in Nat \ {0} /\ start \in Nat /\ end \in Nat /\ end = start + D /\ Len(file) \in Nat
      /\ Len(old) = start
  BY LimitsAssumption, PulledIsFile, LenProperties
<1>2. /\ old = [at \in 1 .. start |-> byte(at)]
      /\ Pulled(file, n + 1) = [at \in 1 .. end |-> byte(at)]
      /\ content = [k \in 1 .. D |-> byte(start + k)]
  BY DEF Pulled, PushContent, Offsets
<1>3. WithBlock(old, n, content) =
          [at \in 1 .. (IF Len(old) > end THEN Len(old) ELSE end) |-> new(at)]
  BY DEF WithBlock
<1>4. (IF Len(old) > end THEN Len(old) ELSE end) = end
  BY <1>1
<1> HIDE DEF D, start, end, old, content, byte
<1>5. ASSUME NEW at \in 1 .. end  PROVE new(at) = byte(at)
  <2>1. CASE at > start
    <3>1. at - start \in 1 .. D /\ start + (at - start) = at
      BY <1>1, <2>1
    <3>2. content[at - start] = byte(at)
      BY <1>2, <3>1
    <3> QED  BY <2>1, <3>2
  <2>2. CASE ~(at > start)
    <3>1. at \in 1 .. start /\ at <= Len(old)
      BY <1>1, <2>2
    <3> QED  BY <1>2, <2>2, <3>1
  <2> QED  BY <2>1, <2>2
<1>6. WithBlock(old, n, content) = [at \in 1 .. end |-> byte(at)]
  <2> HIDE DEF new
  <2> QED  BY <1>3, <1>4, <1>5
<1> QED  BY <1>2, <1>6 DEF old, content
-----------------------------------------------------------------------------
(* Steps that leave one part of what there is of a file as it was.  What   *)
(* the first push sent stays once it has begun.                            *)
Kept(name) == HasBegun(name) => HasBegun(name)' /\ First(name)' = First(name)

LEMMA QueueStays ==
    ASSUME NEW name \in Names, QueueInv(name), Kept(name),
           \A d \in Datanodes : \A k \in DOMAIN queue'[d] :
               queue'[d][k].op_type = 1 /\ queue'[d][k].owner_name = name =>
                   \/ \E j \in DOMAIN queue[d] : queue'[d][k] = queue[d][j]
                   \/ /\ HasBegun(name)
                      /\ queue'[d][k].content = PushContent(First(name), queue'[d][k].block_id)
    PROVE  QueueInv(name)'
  BY DEF QueueInv, Kept

LEMMA StoredStays ==
    ASSUME NEW name \in Names, StoredInv(name), Kept(name), stored' = stored
    PROVE  StoredInv(name)'
  BY DEF StoredInv, Kept

LEMMA SenderStays ==
    ASSUME NEW name \in Names, SenderInv(name), Kept(name),
           \A c \in Clients : Sends(c, name)' =>
               Sends(c, name) /\ asked'[c] = asked[c] /\ local'[c][name] = local[c][name]
    PROVE  SenderInv(name)'
<1>1. ASSUME NEW c \in Clients, Sends(c, name)'
      PROVE  HasBegun(name)' /\ asked'[c].req_type = "write" /\ local'[c][name] = First(name)'
  <2>1. HasBegun(name) /\ asked[c].req_type = "write" /\ local[c][name] = First(name)
    BY <1>1 DEF SenderInv
  <2>2. asked'[c] = asked[c] /\ local'[c][name] = local[c][name]
    BY <1>1
  <2> QED  BY <2>1, <2>2 DEF Kept
<1> QED  BY <1>1 DEF SenderInv

LEMMA ImagesStay ==
    ASSUME NEW name \in Names, ImageInv(name), Kept(name), file_images' = file_images,
           mpc' \in Dealing => mpc \in Dealing /\ UNCHANGED <<file_image, first_id>>
    PROVE  ImageInv(name)'
<1>1. ASSUME NEW x \in Images, file_images'[x] # Null, file_images'[x].filename = name
      PROVE  /\ HasBegun(name)' /\ ListsInOrder(file_images[x], name)'
             /\ mpc' \in Dealing /\ file_image' = x => first_id' = 0
  <2>1. HasBegun(name) /\ ListsInOrder(file_images[x], name)
    BY <1>1 DEF ImageInv
  <2>2. mpc \in Dealing /\ file_image = x => first_id = 0
    BY <1>1 DEF ImageInv
  <2>3. HasBegun(name)' /\ ListsInOrder(file_images[x], name)'
    BY <2>1 DEF Kept, ListsInOrder
  <2> QED  BY <2>2, <2>3
<1> QED  BY <1>1 DEF ImageInv

LEMMA PullStays ==
    ASSUME NEW name \in Names, PullInv(name), Kept(name), NEW c \in Clients, Pulls(c, name),
           reply'[c] = reply[c], i'[c] = i[c], local'[c][name] = local[c][name]
    PROVE  HasPulled(c, name)'
<1>1. HasPulled(c, name)
  BY DEF PullInv
<1> QED  BY <1>1 DEF HasPulled, Kept

LEMMA PullsStay ==
    ASSUME NEW name \in Names, PullInv(name), Kept(name),
           \A c \in Clients : Pulls(c, name)' =>
               /\ Pulls(c, name) /\ reply'[c] = reply[c] /\ i'[c] = i[c]
               /\ local'[c][name] = local[c][name]
    PROVE  PullInv(name)'
  BY PullStays DEF PullInv
-----------------------------------------------------------------------------
(* Each step keeps what there is of a file that only its first push wrote. *)
LEMMA BeginsKeepFile ==
    ASSUME BaseInv, NEW name \in Names, FileInv(name), NEW c \in Clients, NEW x \in Names,
           \/ push_file(c, x) \/ pull_file(c, x) \/ get_system_info(c)
           \/ \E m \in Modifications : modify_file(c, x, m)
    PROVE  FileInv(name)'
<1>1. /\ pc[c] = "idle" /\ pc' = [pc EXCEPT ![c] = "asking"]
      /\ asked' = [asked EXCEPT ![c] = asked'[c]]
      /\ local' = local \/ local' = [local EXCEPT ![c][x] = << >>]
      /\ UNCHANGED <<reply, i, datanodeVars, namenodeVars, original>>
  BY BeginsEffect
<1>2. /\ \A b \in Clients \ {c} : pc'[b] = pc[b] /\ asked'[b] = asked[b] /\ local'[b] = local[b]
      /\ pc'[c] = "asking"
  BY <1>1 DEF BaseInv, DfsShapes
<1>3. Kept(name)
  BY <1>1 DEF Kept, HasBegun, First
<1>4. UNCHANGED <<queue, stored, mpc, file_images, file_image, first_id, reply, i>>
  BY <1>1 DEF datanodeVars, namenodeVars, mainVars, loopVars
<1>5. QueueInv(name)' /\ StoredInv(name)' /\ ImageInv(name)'
  BY <1>3, <1>4, QueueStays, StoredStays, ImagesStay DEF FileInv
<1>6. SenderInv(name)'
  BY <1>2, <1>3, SenderStays DEF FileInv, Sends
<1>7. PullInv(name)'
  BY <1>2, <1>3, <1>4, PullsStay DEF FileInv, Pulls
<1> QED  BY <1>5, <1>6, <1>7 DEF FileInv

(* What is sent comes from the local file of the only sender.              *)
LEMMA SendBlockKeepsFile ==
    ASSUME BaseInv, NEW name \in Names, FileInv(name), NEW c \in Clients, SendBlock(c)
    PROVE  FileInv(name)'
<1>1. /\ pc[c] = "blocks" /\ asked[c].req_type \in {"write", "modify"}
      /\ i' = [i EXCEPT ![c] = @ + 1]
      /\ UNCHANGED <<pc, asked, reply, local, stored, original, mpc, file_images, file_image,
                     first_id>>
  BY DEF SendBlock, Send, namenodeVars, mainVars, loopVars
<1>2. PICK d \in Datanodes, m \in Message :
         /\ m.op_type = 1 /\ m.content \in Content
         /\ m.owner_name = asked[c].file_name
         /\ asked[c].req_type = "write" =>
               m.content = PushContent(local[c][asked[c].file_name], m.block_id)
         /\ queue' = [queue EXCEPT ![d] = Append(@, m)]
  BY SendBlockEffect
<1>3. \A e \in Datanodes : \A k \in DOMAIN queue'[e] :
          \/ k \in DOMAIN queue[e] /\ queue'[e][k] = queue[e][k]
          \/ queue'[e][k] = m
  BY <1>2, RequestJoins DEF BaseInv
<1>4. m.owner_name = name => HasBegun(name) /\ m.content = PushContent(First(name), m.block_id)
  <2>1. m.owner_name = name => Sends(c, name)
    BY <1>1, <1>2 DEF Sends
  <2> QED  BY <1>2, <2>1 DEF FileInv, SenderInv, Sends
<1>5. Kept(name)
  BY <1>1 DEF Kept, HasBegun, First
<1>6. QueueInv(name)'
  BY <1>3, <1>4, <1>5, QueueStays DEF FileInv
<1>7. StoredInv(name)' /\ ImageInv(name)'
  BY <1>1, <1>5, StoredStays, ImagesStay DEF FileInv
<1>8. SenderInv(name)'
  BY <1>1, <1>5, SenderStays DEF FileInv, Sends
<1>9. PullInv(name)'
  <2>1. \A b \in Clients \ {c} : i'[b] = i[b]
    BY <1>1 DEF BaseInv, DfsShapes
  <2> QED  BY <1>1, <1>5, <2>1, PullsStay DEF FileInv, Pulls
<1> QED  BY <1>6, <1>7, <1>8, <1>9 DEF FileInv

LEMMA AskForBlockKeepsFile ==
    ASSUME BaseInv, NEW name \in Names, FileInv(name), NEW c \in Clients, AskForBlock(c)
    PROVE  FileInv(name)'
<1> DEFINE d == DatanodeAt(BlockOf(c))
           asks == [client |-> c, op_type |-> 0, owner_name |-> asked[c].file_name,
                    block_id |-> BlockOf(c).block_id, content |-> << >>]
<1>1. /\ pc[c] = "blocks" /\ asked[c].req_type = "read" /\ HasMore(c) /\ d # 0
      /\ queue' = [queue EXCEPT ![d] = Append(@, asks)]
      /\ pc' = [pc EXCEPT ![c] = "answer"]
      /\ UNCHANGED <<i, asked, reply, local, stored, original, mpc, file_images, file_image,
                     first_id>>
  BY DEF AskForBlock, Send, namenodeVars, mainVars, loopVars
<1>2. d \in Datanodes /\ asks \in Message /\ asks.op_type = 0
  <2>1. BlockOf(c).block_id \in BlockNumbers /\ asked[c].file_name \in Names
    BY <1>1, LoopInList, RequestFits DEF BaseInv, CallInv, ClientInv
  <2> QED  BY <1>1, <2>1, DatanodeIsThere DEF Message
<1> HIDE DEF d, asks
<1>3. \A e \in Datanodes : \A k \in DOMAIN queue'[e] :
          \/ k \in DOMAIN queue[e] /\ queue'[e][k] = queue[e][k]
          \/ queue'[e][k] = asks
  BY <1>1, <1>2, RequestJoins DEF BaseInv
<1>4. Kept(name)
  BY <1>1 DEF Kept, HasBegun, First
<1>5. QueueInv(name)'
  BY <1>2, <1>3, <1>4, QueueStays DEF FileInv
<1>6. StoredInv(name)' /\ ImageInv(name)'
  BY <1>1, <1>4, StoredStays, ImagesStay DEF FileInv
<1>7. \A b \in Clients : pc'[b] = IF b = c THEN "answer" ELSE pc[b]
  BY <1>1 DEF BaseInv, DfsShapes
<1>8. SenderInv(name)'
  BY <1>1, <1>4, <1>7, SenderStays DEF FileInv, Sends
<1>9. PullInv(name)'
  BY <1>1, <1>4, <1>7, PullsStay DEF FileInv, Pulls
<1> QED  BY <1>5, <1>6, <1>8, <1>9 DEF FileInv

LEMMA EndsKeepHistory ==
    ASSUME BaseInv, NEW name \in Names, NEW c \in Clients, EndCall(c) \/ Abort(c)
    PROVE  Kept(name) /\ (PushedOnly(name)' => PushedOnly(name))
<1> DEFINE n == asked[c].file_name
           sent == [original[n] EXCEPT !.state = "sent"]
<1>1. original \in [Names -> History] /\ n \in Names
  BY RequestFits DEF BaseInv, CallInv, ClientInv, DfsShapes, EndCall, Abort
<1>2. \/ original' = original
      \/ original[n].state = "sending" /\ original' = [original EXCEPT ![n] = sent]
  BY DEF EndCall, Abort
<1>3. sent.state = "sent" /\ sent.content = original[n].content
  BY <1>1 DEF History
<1> HIDE DEF n, sent
<1> QED  BY <1>1, <1>2, <1>3 DEF Kept, HasBegun, First, PushedOnly

LEMMA EndsKeepFile ==
    ASSUME BaseInv, NEW name \in Names, FileInv(name), NEW c \in Clients,
           EndCall(c) \/ Abort(c)
    PROVE  FileInv(name)'
<1>1. /\ pc[c] = "blocks" /\ pc' = [pc EXCEPT ![c] = pc'[c]] /\ pc'[c] \in {"idle", "aborted"}
      /\ UNCHANGED <<i, asked, reply, local, queue, stored, mpc, file_images, file_image,
                     first_id>>
  BY DEF EndCall, Abort, namenodeVars, datanodeVars, mainVars, loopVars, BaseInv, DfsShapes
<1>2. \A b \in Clients : pc'[b] = IF b = c THEN pc'[c] ELSE pc[b]
  BY <1>1 DEF BaseInv, DfsShapes
<1>3. Kept(name)
  BY EndsKeepHistory
<1>4. QueueInv(name)' /\ StoredInv(name)' /\ ImageInv(name)'
  BY <1>1, <1>3, QueueStays, StoredStays, ImagesStay DEF FileInv
<1>5. SenderInv(name)'
  BY <1>1, <1>2, <1>3, SenderStays DEF FileInv, Sends
<1>6. PullInv(name)'
  BY <1>1, <1>2, <1>3, PullsStay DEF FileInv, Pulls
<1> QED  BY <1>4, <1>5, <1>6 DEF FileInv
-----------------------------------------------------------------------------
(* The datanodes store and answer what they were sent.                     *)
LEMMA QueueStaysAsOneLeaves ==
    ASSUME DfsShapes, NEW name \in Names, QueueInv(name), Kept(name), NEW d \in Datanodes,
           queue[d] # << >>, queue' = [queue EXCEPT ![d] = Rest(d)]
    PROVE  QueueInv(name)'
<1>1. /\ \A e \in Datanodes \ {d} : queue'[e] = queue[e]
      /\ \A k \in DOMAIN queue'[d] : /\ k + 1 \in DOMAIN queue[d]
                                     /\ queue'[d][k] = queue[d][k + 1]
  BY RequestLeaves
<1>2. \A e \in Datanodes : \A k \in DOMAIN queue'[e] :
          \E j \in DOMAIN queue[e] : queue'[e][k] = queue[e][j]
  BY <1>1
<1> QED  BY <1>2, QueueStays

LEMMA CreateBlockKeepsFile ==
    ASSUME BaseInv, NEW name \in Names, FileInv(name), NEW d \in Datanodes, create_block(d)
    PROVE  FileInv(name)'
<1> DEFINE asks == Request(d)
<1>1. DfsShapes
  BY DEF BaseInv
<1>2. /\ queue[d] # << >> /\ queue' = [queue EXCEPT ![d] = Rest(d)]
      /\ 1 \in DOMAIN queue[d] /\ asks = queue[d][1] /\ asks \in Message /\ asks.op_type = 1
      /\ \A e \in Datanodes \ {d} : stored'[e] = stored[e]
      /\ DOMAIN stored'[d] = DOMAIN stored[d] \cup {Block_asked(d)}
      /\ \A b \in DOMAIN stored'[d] :
            stored'[d][b] = IF b = Block_asked(d) THEN asks.content ELSE stored[d][b]
      /\ UNCHANGED <<pc, asked, reply, i, local, mpc, file_images, file_image, first_id, original>>
  BY <1>1, CreateBlockEffect
<1>3. Kept(name)
  BY <1>2 DEF Kept, HasBegun, First
<1>4. QueueInv(name)'
  BY <1>1, <1>2, <1>3, QueueStaysAsOneLeaves DEF FileInv
<1>5. StoredInv(name)'
  <2>1. asks.owner_name = name =>
            HasBegun(name) /\ asks.content = PushContent(First(name), asks.block_id)
    BY <1>2 DEF FileInv, QueueInv
  <2>2. Block_asked(d) = <<asks.owner_name, asks.block_id>>
    BY DEF Block_asked
  <2>3. ASSUME NEW e \in Datanodes, NEW id \in BlockNumbers, <<name, id>> \in DOMAIN stored'[e]
        PROVE  HasBegun(name) /\ stored'[e][<<name, id>>] = PushContent(First(name), id)
    <3>1. CASE e = d /\ <<name, id>> = <<asks.owner_name, asks.block_id>>
      BY <1>2, <2>1, <2>2, <2>3, <3>1
    <3>2. CASE ~(e = d /\ <<name, id>> = <<asks.owner_name, asks.block_id>>)
      <4>1. <<name, id>> \in DOMAIN stored[e] /\ stored'[e][<<name, id>>] = stored[e][<<name, id>>]
        BY <1>2, <2>2, <2>3, <3>2
      <4> QED  BY <4>1 DEF FileInv, StoredInv
    <3> QED  BY <3>1, <3>2
  <2> QED  BY <1>3, <2>3 DEF StoredInv, Kept
<1>6. ImageInv(name)' /\ SenderInv(name)' /\ PullInv(name)'
  BY <1>2, <1>3, ImagesStay, SenderStays, PullsStay DEF FileInv, Sends, Pulls
<1> QED  BY <1>4, <1>5, <1>6 DEF FileInv

LEMMA ReadBlockKeepsFile ==
    ASSUME BaseInv, NEW name \in Names, FileInv(name), NEW d \in Datanodes, read_block(d)
    PROVE  FileInv(name)'
<1>1. PICK r \in Message :
         /\ r = Request(d) /\ r.client \in Clients /\ pc[r.client] = "answer"
         /\ asked[r.client].req_type = "read" /\ r.owner_name = asked[r.client].file_name
         /\ i[r.client] < reply[r.client].blocknum /\ reply[r.client] \in Image
         /\ r.block_id = reply[r.client].block_list[i[r.client]].block_id
         /\ r.op_type = 0 /\ r.owner_name \in Names /\ r.block_id \in BlockNumbers
         /\ <<r.owner_name, r.block_id>> \in DOMAIN stored[d]
         /\ queue[d] # << >> /\ queue' = [queue EXCEPT ![d] = Rest(d)]
         /\ local' = [local EXCEPT ![r.client][r.owner_name] =
                         WithBlock(@, r.block_id, stored[d][<<r.owner_name, r.block_id>>])]
         /\ pc' = [pc EXCEPT ![r.client] = "blocks"]
         /\ i' = [i EXCEPT ![r.client] = @ + 1]
         /\ UNCHANGED <<stored, asked, reply, mpc, file_images, file_image, first_id, original>>
  BY ReadBlockEffect
<1> DEFINE c == r.client
           n == i[c]
           B == reply[c].blocknum
           more == WithBlock(local[c][r.owner_name], r.block_id,
                             stored[d][<<r.owner_name, r.block_id>>])
<1>2. DfsShapes /\ c \in Clients
  BY <1>1 DEF BaseInv
<1>3. n \in Nat /\ B \in Nat /\ n < B
  <2>1. n \in 0 .. MaxFileBlkCount /\ B \in 0 .. MaxFileBlkCount
    BY <1>1, <1>2 DEF DfsShapes, Image
  <2>2. n < B
    BY <1>1
  <2>3. MaxFileBlkCount \in Nat
    BY LimitsAssumption
  <2> HIDE DEF n, B
  <2> QED  BY <2>1, <2>2, <2>3
<1>4. Kept(name)
  BY <1>1 DEF Kept, HasBegun, First
<1>5. QueueInv(name)' /\ StoredInv(name)' /\ ImageInv(name)'
  BY <1>1, <1>2, <1>4, QueueStaysAsOneLeaves, StoredStays, ImagesStay DEF FileInv
<1>6. /\ pc'[c] = "blocks" /\ i'[c] = n + 1 /\ local'[c][r.owner_name] = more
      /\ \A b \in Clients \ {c} : pc'[b] = pc[b] /\ i'[b] = i[b] /\ local'[b] = local[b]
  <2>1. /\ pc \in [Clients -> ClientPcs] /\ i \in [Clients -> 0 .. MaxFileBlkCount]
        /\ local \in [Clients -> [Names -> Seq(Bytes) \cup {NoFile}]]
    BY <1>2 DEF DfsShapes
  <2>2. /\ pc' = [pc EXCEPT ![c] = "blocks"] /\ i' = [i EXCEPT ![c] = n + 1]
        /\ local' = [local EXCEPT ![c][r.owner_name] = more] /\ r.owner_name \in Names
    BY <1>1
  <2> HIDE DEF c, n, more
  <2> QED  BY <1>2, <2>1, <2>2
<1>7. SenderInv(name)'
  <2>1. ASSUME NEW b \in Clients, Sends(b, name)'
        PROVE  Sends(b, name) /\ asked'[b] = asked[b] /\ local'[b][name] = local[b][name]
    <3>1. asked' = asked /\ b # c
      BY <1>1, <2>1 DEF Sends
    <3>2. pc'[b] = pc[b] /\ local'[b] = local[b]
      BY <1>6, <3>1
    <3> QED  BY <2>1, <3>1, <3>2 DEF Sends
  <2> QED  BY <1>4, <2>1, SenderStays DEF FileInv
<1>8. ASSUME Pulls(c, name)'  PROVE HasPulled(c, name)'
  <2>1. r.owner_name = name /\ Pulls(c, name)
    BY <1>1, <1>8 DEF Pulls
  <2>2. /\ HasBegun(name) /\ B = BlockCount(Len(First(name)))
        /\ \A k \in 0 .. B - 1 : reply[c].block_list[k].block_id = k
        /\ local[c][name] = Pulled(First(name), n)
    BY <1>2, <2>1 DEF FileInv, PullInv, HasPulled
  <2>3. r.block_id = n
    <3>1. n \in 0 .. B - 1
      <4> HIDE DEF n, B
      <4> QED  BY <1>3
    <3> QED  BY <1>1, <2>2, <3>1
  <2>4. stored[d][<<name, n>>] = PushContent(First(name), n)
    BY <1>1, <2>1, <2>3 DEF FileInv, StoredInv
  <2>5. First(name) \in Seq(Bytes)
    BY <1>2 DEF DfsShapes, History, First
  <2>6. local'[c][name] = Pulled(First(name), n + 1)
    <3>1. local'[c][name] = WithBlock(Pulled(First(name), n), n, PushContent(First(name), n))
      BY <1>6, <2>1, <2>2, <2>3, <2>4
    <3> QED  BY <1>3, <2>5, <3>1, PulledGrows
  <2>7. n + 1 <= B
    <3> HIDE DEF n, B
    <3> QED  BY <1>3
  <2>8. HasBegun(name)' /\ First(name)' = First(name) /\ reply'[c] = reply[c] /\ i'[c] = n + 1
    BY <1>1, <1>4, <1>6, <2>2 DEF Kept
  <2> HIDE DEF c, n
  <2> QED  BY <2>2, <2>6, <2>7, <2>8 DEF HasPulled
<1>9. ASSUME NEW b \in Clients, b # c, Pulls(b, name)'  PROVE HasPulled(b, name)'
  <2>1. /\ Pulls(b, name) /\ reply'[b] = reply[b] /\ i'[b] = i[b]
        /\ local'[b][name] = local[b][name]
    BY <1>1, <1>6, <1>9 DEF Pulls
  <2> QED  BY <1>4, <2>1, PullStays DEF FileInv
<1> QED  BY <1>5, <1>7, <1>8, <1>9 DEF FileInv, PullInv

LEMMA DownKeepsFile ==
    ASSUME BaseInv, NEW name \in Names, FileInv(name), NEW d \in Datanodes, GoDown(d)
    PROVE  FileInv(name)'
<1> DEFINE Lost(c) == \E k \in DOMAIN queue[d] :
                          queue[d][k].client = c /\ queue[d][k].op_type = 0
<1>1. /\ queue' = [queue EXCEPT ![d] = << >>]
      /\ pc' = [c \in Clients |-> IF Lost(c) THEN "spinning" ELSE pc[c]]
      /\ UNCHANGED <<stored, asked, reply, i, local, mpc, file_images, file_image, first_id,
                     original>>
  BY DEF GoDown, namenodeVars, mainVars, loopVars
<1>2. \A c \in Clients : pc'[c] = pc[c] \/ pc'[c] = "spinning"
  BY <1>1
<1>3. \A e \in Datanodes : \A k \in DOMAIN queue'[e] :
          k \in DOMAIN queue[e] /\ queue'[e][k] = queue[e][k]
  <2>1. DOMAIN << >> = {}
    BY EmptySeq
  <2> QED  BY <1>1, <2>1 DEF BaseInv, DfsShapes
<1>4. Kept(name)
  BY <1>1 DEF Kept, HasBegun, First
<1>5. QueueInv(name)'
  BY <1>3, <1>4, QueueStays DEF FileInv
<1>6. StoredInv(name)' /\ ImageInv(name)'
  BY <1>1, <1>4, StoredStays, ImagesStay DEF FileInv
<1>7. SenderInv(name)'
  BY <1>1, <1>2, <1>4, SenderStays DEF FileInv, Sends
<1>8. PullInv(name)'
  BY <1>1, <1>2, <1>4, PullsStay DEF FileInv, Pulls
<1> QED  BY <1>5, <1>6, <1>7, <1>8 DEF FileInv
-----------------------------------------------------------------------------
(* The namenode's loop gives a list that it deals from number 0 on a first *)
(* block with the number 0.                                                *)
LEMMA LoopKeepsImage ==
    ASSUME IInv, DealInv, NEW name \in Names, ImageInv(name), Kept(name), AssignPort
    PROVE  ImageInv(name)'
<1> DEFINE old == file_images[file_image]
           new == [old EXCEPT !.block_list = [@ EXCEPT ![next] = block_data']]
<1>1. /\ mpc = "port" /\ mpc' = "dn_id" /\ UNCHANGED <<file_image, first_id>>
      /\ block_data' = [block_data EXCEPT !.loc_port = dnlist[Target].port]
  BY DEF AssignPort
<1>2. file_images' = [file_images EXCEPT ![file_image] = new]
  <2>1. file_images' = [file_images EXCEPT ![file_image].block_list[next] = block_data']
    BY DEF AssignPort
  <2> QED  BY <2>1
<1>3. InFile /\ old # Null /\ file_image \in Images /\ old \in Image /\ next \in BlockIndices
  BY <1>1, LoopIndex DEF IInv, MainInv, LoopFillsAFile
<1>4. block_data'.block_id = first_id + next
  <2>1. block_data \in Block /\ block_data.block_id = first_id + next
    BY <1>1 DEF DealInv, BlockInHand, BlockId, IInv, MainInv, MainTypes
  <2> QED  BY <1>1, <2>1 DEF Block
<1>5. /\ new.filename = old.filename /\ new.blocknum = old.blocknum
      /\ new.block_list[0].block_id = IF next = 0 THEN first_id + next
                                      ELSE old.block_list[0].block_id
  <2>1. old.block_list \in [BlockIndices -> Block] /\ 0 \in BlockIndices
    BY <1>3, LimitsAssumption DEF Image, BlockIndices
  <2>2. new.block_list = [old.block_list EXCEPT ![next] = block_data']
        /\ new.filename = old.filename /\ new.blocknum = old.blocknum
    BY <1>3 DEF Image
  <2> HIDE DEF new, old
  <2> QED  BY <1>3, <1>4, <2>1, <2>2
<1>6. \A x \in Images : file_images'[x] = IF x = file_image THEN new ELSE file_images[x]
  <2>1. file_images \in [Images -> Image \cup {Null}]
    BY DEF IInv, MainInv, MainTypes
  <2> HIDE DEF new
  <2> QED  BY <1>2, <2>1
<1> HIDE DEF new, old
<1>7. ASSUME NEW x \in Images, file_images'[x] # Null, file_images'[x].filename = name
      PROVE  /\ HasBegun(name)' /\ ListsInOrder(file_images[x], name)'
             /\ mpc' \in Dealing /\ file_image' = x => first_id' = 0
  <2>1. file_images[x] # Null /\ file_images[x].filename = name
    BY <1>3, <1>5, <1>6, <1>7 DEF old
  <2>2. /\ HasBegun(name) /\ ListsInOrder(file_images[x], name)
        /\ file_image = x => first_id = 0
    BY <1>1, <2>1 DEF ImageInv, Dealing
  <2>3. CASE x # file_image
    <3>1. file_images'[x] = file_images[x]
      BY <1>6, <2>3
    <3> QED  BY <1>1, <2>2, <2>3, <3>1 DEF Kept, ListsInOrder
  <2>4. CASE x = file_image
    <3>1. new.blocknum = BlockCount(Len(First(name))) /\ new.block_list[0].block_id = 0
      <4>1. next = 0 => first_id + next = 0
        BY <2>2, <2>4
      <4> QED  BY <1>5, <2>2, <2>4, <4>1 DEF ListsInOrder, old
    <3>2. file_images'[x] = new
      BY <1>6, <2>4
    <3> QED  BY <1>1, <2>2, <2>4, <3>1, <3>2 DEF Kept, ListsInOrder
  <2> QED  BY <2>3, <2>4
<1> QED  BY <1>7 DEF ImageInv

LEMMA CrashKeepsFile ==
    ASSUME BaseInv, NEW name \in Names, FileInv(name), NamenodeWorks, mpc' = "crashed"
    PROVE  FileInv(name)'
<1>1. /\ UNCHANGED <<asked, reply, i, local, queue, stored, original, file_images, file_image,
                      first_id>>
      /\ \A c \in Clients : pc'[c] = pc[c] \/ pc'[c] = "spinning"
  BY CrashEffect
<1>2. Kept(name)
  BY <1>1 DEF Kept, HasBegun, First
<1>3. QueueInv(name)' /\ StoredInv(name)'
  BY <1>1, <1>2, QueueStays, StoredStays DEF FileInv
<1>4. ImageInv(name)'
  BY <1>1, <1>2, ImagesStay DEF FileInv, Dealing
<1>5. SenderInv(name)'
  BY <1>1, <1>2, SenderStays DEF FileInv, Sends
<1>6. PullInv(name)'
  BY <1>1, <1>2, PullsStay DEF FileInv, Pulls
<1> QED  BY <1>3, <1>4, <1>5, <1>6 DEF FileInv

LEMMA WorksKeepsFile ==
    ASSUME DfsBase, NEW name \in Names, FileInv(name), NamenodeWorks, mpc' # "crashed"
    PROVE  FileInv(name)'
<1>1. /\ UNCHANGED <<asked, local, queue, stored, original>> /\ MainStep
      /\ \A b \in Clients : b # served => pc'[b] = pc[b] /\ reply'[b] = reply[b] /\ i'[b] = i[b]
      /\ \/ pc' = pc /\ reply' = reply /\ i' = i
         \/ served \in Clients /\ pc'[served] = "idle"
         \/ /\ served \in Clients /\ pc[served] = "waiting" /\ pc'[served] = "blocks"
            /\ asked[served].req_type \in {"write", "modify"}
  BY WorksEffect DEF DfsBase, NamenodeWorks
<1>2. Kept(name)
  BY <1>1 DEF Kept, HasBegun, First
<1>3. QueueInv(name)' /\ StoredInv(name)'
  BY <1>1, <1>2, QueueStays, StoredStays DEF FileInv
<1>4. SenderInv(name)'
  BY <1>1, <1>2, SenderStays DEF FileInv, Sends
<1>5. PullInv(name)'
  BY <1>1, <1>2, PullsStay DEF FileInv, Pulls
<1>6. ImageInv(name)'
  <2>1. CASE AssignPort
    BY <1>2, <2>1, LoopKeepsImage DEF DfsBase, FileInv
  <2>2. CASE ~AssignPort
    <3>1. /\ file_images' = file_images
          /\ mpc' \in Dealing => mpc \in Dealing /\ UNCHANGED <<file_image, first_id>>
      BY <1>1, <2>2 DEF MainStep, LeaveSafeMode, AssignId, AssignIp, AnswerAssignment, Answer,
                        ListDatanode, AnswerList, Crash, loopVars, Dealing
    <3> QED  BY <1>2, <3>1, ImagesStay DEF FileInv
  <2> QED  BY <2>1, <2>2
<1> QED  BY <1>3, <1>4, <1>5, <1>6 DEF FileInv
-----------------------------------------------------------------------------
(* What a request changes in the table of files: nothing, or the image of  *)
(* its file, which the loop then fills.                                    *)
LEMMA AcceptImages ==
    ASSUME IInv, NEW r \in Requests, Accept(r)
    PROVE  \/ file_images' = file_images /\ mpc' \in {"accept", "list"}
           \/ /\ r.req_type \in {"write", "modify"} /\ mpc' = "dn_id"
              /\ \E x \in Images : \E f \in Image :
                    /\ file_image' = x /\ f.filename = r.file_name
                    /\ file_images' = [file_images EXCEPT ![x] = f]
                    /\ \/ file_images[x] # Null /\ file_images[x].filename = r.file_name
                       \/ /\ r.req_type = "write" /\ first_id' = 0
                          /\ f.blocknum = BlockCount(r.file_size)
                          /\ f.block_list[0].block_id = 0
<1> DEFINE found == ImageOf(r.file_name)
           x == IF found # -1 THEN found ELSE FreeImage
           image == IF found # -1 THEN file_images[found] ELSE NewFile(r)
           f == [image EXCEPT !.blocknum = BlockCount(r.file_size)]
           g == [file_images[found] EXCEPT !.blocknum = BlockCount(r.file_size),
                                           !.file_size = r.file_size]
<1>1. /\ r.req_type \in {"read", "write", "query", "modify"} /\ r.file_name \in Names
      /\ r.file_size \in Sizes /\ BlockCount(r.file_size) \in 0 .. MaxFileBlkCount
  BY RequestFits
<1>2. /\ found = -1 => NewFile(r) \in Image /\ NewFile(r).filename = r.file_name
      /\ found # -1 => /\ found \in Images /\ file_images[found] \in Image
                       /\ file_images[found].filename = r.file_name
  BY ImageOfFile, NewFileIsImage DEF IInv, MainInv
<1> HIDE DEF found
<1>3. CASE r.req_type \in {"read", "query"}
  BY <1>3 DEF Accept, get_file_location, get_system_information, Answer
<1>4. CASE r.req_type = "write"
  <2>1. get_file_receivers(r)
    BY <1>4 DEF Accept
  <2>2. \/ file_images' = file_images /\ mpc' = "accept"
        \/ /\ x # -1 /\ file_images' = [file_images EXCEPT ![x] = f] /\ mpc' = "dn_id"
           /\ file_image' = x /\ first_id' = image.blocknum
    BY <2>1 DEF get_file_receivers, Answer, Assign, found
  <2>3. CASE x # -1 /\ found = -1
    <3>1. x \in Images
      BY <2>3, FreeImageIsFree DEF IInv, MainInv
    <3>2. image = NewFile(r)
      BY <2>3
    <3>3. /\ f \in Image /\ f.filename = r.file_name /\ f.blocknum = BlockCount(r.file_size)
          /\ f.block_list[0].block_id = 0 /\ image.blocknum = 0
      <4>1. 0 \in BlockIndices
        BY LimitsAssumption DEF BlockIndices
      <4>2. /\ image.blocknum = 0 /\ image.block_list[0].block_id = 0 /\ image \in Image
            /\ image.filename = r.file_name
        BY <1>2, <2>3, <3>2, <4>1 DEF NewFile, ZeroBlock
      <4> HIDE DEF image
      <4> QED  BY <1>1, <4>2 DEF Image
    <3> HIDE DEF f, x, image
    <3> QED  BY <1>4, <2>2, <3>1, <3>3
  <2>4. CASE x # -1 /\ found # -1
    <3>1. x = found /\ image = file_images[found]
      BY <2>4
    <3>2. f \in Image /\ f.filename = r.file_name
      <4> HIDE DEF image
      <4> QED  BY <1>1, <1>2, <2>4, <3>1 DEF Image
    <3>3. x \in Images /\ file_images[x] # Null /\ file_images[x].filename = r.file_name
      BY <1>2, <2>4, <3>1, MemoryAssumption
    <3> HIDE DEF f, x, image
    <3> QED  BY <1>4, <2>2, <3>2, <3>3
  <2> QED  BY <2>2, <2>3, <2>4
<1>5. CASE r.req_type = "modify"
  <2>1. get_file_update_point(r)
    BY <1>5 DEF Accept
  <2>2. \/ file_images' = file_images /\ mpc' = "accept"
        \/ /\ found # -1 /\ file_images' = [file_images EXCEPT ![found] = g] /\ mpc' = "dn_id"
           /\ file_image' = found
    BY <2>1 DEF get_file_update_point, Answer, Assign, found
  <2>3. found # -1 => g \in Image /\ g.filename = r.file_name
    BY <1>1, <1>2 DEF Image
  <2> HIDE DEF g
  <2> QED  BY <1>2, <1>5, <2>2, <2>3, MemoryAssumption
<1> QED  BY <1>1, <1>3, <1>4, <1>5

(* A request changes what is known of a first push only where it is one.   *)
LEMMA ConnectHistory ==
    ASSUME BaseInv, NEW c \in Clients, Connect(c), NEW name \in Names, PushedOnly(name)'
    PROVE  /\ Kept(name) /\ PushedOnly(name)
           /\ name = asked[c].file_name /\ asked[c].req_type \in {"write", "modify"} =>
                 /\ asked[c].req_type = "write" /\ ~HasBegun(name) /\ HasBegun(name)'
                 /\ First(name)' = local[c][name] /\ local[c][name] \in Seq(Bytes)
<1> DEFINE n == asked[c].file_name
           first == [content |-> local[c][n], by |-> c, state |-> "sending"]
           mixed == [original[n] EXCEPT !.state = "mixed"]
<1>1. original \in [Names -> History] /\ asked[c] \in Requests /\ n \in Names
      /\ asked[c].req_type \in {"read", "write", "query", "modify"}
  BY RequestFits DEF BaseInv, DfsShapes, CallInv, ClientInv, Connect
<1>2. \/ asked[c].req_type \in {"read", "query"} /\ original' = original
      \/ /\ asked[c].req_type = "write" /\ original[n].state = "none"
         /\ original' = [original EXCEPT ![n] = first]
      \/ original' = [original EXCEPT ![n] = mixed]
  BY <1>1 DEF Connect
<1>3. first.state = "sending" /\ first.content = local[c][n] /\ mixed.state = "mixed"
  BY <1>1 DEF History
<1>4. asked[c].req_type = "write" => local[c][n] \in Seq(Bytes)
  BY DEF Connect, BaseInv, CallInv, ClientInv, FileAsked
<1> HIDE DEF n, first, mixed
<1>5. CASE original' = original /\ asked[c].req_type \in {"read", "query"}
  BY <1>5 DEF Kept, HasBegun, First, PushedOnly
<1>6. CASE original' = [original EXCEPT ![n] = mixed]
  <2>1. name # n /\ original'[name] = original[name]
    BY <1>1, <1>3, <1>6 DEF PushedOnly
  <2> QED  BY <2>1 DEF Kept, HasBegun, First, PushedOnly, n
<1>7. CASE /\ asked[c].req_type = "write" /\ original[n].state = "none"
           /\ original' = [original EXCEPT ![n] = first]
  <2>1. CASE name = n
    <3>1. original'[n] = first
      BY <1>1, <1>7
    <3> QED  BY <1>3, <1>4, <1>7, <2>1, <3>1 DEF Kept, HasBegun, First, PushedOnly
  <2>2. CASE name # n
    <3>1. original'[name] = original[name]
      BY <1>7, <1>1, <2>2
    <3> QED  BY <2>2, <3>1 DEF Kept, HasBegun, First, PushedOnly, n
  <2> QED  BY <2>1, <2>2
<1> QED  BY <1>2, <1>5, <1>6, <1>7

LEMMA ConnectKeepsFile ==
    ASSUME DfsBase, NEW name \in Names, FileInv(name), NEW c \in Clients, Connect(c),
           PushedOnly(name)'
    PROVE  FileInv(name)'
<1> DEFINE r == asked[c]
<1>1. /\ Kept(name)
      /\ name = r.file_name /\ r.req_type \in {"write", "modify"} =>
            /\ r.req_type = "write" /\ ~HasBegun(name) /\ HasBegun(name)'
            /\ First(name)' = local[c][name] /\ local[c][name] \in Seq(Bytes)
  BY ConnectHistory DEF DfsBase
<1>2. /\ pc[c] = "asking" /\ Accept(r) /\ UNCHANGED <<asked, local, queue, stored>>
      /\ r \in Requests /\ mpc = "accept"
      /\ \A b \in Clients \ {c} : pc'[b] = pc[b] /\ reply'[b] = reply[b] /\ i'[b] = i[b]
      /\ \/ pc'[c] = "spinning"
         \/ /\ pc'[c] = "blocks" /\ r.req_type \in {"read", "modify"}
            /\ i'[c] = range[c].start_addr \div DfsBlockSize
            /\ \E x \in Images : /\ file_images[x] # Null /\ reply'[c] = file_images[x]
                                 /\ file_images[x].filename = r.file_name
         \/ /\ mpc' # "accept" /\ pc'[c] = "waiting"
      /\ mpc' \in {"accept", "dn_id", "list"}
      /\ mpc' = "dn_id" => r.req_type \in {"write", "modify"}
      /\ mpc' = "list" => r.req_type = "query"
  BY ConnectEffect DEF DfsBase, Accept
<1>3. QueueInv(name)' /\ StoredInv(name)'
  BY <1>1, <1>2, QueueStays, StoredStays DEF FileInv
<1>4. SenderInv(name)'
  <2>1. ASSUME NEW b \in Clients, Sends(b, name)'
        PROVE  HasBegun(name)' /\ asked'[b].req_type = "write" /\ local'[b][name] = First(name)'
    <3>1. CASE b = c
      BY <1>1, <1>2, <2>1, <3>1 DEF Sends
    <3>2. CASE b # c
      <4>1. Sends(b, name)
        BY <1>2, <2>1, <3>2 DEF Sends
      <4>2. HasBegun(name) /\ asked[b].req_type = "write" /\ local[b][name] = First(name)
        BY <4>1 DEF FileInv, SenderInv
      <4> QED  BY <1>1, <1>2, <4>2 DEF Kept
    <3> QED  BY <3>1, <3>2
  <2> QED  BY <2>1 DEF SenderInv
<1>5. ImageInv(name)'
  <2>1. CASE file_images' = file_images /\ mpc' \in {"accept", "list"}
    BY <1>1, <2>1, ImagesStay DEF FileInv, Dealing
  <2>2. CASE r.req_type \in {"write", "modify"} /\ mpc' = "dn_id"
    <3>1. PICK x \in Images : \E f \in Image :
             /\ file_image' = x /\ f.filename = r.file_name
             /\ file_images' = [file_images EXCEPT ![x] = f]
             /\ \/ file_images[x] # Null /\ file_images[x].filename = r.file_name
                \/ /\ r.req_type = "write" /\ first_id' = 0
                   /\ f.blocknum = BlockCount(r.file_size)
                   /\ f.block_list[0].block_id = 0
      BY <1>2, <2>2, AcceptImages DEF DfsBase
    <3>2. PICK f \in Image :
             /\ file_image' = x /\ f.filename = r.file_name
             /\ file_images' = [file_images EXCEPT ![x] = f]
             /\ \/ file_images[x] # Null /\ file_images[x].filename = r.file_name
                \/ /\ r.req_type = "write" /\ first_id' = 0
                   /\ f.blocknum = BlockCount(r.file_size)
                   /\ f.block_list[0].block_id = 0
      BY <3>1
    <3>3. \A y \in Images : file_images'[y] = IF y = x THEN f ELSE file_images[y]
      BY <3>2 DEF DfsBase, IInv, MainInv, MainTypes
    <3>4. ASSUME NEW y \in Images, file_images'[y] # Null, file_images'[y].filename = name
          PROVE  /\ HasBegun(name)' /\ ListsInOrder(file_images[y], name)'
                 /\ mpc' \in Dealing /\ file_image' = y => first_id' = 0
      <4>1. CASE name # r.file_name
        <5>1. y # x /\ file_images'[y] = file_images[y]
          BY <3>2, <3>3, <3>4, <4>1
        <5>2. HasBegun(name) /\ ListsInOrder(file_images[y], name)
          BY <3>4, <5>1 DEF FileInv, ImageInv
        <5> QED  BY <1>1, <3>2, <5>1, <5>2 DEF Kept, ListsInOrder
      <4>2. CASE name = r.file_name
        <5>1. ~HasBegun(name) /\ HasBegun(name)' /\ First(name)' = local[c][name]
              /\ r.req_type = "write"
          BY <1>1, <2>2, <4>2
        <5>2. \A z \in Images : file_images[z] # Null => file_images[z].filename # name
          BY <5>1 DEF FileInv, ImageInv
        <5>3. y = x /\ file_images'[y] = f
          BY <3>3, <3>4, <5>2
        <5>4. /\ first_id' = 0 /\ f.blocknum = BlockCount(r.file_size)
              /\ f.block_list[0].block_id = 0
          BY <3>2, <4>2, <5>2
        <5>5. r.file_size = Len(local[c][name])
          BY <1>2, <4>2, <5>1 DEF DfsBase, BaseInv, CallInv, ClientInv, FileAsked
        <5> QED  BY <5>1, <5>3, <5>4, <5>5 DEF ListsInOrder
      <4> QED  BY <4>1, <4>2
    <3> QED  BY <3>4 DEF ImageInv
  <2> QED  BY <1>2, <2>1, <2>2, AcceptImages DEF DfsBase
<1>6. PullInv(name)'
  <2>1. ASSUME NEW b \in Clients, b # c, Pulls(b, name)'  PROVE HasPulled(b, name)'
    <3>1. /\ Pulls(b, name) /\ reply'[b] = reply[b] /\ i'[b] = i[b]
          /\ local'[b][name] = local[b][name]
      BY <1>2, <2>1 DEF Pulls
    <3> QED  BY <1>1, <3>1, PullStays DEF FileInv
  <2>2. ASSUME Pulls(c, name)'  PROVE HasPulled(c, name)'
    <3>1. pc'[c] = "blocks" /\ r.req_type = "read" /\ name = r.file_name
      BY <1>2, <2>2 DEF Pulls
    <3>2. PICK x \in Images : /\ file_images[x] # Null /\ reply'[c] = file_images[x]
                              /\ file_images[x].filename = name
      BY <1>2, <3>1
    <3>3. HasBegun(name) /\ ListsInOrder(file_images[x], name)
      BY <3>2 DEF FileInv, ImageInv
    <3>4. \A k \in 0 .. file_images[x].blocknum - 1 : file_images[x].block_list[k].block_id = k
      BY <1>2, <3>2, <3>3, BlocksBetweenRequests DEF DfsBase, IInv, ListsInOrder
    <3>5. i'[c] = 0
      <4>1. range[c] = Whole
        BY <1>2, <3>1 DEF DfsBase, BaseInv, CallInv, ClientInv
      <4> QED  BY <1>2, <3>1, <4>1, RangeFits
    <3>6. local'[c][name] = Pulled(First(name), 0)
      <4>1. local[c][name] = << >>
        BY <1>2, <3>1 DEF DfsBase, BaseInv, CallInv, ClientInv, FileAsked
      <4>2. First(name) \in Seq(Bytes)
        BY DEF DfsBase, BaseInv, DfsShapes, History, First
      <4> QED  BY <1>2, <4>1, <4>2, PulledIsFile
    <3>7. file_images[x].blocknum \in 0 .. MaxFileBlkCount
      BY <3>2, ImagesAreImages DEF DfsBase, Image
    <3>8. 0 <= file_images[x].blocknum
      BY <3>7, LimitsAssumption
    <3> QED  BY <1>1, <3>2, <3>3, <3>4, <3>5, <3>6, <3>8 DEF HasPulled, Kept, ListsInOrder
  <2> QED  BY <2>1, <2>2 DEF PullInv
<1> QED  BY <1>3, <1>4, <1>5, <1>6 DEF FileInv
-----------------------------------------------------------------------------
LEMMA PushIsKept ==
    ASSUME DfsBase, PushInv, [DfsNext]_dfsVars
    PROVE  PushInv'
<1> SUFFICES ASSUME NEW name \in Names, PushedOnly(name)'  PROVE FileInv(name)'
  BY DEF PushInv
<1>1. IInv /\ BaseInv
  BY DEF DfsBase
<1>2. ASSUME original' = original  PROVE FileInv(name)
  BY <1>2 DEF PushedOnly, PushInv
<1>3. ASSUME NEW c \in Clients, NEW x \in Names,
             \/ push_file(c, x) \/ pull_file(c, x) \/ get_system_info(c)
             \/ \E m \in Modifications : modify_file(c, x, m)
      PROVE  FileInv(name)'
  BY <1>1, <1>2, <1>3, BeginsEffect, BeginsKeepFile
<1>4. ASSUME NEW c \in Clients, Connect(c)  PROVE FileInv(name)'
  <2>1. FileInv(name)
    BY <1>1, <1>4, ConnectHistory DEF PushInv
  <2> QED  BY <1>4, <2>1, ConnectKeepsFile
<1>5. ASSUME NEW c \in Clients, SendBlock(c)  PROVE FileInv(name)'
  BY <1>1, <1>2, <1>5, SendBlockKeepsFile DEF SendBlock
<1>6. ASSUME NEW c \in Clients, AskForBlock(c)  PROVE FileInv(name)'
  BY <1>1, <1>2, <1>6, AskForBlockKeepsFile DEF AskForBlock
<1>7. ASSUME NEW c \in Clients, EndCall(c) \/ Abort(c)  PROVE FileInv(name)'
  <2>1. PushedOnly(name)
    BY <1>1, <1>7, EndsKeepHistory
  <2> QED  BY <1>1, <1>7, <2>1, EndsKeepFile DEF PushInv
<1>8. ASSUME NamenodeWorks  PROVE FileInv(name)'
  BY <1>1, <1>2, <1>8, WorksKeepsFile, CrashKeepsFile DEF NamenodeWorks
<1>9. ASSUME NEW d \in Datanodes, create_block(d)  PROVE FileInv(name)'
  BY <1>1, <1>2, <1>9, CreateBlockKeepsFile DEF create_block
<1>10. ASSUME NEW d \in Datanodes, read_block(d)  PROVE FileInv(name)'
  BY <1>1, <1>2, <1>10, ReadBlockKeepsFile DEF read_block
<1>11. ASSUME NEW d \in Datanodes, GoDown(d)  PROVE FileInv(name)'
  BY <1>1, <1>2, <1>11, DownKeepsFile DEF GoDown
<1>12. ASSUME Aside  PROVE FileInv(name)'
  <2>1. UNCHANGED <<pc, asked, reply, i, local, queue, stored, original, mpc, file_images,
                    file_image, first_id>>
    BY <1>12 DEF Aside
  <2>2. Kept(name) /\ FileInv(name)
    BY <1>2, <2>1 DEF Kept, HasBegun, First
  <2> QED  BY <2>1, <2>2, QueueStays, StoredStays, ImagesStay, SenderStays, PullsStay
              DEF FileInv, Sends, Pulls
<1> QED  BY <1>3, <1>4, <1>5, <1>6, <1>7, <1>8, <1>9, <1>10, <1>11, <1>12, DfsSteps, StepsAside

DfsInv == DfsBase /\ PushInv

LEMMA DfsInvariantHolds == DfsSpec => []DfsInv
<1>1. DfsInit => PushInv
  BY StartOfCalls
<1>2. DfsBase /\ PushInv /\ [DfsNext]_dfsVars => PushInv'
  BY PushIsKept
<1> QED  BY <1>1, <1>2, DfsBaseHolds, PTL DEF DfsSpec, DfsInv

(* What waits in a listen queue and what a datanode stores are whole       *)
(* blocks, and their numbers are such as a block list can show             *)
(* (dfs_client.c:26-70, 99-125; dfs_datanode.c:93-115).                    *)
THEOREM DfsTypesAreCorrect == DfsSpec => []DfsTypeOK
<1>1. DfsBase => DfsTypeOK
  <2> SUFFICES ASSUME DfsShapes  PROVE DfsTypeOK
    BY DEF DfsBase, BaseInv
  <2>1. pc \in [Clients -> ClientPcs] /\ served \in Clients \cup {Nobody}
    BY DEF DfsShapes
  <2>2. \A c \in Clients : asked[c] \in Requests \cup {Null} /\ i[c] \in 0 .. MaxFileBlkCount
    BY DEF DfsShapes
  <2>3. ASSUME NEW d \in Datanodes
        PROVE  /\ \A k \in DOMAIN queue[d] :
                     queue[d][k].op_type = 1 => DOMAIN queue[d][k].content = Offsets
               /\ \A b \in DOMAIN stored[d] : b \in Names \X BlockNumbers
    BY DEF DfsShapes, Content, Stored
  <2> QED  BY <2>1, <2>2, <2>3 DEF DfsTypeOK
<1> QED  BY <1>1, DfsBaseHolds, PTL

LEMMA OnlyEndCallEnds ==
    ASSUME DfsBase, [DfsNext]_dfsVars, NEW c \in Clients, pc[c] = "blocks", pc'[c] = "idle"
    PROVE  EndCall(c)
<1>1. IInv /\ BaseInv /\ pc \in [Clients -> ClientPcs]
  BY DEF DfsBase, BaseInv, DfsShapes
<1>2. ASSUME NEW b \in Clients, NEW x \in Names,
             \/ push_file(b, x) \/ pull_file(b, x) \/ get_system_info(b)
             \/ \E m \in Modifications : modify_file(b, x, m)
      PROVE  FALSE
  BY <1>1, <1>2, BeginsEffect
<1>3. ASSUME NEW b \in Clients, Connect(b)  PROVE FALSE
  <2>1. /\ pc[b] = "asking" /\ pc'[b] \in {"spinning", "blocks", "waiting"}
        /\ \A e \in Clients \ {b} : pc'[e] = pc[e]
    BY <1>1, <1>3, ConnectEffect
  <2> QED  BY <2>1
<1>4. ASSUME NamenodeWorks  PROVE FALSE
  <2>1. \/ /\ \A b \in Clients : b # served => pc'[b] = pc[b]
           /\ pc' = pc \/ mpc \in Dealing \cup {"list"}
        \/ pc'[c] = pc[c] \/ pc'[c] = "spinning"
    BY <1>1, <1>4, WorksEffect, CrashEffect
  <2>2. mpc \in Dealing \cup {"list"} => pc[served] = "waiting"
    BY <1>1 DEF BaseInv, CallInv, ServedInv
  <2> QED  BY <2>1, <2>2
<1>5. ASSUME NEW b \in Clients, SendBlock(b) \/ AskForBlock(b) \/ Abort(b)  PROVE FALSE
  BY <1>1, <1>5 DEF SendBlock, AskForBlock, Abort
<1>6. ASSUME NEW b \in Clients, EndCall(b)  PROVE b = c
  BY <1>1, <1>6 DEF EndCall
<1>7. ASSUME NEW d \in Datanodes, create_block(d) \/ GoDown(d)  PROVE FALSE
  BY <1>1, <1>7 DEF create_block, GoDown, clientVars
<1>8. ASSUME NEW d \in Datanodes, read_block(d)  PROVE FALSE
  BY <1>1, <1>8 DEF read_block
<1>9. ~Aside
  BY DEF Aside
<1> QED  BY <1>2, <1>3, <1>4, <1>5, <1>6, <1>7, <1>8, <1>9, DfsSteps, StepsAside

(* A pull that ends has, of a file that one push wrote, what the push read *)
(* from its local file, filled up to whole blocks (dfs_client.c:127-168).   *)
THEOREM PullsGetThePush == DfsSpec => PulledIsPushed
<1>1. DfsInv /\ [DfsNext]_dfsVars => [\A c \in Clients : PullEndsWhole(c)]_dfsVars
  <2> SUFFICES ASSUME DfsBase, PushInv, [DfsNext]_dfsVars, NEW c \in Clients, pc[c] = "blocks",
                      pc'[c] = "idle", asked[c].req_type = "read",
                      PushedOnly(asked[c].file_name)
               PROVE  local[c][asked[c].file_name] = Padded(First(asked[c].file_name))
    BY DEF DfsInv, PullEndsWhole, PushedOnly, First
  <2> DEFINE name == asked[c].file_name
             n == i[c]
             B == reply[c].blocknum
  <2>1. EndCall(c)
    BY OnlyEndCallEnds DEF DfsBase
  <2>2. ~(n < B)
    BY <2>1 DEF EndCall, HasMore
  <2>3. name \in Names /\ Pulls(c, name) /\ n \in 0 .. MaxFileBlkCount /\ B \in 0 .. MaxFileBlkCount
    BY RequestFits DEF DfsBase, BaseInv, CallInv, ClientInv, Pulls, DfsShapes, Image
  <2>4. HasPulled(c, name)
    BY <2>3 DEF PushInv, FileInv, PullInv
  <2>5. B = BlockCount(Len(First(name))) /\ n <= B /\ local[c][name] = Pulled(First(name), n)
    BY <2>4 DEF HasPulled
  <2>6. n = B
    <3> HIDE DEF n, B
    <3> QED  BY <2>2, <2>3, <2>5, LimitsAssumption
  <2>7. Padded(First(name)) = Pulled(First(name), BlockCount(Len(First(name))))
    BY DEF Padded, Pulled
  <2> QED  BY <2>5, <2>6, <2>7
<1> QED  BY <1>1, DfsInvariantHolds, PTL DEF DfsSpec, PulledIsPushed
=============================================================================
