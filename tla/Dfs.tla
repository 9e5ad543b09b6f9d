--------------------------------- MODULE Dfs ---------------------------------
(***************************************************************************)
(* The distributed file system of OS assignment 3 at work: clients         *)
(* (Old/OS/pa3/client/dfs_client.c) that push, pull and modify files, the  *)
(* namenode of module Namenode, and datanodes                              *)
(* (Old/OS/pa3/datanode/dfs_datanode.c with ext.c) that store the blocks.  *)
(*                                                                         *)
(* Every process has one connection at a time in hand.  A datanode's       *)
(* connections wait in its listen queue and it takes them in their order;  *)
(* a client that writes a block does not wait for it to be stored.         *)
(*                                                                         *)
(* All datanodes have registered and keep their addresses.  Each of their  *)
(* later heartbeats recounts them in dncnt, so it can tear the address of  *)
(* a block that is just dealt out or bring the namenode down.              *)
(***************************************************************************)
EXTENDS Namenode

CONSTANTS
    Clients, Nobody,
    Bytes,            \* what a byte of a file or of a block can be
    LocalFiles,       \* client -> name -> bytes of its local file, NoFile if it has none
    NoFile,
    Zero,             \* a byte of a hole in a file
    Modifications,    \* the calls of modify_file: [file_size, start_addr, end_addr]
    LateHeartbeats,   \* those of Heartbeats that arrive while the clients are at work
    MaxListen,        \* the length of a listen queue
    MaxCalls          \* bound: client -> calls it makes

Datanodes == Ids
Whole == [file_size |-> 0, start_addr |-> 0, end_addr |-> 0]   \* no range: not a modify

ASSUME NobodyAssumption == Nobody \notin Clients
ASSUME NetworkAssumption == MaxListen \in Nat \ {0} /\ MaxCalls \in [Clients -> Nat]
(* The datanodes have the ids from 1 on; an id from MAX_DATANODE_NUM on is  *)
(* never registered (dfs_namenode.c:87).                                   *)
ASSUME RegisteredAssumption ==
    /\ IsFiniteSet(Datanodes) /\ Datanodes # {} /\ Datanodes = 1 .. Cardinality(Datanodes)
    /\ Cardinality(Datanodes) < MaxDatanodeNum
    /\ LateHeartbeats \subseteq Heartbeats
    /\ \A g, h \in Heartbeats :
          g.datanode_id = h.datanode_id \/ (g.ip = h.ip /\ g.port = h.port) => g = h
(* A client may ask for anything that fits a block list.                   *)
ASSUME AskedAssumption ==
    Requests = [req_type : {"read", "write", "query", "modify"}, file_name : Names,
                file_size : 0 .. MaxFileBlkCount * DfsBlockSize]
ASSUME FilesAssumption ==
    /\ LocalFiles \in [Clients -> [Names -> Seq(Bytes) \cup {NoFile}]]
    /\ Garbage \in Bytes /\ Zero \in Bytes
ASSUME RangesAssumption ==
    \A m \in Modifications :
        /\ m.file_size \in 0 .. MaxFileBlkCount * DfsBlockSize
        /\ m.end_addr \in 0 .. m.file_size - 1 /\ m.start_addr \in 0 .. m.end_addr

VARIABLES
    pc,         \* client -> where it is in its call
    asked,      \* client -> its request to the namenode
    range,      \* client -> the range it modifies
    reply,      \* client -> the image the namenode answered
    i,          \* client -> the block its loop is at
    calls,      \* client -> calls made
    local,      \* client -> name -> bytes of its local file
    served,     \* the client the namenode has in hand
    up,         \* datanode -> it runs
    queue,      \* datanode -> connections not yet accepted, with their requests
    stored,     \* datanode -> <<file, block_id>> -> content
    original    \* history: name -> what its first push sent, and if it alone wrote the file

clientVars == <<pc, asked, range, reply, i, calls, local>>
datanodeVars == <<up, queue, stored>>
namenodeVars == <<registry, heartbeatVars, mainVars, served>>
dfsVars == <<namenodeVars, clientVars, datanodeVars, original>>

NoImage == [filename |-> Null, blocknum |-> 0]
Unwritten == [content |-> << >>, by |-> Nobody, state |-> "none"]
-----------------------------------------------------------------------------
(* What the clients' files hold, block by block. *)
Offsets == 1 .. DfsBlockSize

(* A block to push: what fread leaves is what the stack held before.       *)
(* Seeded faults: only the bytes read are sent; the file is not positioned. *)
PushWhatWasRead(file, id) ==
    [k \in {at \in Offsets : id * DfsBlockSize + at <= Len(file)} |->
        file[id * DfsBlockSize + k]]
PushWithoutSeek(file, id) ==
    [k \in Offsets |-> IF k <= Len(file) THEN file[k] ELSE Garbage]
PushContent(file, id) ==
    [k \in Offsets |->
        LET at == id * DfsBlockSize + k IN IF at <= Len(file) THEN file[at] ELSE Garbage]

(* The buffer of modify_file is as long as the range and zeroed; a block   *)
(* is copied from it also where it is shorter than a block.                *)
ModifyContent(file, m, k0) ==
    [k \in Offsets |->
        LET at == k0 * DfsBlockSize + k
        IN  IF at > m.end_addr - m.start_addr + 1 THEN Garbage
            ELSE IF m.start_addr + at <= Len(file) THEN file[m.start_addr + at]
            ELSE Zero]

(* A pulled block goes to the place of its number; what is skipped is a    *)
(* hole of zeros.                                                          *)
WithBlock(file, id, content) ==
    LET end == (id + 1) * DfsBlockSize
    IN  [at \in 1 .. (IF Len(file) > end THEN Len(file) ELSE end) |->
            IF at > id * DfsBlockSize /\ at <= end THEN content[at - id * DfsBlockSize]
            ELSE IF at <= Len(file) THEN file[at] ELSE Zero]

(* The datanode that listens at an address, 0 when none does. *)
DatanodeAt(block) ==
    LET there == {h \in Heartbeats :
                     h.ip = block.loc_ip /\ h.port = block.loc_port /\ up[h.datanode_id]}
    IN  IF there = {} THEN 0 ELSE (CHOOSE h \in there : TRUE).datanode_id
-----------------------------------------------------------------------------
(* A client begins a call; the namenode has a connection of it, also while *)
(* it is in safe mode, when it already listens.                            *)
Ask(c, type, name, size, m) ==
    /\ pc[c] = "idle" /\ calls[c] < MaxCalls[c] /\ Running
    /\ asked' = [asked EXCEPT ![c] = [req_type |-> type, file_name |-> name, file_size |-> size]]
    /\ range' = [range EXCEPT ![c] = m]
    /\ pc' = [pc EXCEPT ![c] = "asking"] /\ calls' = [calls EXCEPT ![c] = @ + 1]
    /\ UNCHANGED <<reply, i, datanodeVars, namenodeVars, original>>

push_file(c, name) ==
    /\ local[c][name] # NoFile /\ BlockCount(Len(local[c][name])) <= MaxFileBlkCount
    /\ Ask(c, "write", name, Len(local[c][name]), Whole)
    /\ UNCHANGED local

(* The local file is emptied before the namenode is asked. *)
pull_file(c, name) ==
    /\ Ask(c, "read", name, 0, Whole)
    /\ local' = [local EXCEPT ![c][name] = << >>]

modify_file(c, name, m) ==
    /\ local[c][name] # NoFile
    /\ Ask(c, "modify", name, m.file_size, m)
    /\ UNCHANGED local

get_system_info(c) ==
    \E name \in Names : Ask(c, "query", name, 0, Whole) /\ UNCHANGED local

(* The connection of any call is refused once the namenode is down. *)
Refused(c) ==
    /\ pc[c] = "idle" /\ calls[c] < MaxCalls[c] /\ ~Running
    /\ calls' = [calls EXCEPT ![c] = @ + 1]
    /\ UNCHANGED <<pc, asked, range, reply, i, local, datanodeVars, namenodeVars, original>>

(* The namenode's answer.  A client whose connection ends without one      *)
(* stays in receive_data for ever.                                         *)
Receive(c) ==
    CASE response'.kind = "closed" ->
            pc' = [pc EXCEPT ![c] = "spinning"] /\ UNCHANGED <<reply, i>>
      [] response'.kind = "system" ->
            pc' = [pc EXCEPT ![c] = "idle"] /\ UNCHANGED <<reply, i>>
      [] response'.kind = "file" ->
            /\ reply' = [reply EXCEPT ![c] = response'.query_result]
            /\ i' = [i EXCEPT ![c] = range[c].start_addr \div DfsBlockSize]
            /\ pc' = [pc EXCEPT ![c] = "blocks"]

(* The namenode takes the next client; some requests it answers at once. *)
Connect(c) ==
    /\ pc[c] = "asking" /\ Accept(asked[c])
    /\ served' = c
    /\ IF mpc' = "accept" THEN Receive(c)
       ELSE pc' = [pc EXCEPT ![c] = "waiting"] /\ UNCHANGED <<reply, i>>
    /\ original' =
          IF asked[c].req_type \notin {"write", "modify"} THEN original
          ELSE [original EXCEPT ![asked[c].file_name] =
                   IF @.state = "none" /\ asked[c].req_type = "write"
                   THEN [content |-> local[c][asked[c].file_name], by |-> c, state |-> "sending"]
                   ELSE [@ EXCEPT !.state = "mixed"]]
    /\ UNCHANGED <<asked, range, calls, local, datanodeVars>>

(* The clients whose connections end when the namenode crashes. *)
LoseConnections ==
    /\ pc' = [c \in Clients |-> IF pc[c] \in {"asking", "waiting"} THEN "spinning" ELSE pc[c]]
    /\ UNCHANGED <<reply, i>>

NamenodeWorks ==
    /\ MainStep
    /\ IF mpc' = "crashed" THEN LoseConnections
       ELSE IF mpc' = "accept" /\ served # Nobody THEN Receive(served)
       ELSE UNCHANGED <<pc, reply, i>>
    /\ UNCHANGED <<served, asked, range, calls, local, datanodeVars, original>>

(* The other thread of the namenode, register_datanode.  A heartbeat may   *)
(* be on its way from a datanode that has gone down since.                 *)
HeartbeatWorks ==
    /\ HeartbeatStep
    /\ UNCHANGED <<served, clientVars, datanodeVars, original>>
Heartbeat ==
    /\ \E h \in LateHeartbeats : ReceiveHeartbeat(h)
    /\ UNCHANGED <<served, clientVars, datanodeVars, original>>
-----------------------------------------------------------------------------
(* The clients' loops over the blocks. *)
HasMoreOneTooFar(c) == asked[c].req_type = "modify" \/ i[c] <= reply[c].blocknum  \* a seeded fault
HasMore(c) ==
    IF asked[c].req_type = "modify"
    THEN (i[c] - range[c].start_addr \div DfsBlockSize) * DfsBlockSize
             < range[c].end_addr - range[c].start_addr
    ELSE i[c] < reply[c].blocknum
BlockOf(c) ==
    IF i[c] \in BlockIndices THEN reply[c].block_list[i[c]] ELSE ZeroBlock

(* The kernel lets MaxListen connections wait, the next one until there is *)
(* room.                                                                   *)
HasRoom(d) == Len(queue[d]) < MaxListen
Send(c, d, op_type, id, content) ==
    /\ HasRoom(d)
    /\ queue' = [queue EXCEPT ![d] =
           Append(@, [client |-> c, op_type |-> op_type, owner_name |-> asked[c].file_name,
                      block_id |-> id, content |-> content])]
    /\ UNCHANGED <<up, stored>>

(* Nobody listens at the address: the assertion on the socket fails. *)
Abort(c) ==
    /\ pc[c] = "blocks" /\ HasMore(c) /\ DatanodeAt(BlockOf(c)) = 0
    /\ pc' = [pc EXCEPT ![c] = "aborted"]
    /\ UNCHANGED <<asked, range, reply, i, calls, local, datanodeVars, namenodeVars, original>>

SendBlock(c) ==
    LET d == DatanodeAt(BlockOf(c))
        name == asked[c].file_name
        first == range[c].start_addr \div DfsBlockSize
    IN  /\ pc[c] = "blocks" /\ asked[c].req_type \in {"write", "modify"} /\ HasMore(c) /\ d # 0
        /\ \/ /\ asked[c].req_type = "write"
              /\ Send(c, d, 1, BlockOf(c).block_id,
                      PushContent(local[c][name], BlockOf(c).block_id))
           \/ /\ asked[c].req_type = "modify"
              /\ Send(c, d, 1, i[c], ModifyContent(local[c][name], range[c], i[c] - first))
        /\ i' = [i EXCEPT ![c] = @ + 1]
        /\ UNCHANGED <<pc, asked, range, reply, calls, local, namenodeVars, original>>

AskForBlock(c) ==
    LET d == DatanodeAt(BlockOf(c))
    IN  /\ pc[c] = "blocks" /\ asked[c].req_type = "read" /\ HasMore(c) /\ d # 0
        /\ Send(c, d, 0, BlockOf(c).block_id, << >>)
        /\ pc' = [pc EXCEPT ![c] = "answer"]
        /\ UNCHANGED <<asked, range, reply, i, calls, local, namenodeVars, original>>

EndCall(c) ==
    /\ pc[c] = "blocks" /\ ~HasMore(c)
    /\ pc' = [pc EXCEPT ![c] = "idle"]
    /\ original' =
          LET first == original[asked[c].file_name]
          IN  IF asked[c].req_type = "write" /\ first.by = c /\ first.state = "sending"
              THEN [original EXCEPT ![asked[c].file_name].state = "sent"] ELSE original
    /\ UNCHANGED <<asked, range, reply, i, calls, local, datanodeVars, namenodeVars>>
-----------------------------------------------------------------------------
(* The datanodes: mainLoop takes the connection that waits longest. *)
Newest(d) == Len(queue[d])    \* a seeded fault: the last connection first
Oldest(d) == 1
Request(d) == queue[d][Oldest(d)]
Rest(d) ==
    [k \in 1 .. Len(queue[d]) - 1 |-> queue[d][IF k < Oldest(d) THEN k ELSE k + 1]]
Block_asked(d) == <<Request(d).owner_name, Request(d).block_id>>

create_block(d) ==
    /\ up[d] /\ queue[d] # << >> /\ Request(d).op_type = 1
    /\ stored' = [stored EXCEPT ![d] =
           [b \in DOMAIN @ \cup {Block_asked(d)} |->
               IF b = Block_asked(d) THEN Request(d).content ELSE stored[d][b]]]
    /\ queue' = [queue EXCEPT ![d] = Rest(d)]
    /\ UNCHANGED <<up, clientVars, namenodeVars, original>>

(* The client is answered and puts the block into its file. *)
read_block(d) ==
    LET r == Request(d)
    IN  /\ up[d] /\ queue[d] # << >> /\ r.op_type = 0 /\ Block_asked(d) \in DOMAIN stored[d]
        /\ local' = [local EXCEPT ![r.client][r.owner_name] =
                        WithBlock(@, r.block_id, stored[d][Block_asked(d)])]
        /\ pc' = [pc EXCEPT ![r.client] = "blocks"] /\ i' = [i EXCEPT ![r.client] = @ + 1]
        /\ queue' = [queue EXCEPT ![d] = Rest(d)]
        /\ UNCHANGED <<up, stored, asked, range, reply, calls, namenodeVars, original>>

(* A datanode ends, and with it the connections in its queue. *)
GoDown(d) ==
    /\ up' = [up EXCEPT ![d] = FALSE] /\ queue' = [queue EXCEPT ![d] = << >>]
    /\ pc' = [c \in Clients |->
                 IF \E k \in DOMAIN queue[d] : queue[d][k].client = c /\ queue[d][k].op_type = 0
                 THEN "spinning" ELSE pc[c]]
    /\ UNCHANGED <<stored, asked, range, reply, i, calls, local, namenodeVars, original>>

(* ext_read_block hands the null pointer of a failed fopen to fread. *)
ReadMissing(d) ==
    /\ up[d] /\ queue[d] # << >> /\ Request(d).op_type = 0
    /\ Block_asked(d) \notin DOMAIN stored[d]
    /\ GoDown(d)

(* Its next heartbeat finds the namenode gone: the assertion on the socket *)
(* fails.                                                                  *)
HeartbeatAborts(d) == up[d] /\ ~Running /\ GoDown(d)
-----------------------------------------------------------------------------
DfsInit ==
    /\ dnlist = [s \in Slots |->
          IF \E h \in Heartbeats : Position(h) = s
          THEN LET h == CHOOSE g \in Heartbeats : Position(g) = s
               IN  [dn_id |-> h.datanode_id, ip |-> h.ip, port |-> h.port]
          ELSE Null]
    /\ dncnt = Cardinality(Datanodes) /\ safeMode = 0
    /\ hpc = "accept" /\ datanode_status = Null /\ count_i = MaxDatanodeNum
    /\ mpc = "safe_mode" /\ request = Null
    /\ file_images = [x \in Images |-> Null]
    /\ file_image = 0 /\ next = 0 /\ first_id = 0 /\ block_data = ZeroBlock
    /\ response = NoReply /\ served = Nobody
    /\ pc = [c \in Clients |-> "idle"] /\ asked = [c \in Clients |-> Null]
    /\ range = [c \in Clients |-> Whole] /\ reply = [c \in Clients |-> NoImage]
    /\ i = [c \in Clients |-> 0] /\ calls = [c \in Clients |-> 0]
    /\ local = LocalFiles
    /\ up = [d \in Datanodes |-> TRUE] /\ queue = [d \in Datanodes |-> << >>]
    /\ stored = [d \in Datanodes |-> [b \in {} |-> << >>]]
    /\ original = [x \in Names |-> Unwritten]

ClientWorks(c) == SendBlock(c) \/ AskForBlock(c) \/ EndCall(c) \/ Abort(c)
DatanodeWorks(d) == create_block(d) \/ read_block(d) \/ ReadMissing(d)

DfsNext ==
    \/ \E c \in Clients :
          \/ \E x \in Names :
                \/ push_file(c, x) \/ pull_file(c, x)
                \/ \E m \in Modifications : modify_file(c, x, m)
          \/ get_system_info(c) \/ Refused(c) \/ Connect(c) \/ ClientWorks(c)
    \/ NamenodeWorks \/ HeartbeatWorks \/ Heartbeat
    \/ \E d \in Datanodes : DatanodeWorks(d) \/ HeartbeatAborts(d)

DfsSpec == DfsInit /\ [][DfsNext]_dfsVars

(* Every process runs on while it can; nobody has to begin a call. *)
FairDfsSpec ==
    /\ DfsSpec
    /\ WF_dfsVars(NamenodeWorks) /\ WF_dfsVars(HeartbeatWorks)
    /\ \A c \in Clients : WF_dfsVars(Connect(c)) /\ WF_dfsVars(ClientWorks(c))
    /\ \A d \in Datanodes : WF_dfsVars(DatanodeWorks(d))
-----------------------------------------------------------------------------
(* DfsTypeOK: every process keeps to its types; what is sent and stored    *)
(* are whole blocks with numbers a block list can show.                    *)
ClientPcs == {"idle", "asking", "waiting", "blocks", "answer", "spinning", "aborted"}
DfsTypeOK ==
    /\ pc \in [Clients -> ClientPcs] /\ served \in Clients \cup {Nobody}
    /\ \A c \in Clients : asked[c] \in Requests \cup {Null} /\ i[c] \in 0 .. MaxFileBlkCount
    /\ \A d \in Datanodes :
          /\ \A k \in DOMAIN queue[d] :
                queue[d][k].op_type = 1 => DOMAIN queue[d][k].content = Offsets
          /\ \A b \in DOMAIN stored[d] : b \in Names \X BlockNumbers

(* PulledIsPushed: a pull that ends, of a file that one push wrote and     *)
(* nobody wrote again, leaves in the local file what was pushed, filled up *)
(* to whole blocks; also when it overlaps the push.                        *)
Padded(file) ==
    [at \in 1 .. BlockCount(Len(file)) * DfsBlockSize |->
        IF at <= Len(file) THEN file[at] ELSE Garbage]
PullEndsWhole(c) ==
    LET name == asked[c].file_name
    IN  /\ pc[c] = "blocks" /\ pc'[c] = "idle" /\ asked[c].req_type = "read"
        /\ original[name].state # "mixed"
        => local[c][name] = Padded(original[name].content)
PulledIsPushed == [][\A c \in Clients : PullEndsWhole(c)]_dfsVars

(* DownNeedsRace: while the namenode and all datanodes run, a datanode     *)
(* goes down only when it is asked for a block that a client still has to  *)
(* send or that waits behind the request: a pull that begins after the     *)
(* push has ended is safe, though the push does not wait for its blocks to *)
(* be stored.  (The block goes where its address is, which after a recount *)
(* need not be that of its dn_id.)                                         *)
StillToSend(c, d, b) ==
    /\ pc[c] = "blocks" /\ asked[c].req_type \in {"write", "modify"}
    /\ \E k \in i[c] .. reply[c].blocknum - 1 :
          /\ DatanodeAt(reply[c].block_list[k]) = d
          /\ b = <<asked[c].file_name, reply[c].block_list[k].block_id>>
Behind(d, b) ==
    \E k \in 2 .. Len(queue[d]) :
        queue[d][k].op_type = 1 /\ b = <<queue[d][k].owner_name, queue[d][k].block_id>>
DownNeedsRace ==
    [][\A d \in Datanodes :
          up[d] /\ ~up'[d] /\ Running /\ (\A e \in Datanodes : up[e]) =>
              LET b == <<Head(queue[d]).owner_name, Head(queue[d]).block_id>>
              IN  Behind(d, b) \/ \E c \in Clients : StillToSend(c, d, b)]_dfsVars

(* The ip of one datanode and the port of another, an address nobody has. *)
Torn(block) ==
    /\ block.loc_ip \in Ips /\ block.loc_port \in Ports
    /\ \A h \in Heartbeats : h.ip # block.loc_ip \/ h.port # block.loc_port

(* CallsEnd: a call for a file the namenode knows ends, while heartbeats   *)
(* come at any time, unless a datanode goes down or a request brings the   *)
(* namenode down in a recount; the client aborts only at a block whose     *)
(* address a recount tore (dfs_namenode.c:159-162, dfs_client.c:64, 118,   *)
(* 151).  No client waits for a connection or an answer for ever else.     *)
Known(c) == asked[c].req_type = "query" \/ ImageOf(asked[c].file_name) # -1
CallsEnd ==
    \A c \in Clients :
        pc[c] = "asking" /\ Known(c) ~>
            \/ pc[c] = "idle"
            \/ pc[c] = "aborted" /\ Torn(BlockOf(c))
            \/ ~Running \/ \E d \in Datanodes : ~up[d]
=============================================================================
