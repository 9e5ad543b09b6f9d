-------------------------------- MODULE Sfs --------------------------------
(***************************************************************************)
(* The simple file system of OS assignment 2 (Old/OS/pa2/fs.c), which the  *)
(* datanodes of assignment 3 use too (Old/OS/pa3/a2/fs.c): directories,    *)
(* inodes and frames in the blocks of one storage, a map of the used       *)
(* blocks, and a table of open files.  One thread calls it, so a step is   *)
(* one call of sfs_*, with every block it reads and writes.                *)
(*                                                                         *)
(* A block is a record of the structure that was last written to it.  The  *)
(* model follows the program until a call reads or writes a block it has   *)
(* no right to: broken is then TRUE and nothing more is said.              *)
(***************************************************************************)
EXTENDS Integers, Sequences, FiniteSets

CONSTANTS
    LastBlock,        \* the last block the map has a bit for
    BlockSize,        \* BLOCK_SIZE
    FrameCount,       \* SFS_FRAME_COUNT
    DbNinodes,        \* SFS_DB_NINODES
    MaxOpenedFiles,   \* SFS_MAX_OPENED_FILES
    DirNames, FileNames,
    NoName,           \* the name in a descriptor that was never used
    Bytes,            \* what a byte of a data block can be
    Zero,             \* a byte nobody has written
    Junk,             \* a byte of a block that holds something else than data
    Buffers,          \* what callers write: sequences of bytes
    Lengths,          \* how much callers read
    Moves,            \* how far callers seek
    MaxCursor,        \* bound: callers keep their cursors below it
    MaxLeaked         \* bound: callers stop when more blocks are lost

ASSUME SizesAssumption ==
    /\ LastBlock \in Nat /\ LastBlock >= 2
    /\ BlockSize \in Nat \ {0} /\ FrameCount \in Nat \ {0} /\ DbNinodes \in Nat \ {0}
    /\ MaxOpenedFiles \in Nat \ {0} /\ MaxCursor \in Nat /\ MaxLeaked \in Nat
ASSUME CallsAssumption ==
    /\ {Zero, Junk} \subseteq Bytes /\ Zero # Junk
    /\ \A buf \in Buffers : buf \in Seq(Bytes)
    /\ Lengths \subseteq Nat /\ Moves \subseteq Int

BlockIds == 0 .. LastBlock          \* 0 is the super block and stands for "none"
InodeSlots == 0 .. DbNinodes - 1
FramePlaces == 0 .. FrameCount - 1
Fds == 0 .. MaxOpenedFiles - 1
FrameSize == BlockSize * FrameCount

SuperBlock(first_dir) == [kind |-> "super", first_dir |-> first_dir]
MapBlock(used) == [kind |-> "map", used |-> used]
DirBlock(name) ==
    [kind |-> "dir", next_dir |-> 0, dir_name |-> name, inodes |-> [i \in InodeSlots |-> 0]]
Inode(name) == [kind |-> "inode", size |-> 0, first_frame |-> 0, file_name |-> name]
Frame(next, content) == [kind |-> "frame", next |-> next, content |-> content]
DataBlock(bytes) == [kind |-> "data", bytes |-> bytes]
FreeBlock == [kind |-> "free"]      \* what a freed block still holds is not followed
NothingWritten == DataBlock([o \in 0 .. BlockSize - 1 |-> Zero])

ClosedFd ==
    [valid |-> FALSE, dir_bid |-> 0, inode_bid |-> 0, cur |-> 0, inode |-> Inode(NoName)]

VARIABLES
    disk,       \* the storage: block id -> block
    sb,         \* first_dir of the super block in memory
    freemap,    \* the blocks marked used, in memory
    fdtable,
    broken,     \* a call went where the model does not follow
    result      \* the last call, its descriptor and its answer

vars == <<disk, sb, freemap, fdtable, broken, result>>
-----------------------------------------------------------------------------
(* Blocks and lists of blocks. *)
Put(dk, writes) ==  \* the blocks after these writes, one after the other
    [b \in BlockIds |->
        LET hits == {k \in DOMAIN writes : writes[k].bid = b}
        IN  IF hits = {} THEN dk[b]
            ELSE writes[CHOOSE k \in hits : \A j \in hits : j <= k].block]
At(bid, block) == [bid |-> bid, block |-> block]

Next_of(block) ==
    CASE block.kind = "dir" -> block.next_dir
      [] block.kind = "frame" -> block.next
      [] OTHER -> 0
Listing(dk, first) ==  \* the ids in the list that starts at first
    LET from[k \in 0 .. LastBlock] ==
            [b \in BlockIds |-> IF b = 0 \/ k = 0 THEN << >>
                               ELSE <<b>> \o from[k - 1][Next_of(dk[b])]]
    IN  from[LastBlock][first]
Listed(dk, first) == LET list == Listing(dk, first) IN {list[k] : k \in DOMAIN list}
IsChain(first) == \A f \in Listed(disk, first) : disk[f].kind = "frame"
LastOf(dk, first) == CHOOSE b \in Listed(dk, first) : Next_of(dk[b]) = 0

Dirs == Listed(disk, sb)
InodesOf(d) == {disk[d].inodes[i] : i \in InodeSlots} \ {0}
Inodes == UNION {InodesOf(d) : d \in Dirs}
FramesOf(n) == Listed(disk, disk[n].first_frame)
Frames == UNION {FramesOf(n) : n \in Inodes}

DirOf(name) ==  \* sfs_find_dir, without its refresh of sb
    LET found == {d \in Dirs : disk[d].dir_name = name}
    IN  IF found = {} THEN 0 ELSE CHOOSE d \in found : TRUE
InodeOf(d, name) ==
    LET found == {n \in InodesOf(d) : disk[n].file_name = name}
    IN  IF found = {} THEN 0 ELSE CHOOSE n \in found : TRUE

(* The links that hold the blocks of the tree: <<holder, place, block>>.   *)
LinksOf(b) ==
    CASE disk[b].kind = "super" -> {<<b, -1, disk[b].first_dir>>}
      [] disk[b].kind = "dir" ->
            {<<b, -1, disk[b].next_dir>>} \cup {<<b, i, disk[b].inodes[i]>> : i \in InodeSlots}
      [] disk[b].kind = "inode" -> {<<b, -1, disk[b].first_frame>>}
      [] disk[b].kind = "frame" ->
            {<<b, -1, disk[b].next>>} \cup {<<b, i, disk[b].content[i]>> : i \in FramePlaces}
Links == {l \in UNION {LinksOf(b) : b \in {0} \cup Dirs \cup Inodes \cup Frames} : l[3] # 0}
Owned == {l[3] : l \in Links}

(* What every call relies on: the copies in memory agree with the storage, *)
(* each block of the tree is of its kind, marked used and held once, and a *)
(* file has the frames and blocks of its size.                             *)
Intact ==
    /\ disk[0] = SuperBlock(sb) /\ disk[1] = MapBlock(freemap)
    /\ \A d \in Dirs :
          /\ disk[d].kind = "dir"
          /\ \A n \in InodesOf(d) :
                /\ disk[n].kind = "inode"
                /\ disk[n].size = FrameSize * Cardinality(FramesOf(n))
                /\ \A f \in FramesOf(n) :
                      disk[f].kind = "frame" /\ \A i \in FramePlaces : disk[f].content[i] # 0
    /\ Cardinality(Links) = Cardinality(Owned)
    /\ Owned \subseteq freemap \ {1, 2}

(* Blocks that are marked and that nothing leads to. *)
Leaked == (freemap \ {1, 2}) \ Owned
-----------------------------------------------------------------------------
(* sfs_alloc_block finds the lowest clear bit; bit j stands for block      *)
(* j + 1.  The k-th of several allocations in a row, 0 when none is left.  *)
FreeBlocks == BlockIds \ (freemap \cup {0})
Allocated(k) ==
    IF k > Cardinality(FreeBlocks) THEN 0
    ELSE CHOOSE b \in FreeBlocks : Cardinality({c \in FreeBlocks : c < b}) = k - 1
(* A seeded fault: the last allocation is not marked.                      *)
UsedWithoutLast(n) == freemap \cup ({Allocated(k) : k \in 1 .. n - 1} \ {0})
UsedAfter(n) == freemap \cup ({Allocated(k) : k \in 1 .. n} \ {0})

(* The storage after a call, whose last flush of the map is in block 1. *)
Store(writes, used) ==
    /\ freemap' = used
    /\ disk' = [b \in BlockIds |-> IF b \in freemap \ used THEN FreeBlock
                                   ELSE Put(disk, writes \o <<At(1, MapBlock(used))>>)[b]]
Return(op, fd, value) == result' = [op |-> op, fd |-> fd, value |-> value]
Follow == broken' = ~Intact'
Lose(op, fd) ==
    broken' = TRUE /\ Return(op, fd, -1) /\ UNCHANGED <<disk, sb, freemap, fdtable>>

(* The new directory goes to the end of the list. *)
sfs_mkdir(dirname) ==
    IF DirOf(dirname) # 0
    THEN Return("mkdir", -1, -1) /\ UNCHANGED <<disk, sb, freemap, fdtable, broken>>
    ELSE LET new == Allocated(1)
             last == LastOf(disk, sb)
         IN  /\ Store(IF sb = 0
                      THEN <<At(new, DirBlock(dirname)), At(0, SuperBlock(new))>>
                      ELSE <<At(last, [disk[last] EXCEPT !.next_dir = new]),
                             At(new, DirBlock(dirname))>>,
                      UsedAfter(1))
             /\ sb' = IF sb = 0 THEN new ELSE sb
             /\ Return("mkdir", -1, 0)
             /\ UNCHANGED fdtable /\ Follow

(* The directory before a removed one is linked to the one behind it; when *)
(* the first one is removed, first_dir becomes 0.                          *)
FirstAfter(d) == 0
Unlink(d) ==
    IF d = sb THEN <<At(0, SuperBlock(FirstAfter(d)))>>
    ELSE LET before == CHOOSE b \in Dirs : disk[b].next_dir = d
         IN  <<At(before, [disk[before] EXCEPT !.next_dir = disk[d].next_dir])>>

sfs_rmdir(dirname) ==
    LET d == DirOf(dirname)
    IN  IF d = 0
        THEN Return("rmdir", -1, -1) /\ UNCHANGED <<disk, sb, freemap, fdtable, broken>>
        ELSE IF InodesOf(d) # {}
        THEN Return("rmdir", -1, -1) /\ UNCHANGED <<disk, sb, freemap, fdtable, broken>>
        ELSE /\ Store(Unlink(d), freemap \ {d})
             /\ sb' = IF d = sb THEN FirstAfter(d) ELSE sb
             /\ Return("rmdir", -1, 0)
             /\ UNCHANGED fdtable /\ Follow

sfs_lsdir ==
    Return("lsdir", -1, Cardinality(Dirs)) /\ UNCHANGED <<disk, sb, freemap, fdtable, broken>>
sfs_ls ==
    Return("ls", -1, Cardinality(Inodes)) /\ UNCHANGED <<disk, sb, freemap, fdtable, broken>>
sfs_print_info ==
    /\ sb' = disk[0].first_dir
    /\ Return("print_info", -1, sb') /\ UNCHANGED <<disk, freemap, fdtable, broken>>

(* The storage is opened anew: both copies are read back from it.          *)
sfs_reloadfs ==
    /\ sb' = disk[0].first_dir /\ freemap' = disk[1].used
    /\ Return("reloadfs", -1, 0) /\ UNCHANGED <<disk, fdtable, broken>>
-----------------------------------------------------------------------------
(* Open files. *)
LowestFd ==
    LET free == {fd \in Fds : ~fdtable[fd].valid}
    IN  IF free = {} THEN -1 ELSE CHOOSE fd \in free : \A e \in free : fd <= e
LowestSlot(d) ==
    LET free == {i \in InodeSlots : disk[d].inodes[i] = 0}
    IN  IF free = {} THEN -1 ELSE CHOOSE i \in free : \A j \in free : i <= j
OpenedFd(d, n, inode) ==
    [valid |-> TRUE, dir_bid |-> d, inode_bid |-> n, cur |-> 0, inode |-> inode]

OpenExisting(fd, d, n) ==
    /\ fdtable' = [fdtable EXCEPT ![fd] = OpenedFd(d, n, disk[n])]
    /\ Return("open", fd, fd) /\ UNCHANGED <<disk, sb, freemap, broken>>

OpenNew(fd, d, name) ==
    LET n == Allocated(1)
    IN  /\ Store(<<At(d, [disk[d] EXCEPT !.inodes[LowestSlot(d)] = n]), At(n, Inode(name))>>,
                 UsedAfter(1))
        /\ fdtable' = [fdtable EXCEPT ![fd] = OpenedFd(d, n, Inode(name))]
        /\ Return("open", fd, fd)
        /\ UNCHANGED sb /\ Follow

NoValue == -2    \* what is in the register when a function ends without return

(* A new file in a full directory: the call ends without a value. *)
sfs_open(dirname, name) ==
    LET fd == LowestFd
        d == DirOf(dirname)
        Fails(value) == Return("open", -1, value) /\ UNCHANGED <<disk, sb, freemap, fdtable, broken>>
    IN  CASE fd = -1 \/ d = 0 -> Fails(-1)
          [] fd # -1 /\ d # 0 /\ InodeOf(d, name) # 0 -> OpenExisting(fd, d, InodeOf(d, name))
          [] fd # -1 /\ d # 0 /\ InodeOf(d, name) = 0 /\ LowestSlot(d) # -1 ->
                OpenNew(fd, d, name)
          [] OTHER -> Fails(NoValue)

(* What else a closed descriptor holds is not read again. *)
sfs_close(fd) ==
    /\ fdtable' = [fdtable EXCEPT ![fd] = ClosedFd]
    /\ Return("close", fd, 0) /\ UNCHANGED <<disk, sb, freemap, broken>>

(* sfs_remove clears the slot of the file in its directory and frees the   *)
(* frames and the inode; the blocks the frames list stay marked.           *)
(* A seeded fault: the inode stays marked.                                 *)
FreedWithoutInode(n) == FramesOf(n)
FreedWith(n) == FramesOf(n) \cup {n}
sfs_remove(fd) ==
    LET d == fdtable[fd].dir_bid
        n == fdtable[fd].inode_bid
        cleared == [i \in InodeSlots |-> IF disk[d].inodes[i] = n THEN 0 ELSE disk[d].inodes[i]]
    IN  IF disk[d].kind = "dir" /\ disk[n].kind = "inode" /\ IsChain(disk[n].first_frame)
        THEN /\ Store(<<At(d, [disk[d] EXCEPT !.inodes = cleared])>>, freemap \ FreedWith(n))
             /\ fdtable' = [fdtable EXCEPT ![fd] = ClosedFd]
             /\ Return("remove", fd, 0)
             /\ UNCHANGED sb /\ Follow
        ELSE Lose("remove", fd)

(* sfs_seek does with SFS_SEEK_END what it does with SFS_SEEK_CUR. *)
SeekTo(fd, relative, loc) ==
    IF loc = "set" THEN relative ELSE fdtable[fd].cur + relative
sfs_seek(fd, relative, loc) ==
    /\ SeekTo(fd, relative, loc) \in 0 .. MaxCursor
    /\ fdtable' = [fdtable EXCEPT ![fd].cur = SeekTo(fd, relative, loc)]
    /\ Return("seek", fd, 0) /\ UNCHANGED <<disk, sb, freemap, broken>>

sfs_eof(fd) ==
    /\ Return("eof", fd, IF fdtable[fd].cur > fdtable[fd].inode.size THEN 1 ELSE 0)
    /\ UNCHANGED <<disk, sb, freemap, fdtable, broken>>
-----------------------------------------------------------------------------
(* sfs_resize_file gives a file the whole frames it needs: all frames are  *)
(* allocated first, then the blocks each of them lists.                    *)
FrameCountOf(size) == (size + FrameSize - 1) \div FrameSize
NewFrames(inode, new_size) ==
    IF new_size > inode.size THEN FrameCountOf(new_size) - FrameCountOf(inode.size) ELSE 0
BlocksFor(n) == n + n * FrameCount
(* A seeded fault: every new frame lists the blocks of the first.          *)
ContentOfFirst(n, k) == [i \in FramePlaces |-> Allocated(n + i + 1)]
ContentOfNew(n, k) == [i \in FramePlaces |-> Allocated(n + (k - 1) * FrameCount + i + 1)]
(* A seeded fault: the size is the offset of the last byte.                *)
ResizedByOneLess(inode, n) ==
    [inode EXCEPT !.size = @ + FrameSize * n - 1,
                  !.first_frame = IF @ = 0 THEN Allocated(1) ELSE @]
ResizedInode(inode, n) ==
    [inode EXCEPT !.size = @ + FrameSize * n,
                  !.first_frame = IF @ = 0 THEN Allocated(1) ELSE @]
FrameWrites(n) ==
    [k \in 1 .. n |-> At(Allocated(k), Frame(IF k < n THEN Allocated(k + 1) ELSE 0,
                                             ContentOfNew(n, k)))]
(* A seeded fault: the inode on the storage keeps its old size.            *)
ResizeInMemory(inode, inode_bid, n) == FrameWrites(n)
ResizeWrites(inode, inode_bid, n) ==
    (IF inode.first_frame = 0 THEN << >>
     ELSE LET last == LastOf(disk, inode.first_frame)
          IN  <<At(last, [disk[last] EXCEPT !.next = Allocated(1)])>>)
    \o FrameWrites(n) \o <<At(inode_bid, ResizedInode(inode, n))>>

(* sfs_get_file_content stores the ids of the blocks from cur on at the    *)
(* places 0, 1, ...; a transfer looks a block up at its number in the      *)
(* file.  What was never stored there, or is not an id, is -1.             *)
FirstPlace(cur) == cur \div BlockSize
Places(cur, length) == (cur + length) \div BlockSize - FirstPlace(cur) + 1
(* A seeded fault: the next frame is never loaded.                         *)
ContentBidInFirst(dk, inode, k) ==
    IF inode.first_frame = 0 THEN -1 ELSE dk[inode.first_frame].content[k % FrameCount]
ContentBid(dk, inode, k) ==
    LET frames == Listing(dk, inode.first_frame)
        place == k \div FrameCount + 1
        frame == dk[IF place \in DOMAIN frames THEN frames[place] ELSE 0]
    IN  IF frame.kind = "frame" THEN frame.content[k % FrameCount] ELSE -1
Bid(dk, inode, cur, length, place) ==
    IF place >= Places(cur, length) THEN -1
    ELSE ContentBid(dk, inode, FirstPlace(cur) + place)
Target(dk, inode, cur, length, p) == Bid(dk, inode, cur, length, p \div BlockSize)
(* One id more than the array has room for, when cur + length is the size. *)
Overruns(inode, cur, length) ==
    inode.size > 0 /\ Places(cur, length) > inode.size \div BlockSize

ByteOf(block, o) == IF block.kind = "data" THEN block.bytes[o] ELSE Junk
WithBytes(dk, inode, cur, buf) ==
    [b \in BlockIds |->
        LET here == {p \in cur .. cur + Len(buf) - 1 : Target(dk, inode, cur, Len(buf), p) = b}
        IN  IF here = {} THEN dk[b]
            ELSE DataBlock([o \in 0 .. BlockSize - 1 |->
                     LET at == {p \in here : p % BlockSize = o}
                     IN  IF at = {} THEN ByteOf(dk[b], o)
                         ELSE buf[(CHOOSE p \in at : \A q \in at : q <= p) - cur + 1]])]

(* A write through an id that was never stored goes anywhere. *)
sfs_write(fd, buf) ==
    LET cur == fdtable[fd].cur
        old == fdtable[fd].inode
        n == NewFrames(old, cur + Len(buf))
        inode == IF n = 0 THEN old ELSE ResizedInode(old, n)
        used == UsedAfter(BlocksFor(n))
        writes == IF n = 0 THEN << >> ELSE ResizeWrites(old, fdtable[fd].inode_bid, n)
        dk == Put(disk, writes \o <<At(1, MapBlock(used))>>)
        wild == \E p \in cur .. cur + Len(buf) - 1 : Target(dk, inode, cur, Len(buf), p) = -1
    IN  /\ cur + Len(buf) <= MaxCursor
        /\ IF n > 0 /\ ~IsChain(old.first_frame) THEN Lose("write", fd)
           ELSE /\ UNCHANGED sb
                /\ disk' = WithBytes(dk, inode, cur, buf) /\ freemap' = used
                /\ fdtable' = [fdtable EXCEPT ![fd].cur = cur + Len(buf), ![fd].inode = inode]
                /\ broken' \in {wild \/ ~Intact', wild \/ ~Intact' \/ Overruns(inode, cur, Len(buf))}
                /\ Return("write", fd, Len(buf))

(* The end of a read is compared one byte late, in unsigned numbers. *)
ReadLength(size, cur, length) ==
    IF cur > size THEN 0
    ELSE IF cur + length = 0 \/ cur + length - 1 > size THEN size - cur ELSE length

sfs_read(fd, length) ==
    LET cur == fdtable[fd].cur
        inode == fdtable[fd].inode
        n == ReadLength(inode.size, cur, length)
        ByteAt(p) == LET b == Target(disk, inode, cur, n, p)
                     IN  IF b = -1 THEN Junk ELSE ByteOf(disk[b], p % BlockSize)
    IN  /\ cur + n <= MaxCursor
        /\ fdtable' = [fdtable EXCEPT ![fd].cur = cur + n]
        /\ broken' \in {FALSE, cur <= inode.size /\ Overruns(inode, cur, n)}
        /\ Return("read", fd, [i \in 1 .. n |-> ByteAt(cur + i - 1)])
        /\ UNCHANGED <<disk, sb, freemap>>
-----------------------------------------------------------------------------
(* A new storage with the file system sfs_mkfs makes on it: programs make  *)
(* it once, before any other call.                                         *)
Init ==
    /\ disk = [b \in BlockIds |->
                  CASE b = 0 -> SuperBlock(0) [] b = 1 -> MapBlock({1, 2}) [] OTHER -> NothingWritten]
    /\ sb = 0 /\ freemap = {1, 2}
    /\ fdtable = [fd \in Fds |-> ClosedFd]
    /\ broken = FALSE
    /\ result = [op |-> "mkfs", fd |-> -1, value |-> 0]

(* Callers pass descriptors they got from sfs_open and have not closed. *)
Held == {fd \in Fds : fdtable[fd].valid}

Next ==
    /\ ~broken /\ Cardinality(Leaked) <= MaxLeaked
    /\ \/ sfs_print_info \/ sfs_reloadfs \/ sfs_lsdir \/ sfs_ls
       \/ \E d \in DirNames : sfs_mkdir(d) \/ sfs_rmdir(d)
       \/ \E d \in DirNames, f \in FileNames : sfs_open(d, f)
       \/ \E fd \in Held :
             \/ sfs_close(fd) \/ sfs_remove(fd) \/ sfs_eof(fd)
             \/ \E buf \in Buffers : sfs_write(fd, buf)
             \/ \E n \in Lengths : sfs_read(fd, n)
             \/ \E m \in Moves, loc \in {"set", "cur", "end"} : sfs_seek(fd, m, loc)

Spec == Init /\ [][Next]_vars
-----------------------------------------------------------------------------
(* TypeOK: no sequence of calls stores an id outside the storage, marks    *)
(* block 0 used, or leaves a file with a part of a frame.                  *)
Ids == BlockIds \ {0}
InodeType ==
    [kind : {"inode"}, size : {FrameSize * k : k \in 0 .. MaxCursor}, first_frame : BlockIds,
     file_name : FileNames \cup {NoName}]
BlockType ==
    [kind : {"super"}, first_dir : BlockIds] \cup [kind : {"map"}, used : SUBSET Ids]
    \cup [kind : {"dir"}, next_dir : BlockIds, dir_name : DirNames, inodes : [InodeSlots -> BlockIds]]
    \cup InodeType
    \cup [kind : {"frame"}, next : BlockIds, content : [FramePlaces -> BlockIds]]
    \cup {FreeBlock} \cup [kind : {"data"}, bytes : [0 .. BlockSize - 1 -> Bytes]]
TypeOK ==
    /\ disk \in [BlockIds -> BlockType] /\ sb \in BlockIds /\ freemap \subseteq Ids
    /\ fdtable \in [Fds -> [valid : BOOLEAN, dir_bid : BlockIds, inode_bid : BlockIds,
                            cur : 0 .. MaxCursor, inode : InodeType]]
    /\ broken \in BOOLEAN
    /\ {1, 2} \subseteq freemap

(* A descriptor agrees with the tree: its directory lists its file, and    *)
(* its copy of the inode is the one on the storage (fs.c:473).             *)
Current(fd) ==
    LET f == fdtable[fd]
    IN  f.dir_bid \in Dirs /\ f.inode_bid \in InodesOf(f.dir_bid) /\ disk[f.inode_bid] = f.inode

(* BreaksAreExplained: a call damages the tree, or goes through an id it   *)
(* was never given, only when it needs blocks and the map is full, through *)
(* a descriptor that no longer agrees with the tree, in a transfer that    *)
(* does not start in the first block of the file, or in one that reaches   *)
(* the file's end.                                                         *)
BreaksAreExplained ==
    [][~broken /\ broken' =>
          \/ /\ freemap' = Ids
             /\ result'.op = "write" => fdtable'[result'.fd].inode # fdtable[result'.fd].inode
          \/ /\ result'.fd \in Held
             /\ \/ ~Current(result'.fd)
                \/ fdtable[result'.fd].cur >= BlockSize
                \/ /\ result'.op \in {"read", "write"}
                   /\ fdtable'[result'.fd].cur >= fdtable'[result'.fd].inode.size]_vars

(* LeaksAreExplained: a block stays marked with nothing that leads to it   *)
(* only after the removal of a file with content, of the first directory   *)
(* while there are others, or a growth through a descriptor that no longer *)
(* agrees with the tree.                                                   *)
LeaksAreExplained ==
    [][disk' # disk /\ ~broken' /\ ~(Leaked' \subseteq Leaked) =>
          \/ result'.op = "remove" /\ disk[fdtable[result'.fd].inode_bid].size > 0
          \/ result'.op = "rmdir" /\ sb' = 0 /\ disk[sb].next_dir # 0
          \/ result'.op \in {"write", "remove"} /\ ~Current(result'.fd)]_vars

(* StaleOnlyByOthers: an open descriptor stops to agree with the tree only *)
(* when the file is grown or removed through another descriptor of it, or  *)
(* the first directory is removed.                                         *)
StaleOnlyByOthers ==
    [][\A fd \in Held :
          disk' # disk /\ ~broken' /\ fdtable'[fd].valid /\ Current(fd) /\ ~Current(fd)' =>
              \/ result'.op = "rmdir" /\ sb' = 0
              \/ /\ result'.op \in {"write", "remove"} /\ result'.fd # fd
                 /\ fdtable[result'.fd].inode_bid = fdtable[fd].inode_bid]_vars
=============================================================================
