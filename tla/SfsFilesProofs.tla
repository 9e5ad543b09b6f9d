--------------------------- MODULE SfsFilesProofs ---------------------------
(***************************************************************************)
(* Theorems about the file system as careful callers use it, for every     *)
(* size of storage, block, frame and directory.  Their calls keep the tree *)
(* whole, and what they see is FileStore.  The proofs go over each call    *)
(* once more: SfsProofs says which blocks it writes, the lemmas here what  *)
(* that makes of the names and the bytes of every file.                    *)
(***************************************************************************)
EXTENDS SfsFiles, SfsProofs

(* Careful callers: every descriptor they hold agrees with the tree, and   *)
(* no two are of one file.                                                 *)
CarefulInv ==
    /\ IInv /\ ~broken
    /\ \A fd \in Held : Current(fd)
    /\ \A a, b \in Held : a # b => FdFile(a) # FdFile(b)

LEMMA CarefulIsNext ==
    ASSUME ~broken, Cardinality(Leaked) <= MaxLeaked, CarefulCalls
    PROVE  Next
<1>1. CASE sfs_print_info \/ sfs_reloadfs \/ sfs_lsdir \/ sfs_ls
  BY <1>1 DEF Next
<1>2. CASE \E d \in DirNames : (Room(1) /\ sfs_mkdir(d)) \/ (~FirstOfMany(d) /\ sfs_rmdir(d))
  BY <1>2 DEF Next
<1>3. CASE \E d \in DirNames, f \in FileNames : sfs_open(d, f)
  BY <1>3 DEF Next
<1>4. CASE \E fd \in Held :
             \/ sfs_close(fd) \/ sfs_remove(fd) \/ sfs_eof(fd)
             \/ \E buf \in Buffers : sfs_write(fd, buf)
             \/ \E n \in Lengths : sfs_read(fd, n)
             \/ \E m \in Moves, loc \in {"set", "cur"} : sfs_seek(fd, m, loc)
  BY <1>4 DEF Next
<1> QED  BY <1>1, <1>2, <1>3, <1>4 DEF CarefulCalls

(* A free block is enough for a call that asks for one. *)
LEMMA RoomForOne == ASSUME TypeInv, Room(1) PROVE freemap # Ids
<1>1. ASSUME freemap = Ids PROVE FALSE
  <2>1. FreeBlocks = {}
    BY <1>1 DEF FreeBlocks, Ids
  <2>2. Cardinality(FreeBlocks) = 0
    BY <2>1, FS_EmptySet
  <2> QED  BY <2>2 DEF Room
<1> QED  BY <1>1

(* The calls that keep the files of all descriptors. *)
LEMMA HeldKept ==
    ASSUME CarefulInv, KeepsFiles, \A fd \in Fds : fdtable'[fd].valid => fdtable[fd].valid /\ SameFile(fd)
    PROVE  /\ \A fd \in Held' : Current(fd)'
           /\ \A a, b \in Held' : a # b => FdFile(a)' # FdFile(b)'
<1>1. \A fd \in Held' : fd \in Held /\ SameFile(fd)
  BY DEF Held
<1>2. \A fd \in Held' : Current(fd)'
  BY <1>1, KeptByAll DEF CarefulInv
<1>3. \A fd \in Held' : FdFile(fd)' = FdFile(fd)
  BY <1>1 DEF SameFile, FdFile
<1> QED  BY <1>1, <1>2, <1>3 DEF CarefulInv

(* The file a careful caller opens is not open yet: the inode is listed by *)
(* one directory only.                                                     *)
LEMMA OpenedOnce ==
    ASSUME TypeInv, Intact, NEW fd \in Held, Current(fd), NEW dirname, NEW name, ~IsOpen(dirname, name),
           NEW n, n = InodeOf(DirOf(dirname), name), n # 0, DirOf(dirname) \in Dirs
    PROVE  FdFile(fd) # n
<1>a. PICK d : d = DirOf(dirname)
  OBVIOUS
<1>b. PICK e : e = fdtable[fd].dir_bid
  OBVIOUS
<1>1. ASSUME FdFile(fd) = n PROVE FALSE
  <2>1. n \in InodesOf(d) /\ disk[n].file_name = name
    BY <1>a, FoundInode
  <2>2. e \in Dirs /\ n \in InodesOf(e) /\ fdtable[fd].inode = disk[n]
    BY <1>1, <1>b DEF Current, FdFile
  <2>3. d \in Dirs /\ Tree(disk, sb, freemap) /\ Dirs = Listed(disk, sb)
    BY <1>a, TreeBefore
  <2>4. PICK i \in InodeSlots, j \in InodeSlots : disk[d].inodes[i] = n /\ disk[e].inodes[j] = n
    BY <2>1, <2>2 DEF InodesOf
  <2>5. Link(disk, sb, d, i, n) /\ Link(disk, sb, e, j, n)
    BY <2>2, <2>3, <2>4 DEF Link
  <2>6. d = e
    BY <2>3, <2>5 DEF Tree, HeldOnce
  <2>7. fdtable[fd].dir_bid = DirOf(dirname) /\ fdtable[fd].inode.file_name = name
    BY <1>a, <1>b, <2>1, <2>2, <2>6
  <2> QED  BY <2>7 DEF IsOpen
<1> QED  BY <1>1

LEMMA OpenOfOldFile ==
    ASSUME NEW dirname, NEW name, ~NewFile(dirname, name), sfs_open(dirname, name)
    PROVE  broken' = broken
<1>a. PICK fd : fd = LowestFd
  OBVIOUS
<1>b. PICK d : d = DirOf(dirname)
  OBVIOUS
<1>c. PICK n : n = InodeOf(d, name)
  OBVIOUS
<1>1. d = 0 \/ n # 0
  BY <1>b, <1>c DEF NewFile
<1>2. CASE fd = -1 \/ d = 0
  BY <1>2, <1>a, <1>b, <1>c DEF sfs_open
<1>3. CASE fd # -1 /\ d # 0 /\ n # 0
  <2>1. OpenExisting(fd, d, n)
    BY <1>3, <1>a, <1>b, <1>c DEF sfs_open
  <2> QED  BY <2>1 DEF OpenExisting
<1> QED  BY <1>1, <1>2, <1>3

LEMMA CarefulOpen ==
    ASSUME CarefulInv, NEW d \in DirNames, NEW f \in FileNames, ~IsOpen(d, f),
           NewFile(d, f) => Room(1), sfs_open(d, f)
    PROVE  /\ ~broken'
           /\ \A fd \in Held' : Current(fd)'
           /\ \A a, b \in Held' : a # b => FdFile(a)' # FdFile(b)'
<1>1. TypeInv /\ Intact /\ ~broken /\ TypeInv'
  <2>1. TypeInv /\ Intact /\ ~broken
    BY DEF CarefulInv, IInv
  <2> QED  BY <2>1, OpenTyped
<1>2. /\ broken' => freemap = Ids
      /\ ~broken' => KeepsFiles
      /\ fdtable' = fdtable \/ \E fd \in Fds : HandsOut(fd, DirOf(d), f)
  BY <1>1, OpenStep
<1>3. ~broken'
  BY <1>1, <1>2, OpenOfOldFile, RoomForOne
<1>4. CASE fdtable' = fdtable
  BY <1>2, <1>3, <1>4, HeldKept DEF SameFile
<1>5. ASSUME NEW fd \in Fds, HandsOut(fd, DirOf(d), f)
      PROVE  /\ \A a \in Held' : Current(a)'
             /\ \A a, b \in Held' : a # b => FdFile(a)' # FdFile(b)'
  <2>a. PICK e : e = DirOf(d)
    OBVIOUS
  <2>b. PICK n : n = InodeOf(e, f)
    OBVIOUS
  <2>1. /\ fd \in Fds /\ ~fdtable[fd].valid /\ e \in Dirs
        /\ \A a \in Fds \ {fd} : fdtable'[a] = fdtable[a]
        /\ Current(fd)'
        /\ fdtable'[fd].inode_bid = n \/ fdtable'[fd].inode_bid \notin freemap
    BY <1>3, <1>5, <2>a, <2>b DEF HandsOut, NewFd
  <2>2. \A a \in Held' \ {fd} : a \in Held /\ SameFile(a) /\ FdFile(a)' = FdFile(a)
    BY <2>1 DEF Held, SameFile, FdFile
  <2>3. \A a \in Held' : Current(a)'
    BY <1>2, <1>3, <2>1, <2>2, KeptByAll DEF CarefulInv
  <2>4. ASSUME NEW a \in Held' \ {fd} PROVE FdFile(a)' # FdFile(fd)'
    <3>1. a \in Held /\ Current(a) /\ FdFile(a)' = FdFile(a)
      BY <2>2 DEF CarefulInv
    <3>2. FdFile(a) \in Inodes
      BY <3>1 DEF Current, Inodes, FdFile
    <3>3. FdFile(a) \in freemap /\ FdFile(a) # 0
      BY <1>1, <3>2, TreeBefore
    <3>4. n # 0 => FdFile(a) # n
      BY <1>1, <2>1, <2>a, <2>b, <3>1, OpenedOnce
    <3>5. FdFile(fd)' = n \/ FdFile(fd)' \notin freemap
      BY <2>1 DEF FdFile
    <3> QED  BY <3>1, <3>3, <3>4, <3>5
  <2>5. ASSUME NEW a \in Held', NEW b \in Held', a # b PROVE FdFile(a)' # FdFile(b)'
    <3>1. CASE a # fd /\ b # fd
      BY <2>2, <2>5, <3>1 DEF CarefulInv
    <3>2. CASE a = fd
      BY <2>4, <2>5, <3>2
    <3>3. CASE b = fd
      BY <2>4, <2>5, <3>3
    <3> QED  BY <3>1, <3>2, <3>3
  <2> QED  BY <2>3, <2>5
<1> QED  BY <1>2, <1>3, <1>4, <1>5

LEMMA OnlyDirectory ==
    ASSUME TypeInv, Intact, NEW name, DirOf(name) = sb, sb # 0, ~FirstOfMany(name)
    PROVE  Dirs = {sb}
<1>0. LinksAreIds(disk) /\ sb \in BlockIds
  BY ListedRefs, NoRef DEF TypeInv
<1>1. IsFiniteSet(Dirs) /\ sb \in Dirs
  BY <1>0, ListedIds DEF Dirs
<1>2. Cardinality(Dirs) \in Nat
  BY <1>1, FS_CardinalityType
<1>3. Cardinality(Dirs) <= 1
  BY <1>2 DEF FirstOfMany
<1>4. /\ IsFiniteSet(Dirs \ {sb}) /\ Cardinality(Dirs \ {sb}) = Cardinality(Dirs) - 1
  BY <1>1, FS_RemoveElement
<1>5. Cardinality(Dirs \ {sb}) \in Nat
  BY <1>4, FS_CardinalityType
<1>6. Dirs \ {sb} = {}
  BY <1>2, <1>3, <1>4, <1>5, FS_EmptySet
<1> QED  BY <1>1, <1>6

(* The first directory goes only when it is the only one, and empty: then  *)
(* no descriptor is held.                                                  *)
LEMMA CarefulRmdir ==
    ASSUME CarefulInv, NEW name \in DirNames, ~FirstOfMany(name), sfs_rmdir(name)
    PROVE  KeepsFiles
<1>1. TypeInv /\ Intact /\ ~broken
  BY DEF CarefulInv, IInv
<1>2. sb' = 0 \/ KeepsFiles
  BY <1>1, RmdirStep
<1>0. LinksAreIds(disk) /\ sb \in BlockIds
  BY <1>1, ListedRefs, NoRef DEF TypeInv
<1>3. CASE sb' = 0 /\ sb = 0
  <2>1. Dirs = {}
    BY <1>0, <1>3, ListedIds DEF Dirs
  <2> QED  BY <2>1 DEF KeepsFiles
<1>4. CASE sb' = 0 /\ sb # 0
  <2>a. PICK d : d = DirOf(name)
    OBVIOUS
  <2>1. d = sb /\ InodesOf(d) = {}
    <3>1. d # 0 /\ InodesOf(d) = {}
      BY <1>4, <2>a DEF sfs_rmdir
    <3>2. sb' = IF d = sb THEN FirstAfter(d) ELSE sb
      BY <2>a, <3>1 DEF sfs_rmdir
    <3> QED  BY <1>4, <3>1, <3>2
  <2>3. Dirs = {sb}
    BY <1>1, <2>1, <2>a, OnlyDirectory, <1>4
  <2> QED  BY <2>1, <2>3 DEF KeepsFiles
<1> QED  BY <1>2, <1>3, <1>4

-----------------------------------------------------------------------------
(* A call through one of the descriptors leaves the others in agreement.   *)
OthersOfFile(fd) == \A d \in Dirs : \A n \in InodesOf(d) \ {FdFile(fd)} : KeepsFile(d, n)

LEMMA HeldKeptBut ==
    ASSUME CarefulInv, NEW fd \in Held, OnlyFd(fd), OthersOfFile(fd),
           fdtable'[fd].valid => Current(fd)' /\ FdFile(fd)' = FdFile(fd)
    PROVE  /\ \A a \in Held' : Current(a)'
           /\ \A a, b \in Held' : a # b => FdFile(a)' # FdFile(b)'
<1>1. \A a \in Held' \ {fd} : a \in Held /\ SameFile(a)
  BY DEF OnlyFd, Held, SameFile
<1>2. ASSUME NEW a \in Held' \ {fd} PROVE Current(a)'
  <2>1. a \in Held /\ Current(a) /\ FdFile(a) # FdFile(fd) /\ SameFile(a)
    BY <1>1, <1>2 DEF CarefulInv
  <2>2. KeepsFile(fdtable[a].dir_bid, FdFile(a))
    BY <2>1 DEF OthersOfFile, Current, FdFile
  <2> QED  BY <2>1, <2>2, KeptCurrent
<1>3. fd \in Held' => Current(fd)' /\ FdFile(fd)' = FdFile(fd)
  BY DEF Held
<1>4. \A a \in Held' : a \in Held /\ FdFile(a)' = FdFile(a)
  BY <1>1, <1>3 DEF SameFile, FdFile
<1> QED  BY <1>2, <1>3, <1>4 DEF CarefulInv

(* The size of a file after a write, as the caller reckons it. *)
LEMMA GrownSize ==
    ASSUME TypeInv, NEW fd \in Fds, NEW buf \in Buffers, sfs_write(fd, buf)
    PROVE  /\ SizeFor(fd, EndOf(fd, Len(buf))) = WriteInode(fd, buf).size
           /\ WriteInode(fd, buf).size = fdtable[fd].inode.size + FrameSize * WriteNew(fd, buf)
           /\ WriteInode(fd, buf).file_name = fdtable[fd].inode.file_name
<1> DEFINE old == fdtable[fd].inode
           n == WriteNew(fd, buf)
<1>1. old \in InodeRefs /\ n \in Nat /\ FitsCursor(old, n) /\ old.size \in Nat
  BY WriteIs, Numbers
<1>2. NewFrames(fdtable[fd].inode, EndOf(fd, Len(buf))) = n
  BY DEF EndOf, WriteEnd, WriteNew
<1>3. SizeFor(fd, EndOf(fd, Len(buf))) = old.size + FrameSize * n
  BY <1>2 DEF SizeFor
<1>4. WriteInode(fd, buf) = GrownInode(old, n)
  BY DEF WriteInode
<1> HIDE DEF old, n
<1>5. GrownInode(old, n).size = old.size + FrameSize * n /\ GrownInode(old, n).file_name = old.file_name
  <2>1. CASE n = 0
    <3>1. FrameSize * 0 = 0
      BY FrameCounts
    <3> QED  BY <1>1, <2>1, <3>1 DEF GrownInode
  <2>2. CASE n # 0
    <3>1. n \in Nat \ {0} /\ old.size + FrameSize * n \in {FrameSize * k : k \in 0 .. MaxCursor}
      BY <1>1, <2>2 DEF FitsCursor
    <3>2. /\ ResizedInode(old, n).size = old.size + FrameSize * n
          /\ ResizedInode(old, n).file_name = old.file_name
      BY <1>1, <3>1, ResizedTyped
    <3> QED  BY <2>2, <3>2 DEF GrownInode
  <2> QED  BY <2>1, <2>2
<1> QED  BY <1>3, <1>4, <1>5 DEF old, n

LEMMA CarefulWrite ==
    ASSUME CarefulInv, NEW fd \in Held, NEW buf \in Buffers, InFirstBlock(fd),
           EndOf(fd, Len(buf)) < SizeFor(fd, EndOf(fd, Len(buf))),
           Room(BlocksFor(NewFrames(fdtable[fd].inode, EndOf(fd, Len(buf))))),
           sfs_write(fd, buf)
    PROVE  /\ ~broken'
           /\ \A a \in Held' : Current(a)'
           /\ \A a, b \in Held' : a # b => FdFile(a)' # FdFile(b)'
<1>1. TypeInv /\ Intact /\ ~broken /\ fd \in Fds /\ Current(fd)
  BY DEF CarefulInv, IInv, Held
<1>2. /\ OnlyFd(fd)
      /\ ~broken' /\ Current(fd) => Current(fd)'
      /\ ~broken' => OthersOfFile(fd)
      /\ fdtable'[fd].inode_bid = fdtable[fd].inode_bid
      /\ /\ Current(fd) /\ BlocksFor(WriteNew(fd, buf)) <= Cardinality(FreeBlocks)
         /\ fdtable[fd].cur < BlockSize /\ WriteEnd(fd, buf) < WriteInode(fd, buf).size
         => ~broken'
  BY <1>1, WriteStep DEF OthersOfFile
<1>3. /\ EndOf(fd, Len(buf)) = WriteEnd(fd, buf)
      /\ NewFrames(fdtable[fd].inode, EndOf(fd, Len(buf))) = WriteNew(fd, buf)
  BY DEF EndOf, WriteEnd, WriteNew
<1>4. fdtable[fd].cur < BlockSize
  BY DEF InFirstBlock
<1>5. BlocksFor(WriteNew(fd, buf)) <= Cardinality(FreeBlocks)
  <2>1. BlocksFor(WriteNew(fd, buf)) \in Nat /\ Cardinality(FreeBlocks) \in Nat
    BY <1>1, WriteIs, PlacesOfBlocks, AllocatedBlocks
  <2> QED  BY <1>3, <2>1 DEF Room
<1>6. SizeFor(fd, EndOf(fd, Len(buf))) = WriteInode(fd, buf).size
  BY <1>1, GrownSize
<1>7. WriteEnd(fd, buf) < WriteInode(fd, buf).size
  BY <1>3, <1>6
<1>8. ~broken'
  BY <1>1, <1>2, <1>4, <1>5, <1>7
<1>9. FdFile(fd)' = FdFile(fd)
  BY <1>2 DEF FdFile
<1> QED  BY <1>1, <1>2, <1>8, <1>9, HeldKeptBut

LEMMA CarefulRead ==
    ASSUME CarefulInv, NEW fd \in Held, NEW n \in Lengths, InFirstBlock(fd),
           EndOf(fd, n) \in 1 .. fdtable[fd].inode.size - 1, sfs_read(fd, n)
    PROVE  ~broken' /\ KeepsFiles /\ OnlyFd(fd) /\ SameFile(fd)
<1> DEFINE cur == fdtable[fd].cur
           size == fdtable[fd].inode.size
<1>1. TypeInv /\ fd \in Fds
  BY DEF CarefulInv, IInv, Held
<1>2. /\ UNCHANGED <<disk, sb, freemap>> /\ OnlyFd(fd) /\ SameFile(fd)
      /\ fdtable'[fd].cur = cur + ReadCount(fd, n)
      /\ broken' => \/ cur >= BlockSize
                    \/ fdtable'[fd].cur >= fdtable'[fd].inode.size
  BY <1>1, ReadStep
<1>3. cur \in Nat /\ size \in Nat /\ n \in Nat /\ BlockSize \in Nat
  BY <1>1, Numbers, CallsAssumption, SizesAssumption
<1>4. cur < BlockSize /\ cur + n \in 1 .. size - 1
  BY DEF InFirstBlock, EndOf
<1>5. fdtable'[fd].inode.size = size
  BY <1>2 DEF SameFile
<1>6. ReadCount(fd, n) = ReadLength(size, cur, n)
  BY DEF ReadCount
<1>7. UNCHANGED <<disk, sb, freemap>> /\ OnlyFd(fd) /\ SameFile(fd)
  BY <1>2
<1> HIDE DEF cur, size
<1>8. ReadLength(size, cur, n) = n
  BY <1>3, <1>4 DEF ReadLength
<1>9. ~broken'
  BY <1>2, <1>3, <1>4, <1>5, <1>6, <1>8
<1> QED  BY <1>7, <1>9, UnchangedKeeps

LEMMA CarefulStep ==
    ASSUME CarefulInv, [Cardinality(Leaked) <= MaxLeaked /\ CarefulCalls]_vars
    PROVE  CarefulInv'
<1> DEFINE Agree == /\ \A a \in Held' : Current(a)'
                    /\ \A a, b \in Held' : a # b => FdFile(a)' # FdFile(b)'
<1>1. TypeInv /\ Intact /\ ~broken /\ IInv
  BY DEF CarefulInv, IInv
<1>2. IInv'
  <2>1. [Next]_vars
    BY <1>1, CarefulIsNext
  <2> QED  BY <1>1, <2>1, StepHolds
<1>3. ASSUME KeepsFiles, fdtable' = fdtable PROVE Agree
  BY <1>3, HeldKept DEF SameFile
<1>4. ASSUME KeepsFiles, NEW fd \in Held, OnlyFd(fd), fdtable'[fd].valid => SameFile(fd) PROVE Agree
  <2>1. \A e \in Fds : fdtable'[e].valid => fdtable[e].valid /\ SameFile(e)
    BY <1>4 DEF OnlyFd, SameFile
  <2> QED  BY <1>4, <2>1, HeldKept
<1>5. CASE UNCHANGED vars
  <2>1. UNCHANGED <<disk, sb, freemap>> /\ fdtable' = fdtable /\ ~broken'
    BY <1>1, <1>5 DEF vars
  <2>2. Agree
    BY <1>3, <2>1, UnchangedKeeps
  <2> QED  BY <1>2, <2>1, <2>2 DEF CarefulInv
<1>6. CASE CarefulCalls
  <2>1. ASSUME sfs_print_info \/ sfs_reloadfs \/ sfs_lsdir \/ sfs_ls PROVE ~broken' /\ Agree
    BY <1>1, <1>3, <2>1, InformTyped, UnchangedKeeps
  <2>2. ASSUME NEW d \in DirNames, Room(1), sfs_mkdir(d) PROVE ~broken' /\ Agree
    <3>1. fdtable' = fdtable /\ (broken' => freemap = Ids) /\ (~broken' => KeepsFiles)
      BY <1>1, <2>2, MkdirStep
    <3> QED  BY <1>1, <1>3, <2>2, <3>1, RoomForOne
  <2>3. ASSUME NEW d \in DirNames, ~FirstOfMany(d), sfs_rmdir(d) PROVE ~broken' /\ Agree
    <3>1. fdtable' = fdtable /\ ~broken'
      BY <1>1, <2>3, RmdirStep
    <3> QED  BY <1>3, <2>3, <3>1, CarefulRmdir
  <2>4. ASSUME NEW d \in DirNames, NEW f \in FileNames, ~IsOpen(d, f),
               NewFile(d, f) => Room(1), sfs_open(d, f)
        PROVE  ~broken' /\ Agree
    BY <2>4, CarefulOpen
  <2>5. ASSUME NEW fd \in Held,
               \/ sfs_close(fd) \/ sfs_eof(fd)
               \/ \E m \in Moves, loc \in {"set", "cur"} : sfs_seek(fd, m, loc)
        PROVE  ~broken' /\ Agree
    <3>1. /\ UNCHANGED <<disk, sb, freemap, broken>> /\ OnlyFd(fd)
          /\ fdtable'[fd].valid => SameFile(fd)
      BY <1>1, <2>5, DescriptorStep DEF Held
    <3> QED  BY <1>1, <1>4, <3>1, UnchangedKeeps
  <2>6. ASSUME NEW fd \in Held, sfs_remove(fd) PROVE ~broken' /\ Agree
    <3>1. /\ OnlyFd(fd) /\ (Current(fd) => ~broken')
          /\ ~broken' => ~fdtable'[fd].valid
          /\ ~broken' => OthersOfFile(fd)
      BY <1>1, <2>6, RemoveStep DEF OthersOfFile
    <3>2. ~broken'
      BY <2>6, <3>1 DEF CarefulInv
    <3> QED  BY <2>6, <3>1, <3>2, HeldKeptBut
  <2>7. ASSUME NEW fd \in Held, NEW buf \in Buffers, InFirstBlock(fd),
               EndOf(fd, Len(buf)) < SizeFor(fd, EndOf(fd, Len(buf))),
               Room(BlocksFor(NewFrames(fdtable[fd].inode, EndOf(fd, Len(buf))))),
               sfs_write(fd, buf)
        PROVE  ~broken' /\ Agree
    BY <2>7, CarefulWrite
  <2>8. ASSUME NEW fd \in Held, NEW n \in Lengths, InFirstBlock(fd),
               EndOf(fd, n) \in 1 .. fdtable[fd].inode.size - 1, sfs_read(fd, n)
        PROVE  ~broken' /\ Agree
    <3>1. ~broken' /\ KeepsFiles /\ OnlyFd(fd) /\ SameFile(fd)
      BY <2>8, CarefulRead
    <3> QED  BY <1>4, <3>1
  <2> HIDE DEF Agree
  <2>9. ~broken' /\ Agree
    BY <1>6, <2>1, <2>2, <2>3, <2>4, <2>5, <2>6, <2>7, <2>8 DEF CarefulCalls
  <2> QED  BY <1>2, <2>9 DEF CarefulInv, Agree
<1> QED  BY <1>5, <1>6

(* NothingBreaks (fs.c): careful callers never make a call go astray, and  *)
(* the tree they use stays intact.                                         *)
THEOREM CarefulCallersAreSafe == CarefulSpec => []NothingBreaks
<1>1. Init => CarefulInv
  <2>1. Init => IInv
    BY InitHolds
  <2>2. Init => ~broken /\ Held = {}
    BY DEF Init, Held, ClosedFd
  <2> QED  BY <2>1, <2>2 DEF CarefulInv
<1>2. CarefulInv /\ [Cardinality(Leaked) <= MaxLeaked /\ CarefulCalls]_vars => CarefulInv'
  BY CarefulStep
<1>3. CarefulInv => NothingBreaks
  BY DEF CarefulInv, IInv, NothingBreaks
<1> QED  BY <1>1, <1>2, <1>3, PTL DEF CarefulSpec

-----------------------------------------------------------------------------
(* The bytes of a file in the blocks dk. *)
ContentIn(dk, n) ==
    LET frames == Listing(dk, dk[n].first_frame)
        Frame_at(p) == dk[frames[p \div FrameSize + 1]]
        Block_at(p) == dk[Frame_at(p).content[(p \div BlockSize) % FrameCount]]
    IN  [p \in 0 .. dk[n].size - 1 |-> ByteOf(Block_at(p), p % BlockSize)]

(* The id of the k-th block of a file, and its p-th byte. *)
FrameNo(dk, n, k) == Listing(dk, dk[n].first_frame)[k \div FrameCount + 1]
BlockNo(dk, n, k) == dk[FrameNo(dk, n, k)].content[k % FrameCount]
ByteIn(dk, n, p) == ByteOf(dk[BlockNo(dk, n, p \div BlockSize)], p % BlockSize)
FileBlocks(dk, n) == FramesIn(dk, n) \cup UNION {ContentsIn(dk, f) : f \in FramesIn(dk, n)}

LEMMA DoubleQuotient ==
    ASSUME NEW p \in Nat
    PROVE  p \div FrameSize = (p \div BlockSize) \div FrameCount
<1> DEFINE q == p \div BlockSize
           r == p % BlockSize
           c == q \div FrameCount
           t == q % FrameCount
<1>1. BlockSize \in Nat \ {0} /\ FrameCount \in Nat \ {0} /\ FrameSize \in Nat \ {0}
  BY SizesAssumption, FrameCounts
<1>2. q \in Nat /\ r \in 0 .. BlockSize - 1 /\ p = BlockSize * q + r
  BY <1>1, Division
<1> HIDE DEF q, r
<1>3. c \in Nat /\ t \in 0 .. FrameCount - 1 /\ q = FrameCount * c + t
  BY <1>1, <1>2, Division
<1> HIDE DEF c, t
<1>4. \A x, y \in Nat : BlockSize * (x + y) = BlockSize * x + BlockSize * y /\ BlockSize * x \in Nat
  BY <1>1
<1>5. \A x, y, z \in Nat : x * (y * z) = (x * y) * z /\ y * z \in Nat
  OBVIOUS
<1>6. FrameCount * c \in Nat /\ BlockSize * (FrameCount * c) = FrameSize * c /\ t \in Nat
  BY <1>1, <1>3, <1>5 DEF FrameSize
<1>7. BlockSize * q = FrameSize * c + BlockSize * t /\ BlockSize * t \in Nat /\ FrameSize * c \in Nat
  BY <1>1, <1>3, <1>4, <1>5, <1>6
<1>8. BlockSize * t + r \in 0 .. FrameSize - 1
  <2>1. FrameCount - t \in Nat \ {0} /\ FrameCount - t \in Nat /\ t + (FrameCount - t) = FrameCount
    BY <1>1, <1>3
  <2>2. BlockSize * t + BlockSize * (FrameCount - t) = FrameSize
    BY <1>4, <1>6, <2>1 DEF FrameSize
  <2>3. BlockSize * (FrameCount - t) >= BlockSize /\ BlockSize * (FrameCount - t) \in Nat
    BY <1>1, <1>4, <2>1, AtLeast
  <2> QED  BY <1>1, <1>2, <1>7, <2>2, <2>3
<1>9. p = FrameSize * c + (BlockSize * t + r)
  BY <1>1, <1>2, <1>7, <1>8
<1>10. (FrameSize * c + (BlockSize * t + r)) \div FrameSize = c
  BY <1>1, <1>3, <1>8, QuotientAndRemainder
<1> QED  BY <1>9, <1>10 DEF c, q

LEMMA ContentIs ==
    ASSUME NEW dk, NEW n, dk[n].size \in Nat
    PROVE  ContentIn(dk, n) = [p \in 0 .. dk[n].size - 1 |-> ByteIn(dk, n, p)]
<1> DEFINE frames == Listing(dk, dk[n].first_frame)
           size == dk[n].size
           byte(p) == ByteOf(dk[dk[frames[p \div FrameSize + 1]].content[(p \div BlockSize) % FrameCount]], p % BlockSize)
<1>1. ContentIn(dk, n) = [p \in 0 .. size - 1 |-> byte(p)]
  BY DEF ContentIn
<1>2. \A p \in Nat : byte(p) = ByteIn(dk, n, p)
  BY DoubleQuotient DEF ByteIn, BlockNo, FrameNo
<1>3. \A p \in 0 .. size - 1 : p \in Nat
  OBVIOUS
<1> HIDE DEF byte, size
<1>4. [p \in 0 .. size - 1 |-> byte(p)] = [p \in 0 .. size - 1 |-> ByteIn(dk, n, p)]
  BY <1>2, <1>3
<1> QED  BY <1>1, <1>4 DEF size

(* The frames of a file, in their order. *)
LEMMA FileFrames ==
    ASSUME NEW dk, NEW s, Typed(dk, s), Shape(dk, s), HeldOnce(dk, s), NEW n \in InodesUnder(dk, s),
           NEW frames, frames = Listing(dk, dk[n].first_frame)
    PROVE  /\ Len(frames) \in Nat /\ DOMAIN frames = 1 .. Len(frames) /\ frames \in Seq(Ids)
           /\ FramesIn(dk, n) = {frames[j] : j \in 1 .. Len(frames)}
           /\ \A i, j \in 1 .. Len(frames) : frames[i] = frames[j] => i = j
           /\ dk[n].size = FrameSize * Len(frames)
           /\ dk[n].size = BlockSize * (FrameCount * Len(frames)) /\ FrameCount * Len(frames) \in Nat
           /\ dk[n].size \in Nat
<1>1. /\ LinksAreIds(dk) /\ dk[n].first_frame \in BlockIds /\ IsFile(dk, n)
      /\ OneWay(dk, dk[n].first_frame)
  BY Nexts, ShapeRefs, ListsEnd
<1>2. /\ frames \in Seq(Ids)
      /\ FramesIn(dk, n) = {frames[j] : j \in 1 .. Len(frames)}
  BY <1>1, ListingShape, ListedIds DEF IsWalk, FramesIn
<1>3. \A i, j \in 1 .. Len(frames) : frames[i] = frames[j] => i = j
  <2>1. CASE dk[n].first_frame = 0
    <3>1. frames = << >>
      BY <1>1, <2>1, ListingShape DEF IsWalk
    <3> QED  BY <3>1
  <2>2. CASE dk[n].first_frame # 0
    <3>1. dk[n].first_frame \in Ids
      BY <1>1, <2>2 DEF Ids
    <3> QED  BY <1>1, <3>1, OneWayIsInjective
  <2> QED  BY <2>1, <2>2
<1>4. DOMAIN frames = 1 .. Len(frames) /\ Len(frames) \in Nat
  BY <1>2
<1>5. Cardinality(FramesIn(dk, n)) = Len(frames)
  <2> HIDE DEF FramesIn
  <2>1. Cardinality({frames[j] : j \in 1 .. Len(frames)}) = Len(frames)
    <3>1. \A t \in Seq(Ids) : (\A i, j \in 1 .. Len(t) : t[i] = t[j] => i = j)
                            => Cardinality({t[k] : k \in 1 .. Len(t)}) = Len(t)
      BY CountDistinct
    <3>2. frames \in Seq(Ids)
      BY <1>2
    <3> QED  BY <1>3, <3>1, <3>2
  <2> QED  BY <1>2, <2>1
<1>6. dk[n].size = FrameSize * Len(frames)
  BY <1>1, <1>5 DEF IsFile
<1>7. /\ dk[n].size = BlockSize * (FrameCount * Len(frames))
      /\ FrameCount * Len(frames) \in Nat
  BY <1>4, <1>6, SizeInBlocks
<1>8. dk[n].size \in Nat
  BY <1>4, <1>6, FrameCounts
<1> QED  BY <1>2, <1>3, <1>4, <1>6, <1>7, <1>8

(* The blocks of a file: each is listed once. *)
LEMMA BlockOfFile ==
    ASSUME NEW dk, NEW s, Typed(dk, s), Shape(dk, s), HeldOnce(dk, s), NEW n \in InodesUnder(dk, s),
           NEW k \in Nat, BlockSize * k < dk[n].size
    PROVE  /\ k \div FrameCount + 1 \in 1 .. Len(Listing(dk, dk[n].first_frame))
           /\ FrameNo(dk, n, k) \in FramesIn(dk, n)
           /\ BlockNo(dk, n, k) \in ContentsIn(dk, FrameNo(dk, n, k))
           /\ k % FrameCount \in FramePlaces
           /\ Link(dk, s, FrameNo(dk, n, k), k % FrameCount, BlockNo(dk, n, k))
           /\ BlockNo(dk, n, k) \in FileBlocks(dk, n) /\ BlockNo(dk, n, k) \in Refs \ {0}
<1> DEFINE frames == Listing(dk, dk[n].first_frame)
           place == k \div FrameCount + 1
<1>1. /\ Len(frames) \in Nat /\ FramesIn(dk, n) = {frames[j] : j \in 1 .. Len(frames)}
      /\ dk[n].size = BlockSize * (FrameCount * Len(frames)) /\ FrameCount * Len(frames) \in Nat
  BY FileFrames
<1>2. k % FrameCount \in FramePlaces /\ k \div FrameCount \in Nat /\ FrameCount \in Nat \ {0}
      /\ BlockSize \in Nat \ {0}
  BY Division, SizesAssumption DEF FramePlaces
<1> HIDE DEF frames
<1>3. place \in 1 .. Len(frames)
  <2>1. BlockSize * k \in Nat
    BY <1>2
  <2>2. k < FrameCount * Len(frames)
    <3>1. (BlockSize * k) \div BlockSize = k
      BY <1>2, QuotientOfProduct
    <3>2. (BlockSize * k) \div BlockSize < FrameCount * Len(frames)
      BY <1>1, <1>2, <2>1, QuotientBelow
    <3> QED  BY <3>1, <3>2
  <2>3. k \div FrameCount < Len(frames)
    BY <1>1, <1>2, <2>2, QuotientBelow
  <2> QED  BY <1>1, <1>2, <2>3
<1>4. FrameNo(dk, n, k) = frames[place]
  BY DEF FrameNo, frames
<1>5. FrameNo(dk, n, k) \in FramesIn(dk, n)
  BY <1>1, <1>3, <1>4
<1>6. FrameNo(dk, n, k) \in FramesUnder(dk, s)
  BY <1>5 DEF FramesUnder
<1>7. BlockNo(dk, n, k) \in Refs \ {0}
  BY <1>2, <1>6, ShapeRefs DEF BlockNo
<1>8. BlockNo(dk, n, k) \in ContentsIn(dk, FrameNo(dk, n, k))
  BY <1>2 DEF BlockNo, ContentsIn
<1>9. Link(dk, s, FrameNo(dk, n, k), k % FrameCount, BlockNo(dk, n, k))
  BY <1>2, <1>6, <1>7 DEF BlockNo, Link
<1> QED  BY <1>2, <1>3, <1>5, <1>7, <1>8, <1>9 DEF frames, FileBlocks

LEMMA BlockListedOnce ==
    ASSUME NEW dk, NEW s, Typed(dk, s), Shape(dk, s), HeldOnce(dk, s), NEW n \in InodesUnder(dk, s),
           NEW k \in Nat, BlockSize * k < dk[n].size, NEW l \in Nat, BlockSize * l < dk[n].size,
           BlockNo(dk, n, k) = BlockNo(dk, n, l)
    PROVE  k = l
<1> DEFINE frames == Listing(dk, dk[n].first_frame)
           i == k \div FrameCount + 1
           j == l \div FrameCount + 1
<1>1. /\ Link(dk, s, FrameNo(dk, n, k), k % FrameCount, BlockNo(dk, n, k))
      /\ Link(dk, s, FrameNo(dk, n, l), l % FrameCount, BlockNo(dk, n, l))
      /\ i \in 1 .. Len(frames) /\ j \in 1 .. Len(frames)
  BY BlockOfFile
<1>2. FrameNo(dk, n, k) = FrameNo(dk, n, l) /\ k % FrameCount = l % FrameCount
  BY <1>1 DEF HeldOnce
<1>3. frames[i] = frames[j]
  BY <1>2 DEF FrameNo
<1>4. i = j
  BY <1>1, <1>3, FileFrames
<1>5. /\ k = FrameCount * (k \div FrameCount) + (k % FrameCount) /\ k \div FrameCount \in Nat
      /\ l = FrameCount * (l \div FrameCount) + (l % FrameCount) /\ l \div FrameCount \in Nat
  BY Division, SizesAssumption
<1>6. k \div FrameCount = l \div FrameCount
  BY <1>4, <1>5
<1> QED  BY <1>2, <1>5, <1>6

(* Where a byte is. *)
LEMMA BytePlace ==
    ASSUME NEW p \in Nat
    PROVE  /\ p \div BlockSize \in Nat /\ p % BlockSize \in 0 .. BlockSize - 1
           /\ p = BlockSize * (p \div BlockSize) + (p % BlockSize)
           /\ BlockSize * (p \div BlockSize) \in Nat /\ BlockSize * (p \div BlockSize) <= p
<1>1. BlockSize \in Nat \ {0}
  BY SizesAssumption
<1>2. p \div BlockSize \in Nat /\ p % BlockSize \in 0 .. BlockSize - 1 /\ p = BlockSize * (p \div BlockSize) + (p % BlockSize)
  BY <1>1, Division
<1> DEFINE x == BlockSize * (p \div BlockSize)
<1>3. x \in Nat
  BY <1>1, <1>2
<1>4. x <= p
  <2> HIDE DEF x
  <2>1. p = x + (p % BlockSize)
    BY <1>2 DEF x
  <2> QED  BY <1>1, <1>2, <1>3, <2>1
<1> QED  BY <1>2, <1>3, <1>4

LEMMA BlockBefore ==
    ASSUME NEW p \in Nat, NEW size \in Nat, p < size
    PROVE  p \div BlockSize \in Nat /\ BlockSize * (p \div BlockSize) < size
<1> DEFINE x == BlockSize * (p \div BlockSize)
<1>1. p \div BlockSize \in Nat /\ x \in Nat /\ x <= p
  BY BytePlace
<1> HIDE DEF x
<1>2. x < size
  BY <1>1
<1> QED  BY <1>1, <1>2 DEF x

(* A file keeps its bytes while its inode, its frames and its blocks are   *)
(* kept.                                                                   *)
LEMMA SameContent ==
    ASSUME NEW dk, NEW s, Typed(dk, s), Shape(dk, s), HeldOnce(dk, s), NEW n \in InodesUnder(dk, s),
           NEW em, NEW s2, Typed(em, s2), em[n] = dk[n], \A b \in FileBlocks(dk, n) : em[b] = dk[b]
    PROVE  ContentIn(em, n) = ContentIn(dk, n) /\ dk[n].size \in Nat
<1>1. /\ LinksAreIds(dk) /\ LinksAreIds(em) /\ dk[n].first_frame \in BlockIds
      /\ dk[n].size \in Nat
  BY Nexts, FileFrames, ListedRefs DEF Typed
<1>2. \A f \in Listed(dk, dk[n].first_frame) : em[f] = dk[f]
  BY DEF FileBlocks, FramesIn
<1>3. Listing(em, dk[n].first_frame) = Listing(dk, dk[n].first_frame)
  BY <1>1, <1>2, SameListing
<1>4. ASSUME NEW p \in 0 .. dk[n].size - 1 PROVE ByteIn(em, n, p) = ByteIn(dk, n, p)
  <2>1. p \in Nat /\ p < dk[n].size
    BY <1>1
  <2>2. p \div BlockSize \in Nat /\ BlockSize * (p \div BlockSize) < dk[n].size
    BY <1>1, <2>1, BlockBefore
  <2> DEFINE k == p \div BlockSize
  <2>3. FrameNo(dk, n, k) \in FramesIn(dk, n) /\ BlockNo(dk, n, k) \in FileBlocks(dk, n)
    BY <2>2, BlockOfFile
  <2>4. FrameNo(em, n, k) = FrameNo(dk, n, k)
    BY <1>3 DEF FrameNo
  <2>5. BlockNo(em, n, k) = BlockNo(dk, n, k)
    BY <2>3, <2>4 DEF BlockNo, FileBlocks
  <2> QED  BY <2>3, <2>5 DEF ByteIn
<1>5. ContentIn(em, n) = [p \in 0 .. dk[n].size - 1 |-> ByteIn(em, n, p)]
  BY <1>1, ContentIs
<1>6. ContentIn(dk, n) = [p \in 0 .. dk[n].size - 1 |-> ByteIn(dk, n, p)]
  BY <1>1, ContentIs
<1> QED  BY <1>1, <1>4, <1>5, <1>6

(* The blocks of a file are of no other file. *)
LEMMA FileBlocksApart ==
    ASSUME NEW dk, NEW s, Typed(dk, s), Shape(dk, s), HeldOnce(dk, s), NEW n \in InodesUnder(dk, s)
    PROVE  /\ FileBlocks(dk, n) \cap (Listed(dk, s) \cup InodesUnder(dk, s)) = {}
           /\ \A m \in InodesUnder(dk, s) \ {n} : FileBlocks(dk, n) \cap FileBlocks(dk, m) = {}
           /\ FileBlocks(dk, n) \subseteq OwnedUnder(dk, s) /\ FileBlocks(dk, n) \subseteq BlockIds \ {0}
<1>1. FramesIn(dk, n) \subseteq FramesUnder(dk, s)
  BY DEF FramesUnder
<1>2. FileBlocks(dk, n) \cap (Listed(dk, s) \cup InodesUnder(dk, s)) = {}
  BY <1>1, PartsApart DEF FileBlocks
<1>3. FileBlocks(dk, n) \subseteq OwnedUnder(dk, s)
  BY <1>1 DEF FileBlocks, OwnedUnder
<1>4. FileBlocks(dk, n) \subseteq BlockIds \ {0}
  <2>1. \A f \in FramesUnder(dk, s) : f \in Refs \ {0} /\ ContentsIn(dk, f) \subseteq Refs \ {0}
    BY ShapeRefs DEF ContentsIn
  <2> QED  BY <1>1, <2>1, NoRef DEF FileBlocks
<1>5. ASSUME NEW m \in InodesUnder(dk, s) \ {n}, NEW b, b \in FileBlocks(dk, n), b \in FileBlocks(dk, m)
      PROVE  FALSE
  <2>1. FramesIn(dk, m) \subseteq FramesUnder(dk, s) /\ FramesIn(dk, n) \cap FramesIn(dk, m) = {}
    BY FilesApart DEF FramesUnder
  <2>2. CASE b \in FramesIn(dk, n) \/ b \in FramesIn(dk, m)
    <3>1. b \in FramesUnder(dk, s) /\ b \in OwnedUnder(dk, s)
      BY <1>1, <2>1, <2>2 DEF OwnedUnder
    <3>2. \A f \in FramesUnder(dk, s) : b \notin ContentsIn(dk, f)
      BY <3>1, PartsApart
    <3>3. b \in FramesIn(dk, n) /\ b \in FramesIn(dk, m)
      BY <1>1, <1>5, <2>1, <2>2, <3>2 DEF FileBlocks
    <3> QED  BY <2>1, <3>3
  <2>3. CASE b \notin FramesIn(dk, n) /\ b \notin FramesIn(dk, m)
    <3>1. PICK f \in FramesIn(dk, n), g \in FramesIn(dk, m) : b \in ContentsIn(dk, f) /\ b \in ContentsIn(dk, g)
      BY <1>5, <2>3 DEF FileBlocks
    <3>2. PICK i \in FramePlaces, j \in FramePlaces : b = dk[f].content[i] /\ b = dk[g].content[j]
      BY <3>1 DEF ContentsIn
    <3>3. b # 0
      BY <1>4, <1>5
    <3>4. Link(dk, s, f, i, b) /\ Link(dk, s, g, j, b)
      BY <1>1, <2>1, <3>2, <3>3 DEF Link
    <3>5. f = g
      BY <3>4 DEF HeldOnce
    <3> QED  BY <2>1, <3>5
  <2> QED  BY <2>2, <2>3
<1> QED  BY <1>2, <1>3, <1>4, <1>5

-----------------------------------------------------------------------------
(* The directories and the files of a tree, by their names.                *)
NamesOnce(dk, s) ==
    /\ \A d, e \in Listed(dk, s) : dk[d].dir_name = dk[e].dir_name => d = e
    /\ \A d \in Listed(dk, s) : \A m, n \in InodesIn(dk, d) :
          dk[m].file_name = dk[n].file_name => m = n
NameOf(dk, d, n) == <<dk[d].dir_name, dk[n].file_name>>
DirNamesOf(dk, s) == {dk[d].dir_name : d \in Listed(dk, s)}
FileNamesOf(dk, s) == UNION {{NameOf(dk, d, n) : n \in InodesIn(dk, d)} : d \in Listed(dk, s)}
DirNamed(dk, s, name) ==
    LET found == {d \in Listed(dk, s) : dk[d].dir_name = name}
    IN  IF found = {} THEN 0 ELSE CHOOSE d \in found : TRUE
InodeNamed(dk, d, name) ==
    LET found == {n \in InodesIn(dk, d) : dk[n].file_name = name}
    IN  IF found = {} THEN 0 ELSE CHOOSE n \in found : TRUE
FilesOf(dk, s) ==
    [x \in FileNamesOf(dk, s) |-> ContentIn(dk, InodeNamed(dk, DirNamed(dk, s, x[1]), x[2]))]

(* The file x has the bytes c. *)
FileAt(dk, s, x, c) ==
    \E d \in Listed(dk, s) : \E n \in InodesIn(dk, d) : x = NameOf(dk, d, n) /\ c = ContentIn(dk, n)

LEMMA FoundByName ==
    ASSUME NEW dk, NEW s, NamesOnce(dk, s), NEW d \in Listed(dk, s)
    PROVE  /\ DirNamed(dk, s, dk[d].dir_name) = d
           /\ \A n \in InodesIn(dk, d) : InodeNamed(dk, d, dk[n].file_name) = n
<1>1. DirNamed(dk, s, dk[d].dir_name) = d
  <2> DEFINE found == {e \in Listed(dk, s) : dk[e].dir_name = dk[d].dir_name}
  <2>1. found = {d}
    BY DEF NamesOnce
  <2>2. DirNamed(dk, s, dk[d].dir_name) = IF found = {} THEN 0 ELSE CHOOSE e \in found : TRUE
    BY DEF DirNamed
  <2> HIDE DEF found
  <2>3. (CHOOSE e \in found : TRUE) \in found
    BY <2>1
  <2> QED  BY <2>1, <2>2, <2>3
<1>2. ASSUME NEW n \in InodesIn(dk, d) PROVE InodeNamed(dk, d, dk[n].file_name) = n
  <2> DEFINE found == {m \in InodesIn(dk, d) : dk[m].file_name = dk[n].file_name}
  <2>1. found = {n}
    BY DEF NamesOnce
  <2>2. InodeNamed(dk, d, dk[n].file_name) = IF found = {} THEN 0 ELSE CHOOSE e \in found : TRUE
    BY DEF InodeNamed
  <2> HIDE DEF found
  <2>3. (CHOOSE e \in found : TRUE) \in found
    BY <2>1
  <2> QED  BY <2>1, <2>2, <2>3
<1> QED  BY <1>1, <1>2

LEMMA FilesAre ==
    ASSUME NEW dk, NEW s, NamesOnce(dk, s)
    PROVE  /\ DOMAIN FilesOf(dk, s) = FileNamesOf(dk, s)
           /\ FilesOf(dk, s) = [x \in FileNamesOf(dk, s) |-> FilesOf(dk, s)[x]]
           /\ \A x : x \in FileNamesOf(dk, s) <=> \E c : FileAt(dk, s, x, c)
           /\ \A x, c : FileAt(dk, s, x, c) => FilesOf(dk, s)[x] = c
<1>1. /\ DOMAIN FilesOf(dk, s) = FileNamesOf(dk, s)
      /\ FilesOf(dk, s) = [x \in FileNamesOf(dk, s) |-> FilesOf(dk, s)[x]]
  BY DEF FilesOf
<1>2. \A x : x \in FileNamesOf(dk, s) <=> \E c : FileAt(dk, s, x, c)
  BY DEF FileNamesOf, FileAt
<1>3. ASSUME NEW x, NEW c, FileAt(dk, s, x, c) PROVE FilesOf(dk, s)[x] = c
  <2>a. PICK d \in Listed(dk, s) : \E n \in InodesIn(dk, d) : x = NameOf(dk, d, n) /\ c = ContentIn(dk, n)
    BY <1>3 DEF FileAt
  <2>1. PICK n \in InodesIn(dk, d) : x = NameOf(dk, d, n) /\ c = ContentIn(dk, n)
    BY <2>a
  <2>2. x \in FileNamesOf(dk, s)
    BY <1>2, <1>3
  <2>3. x[1] = dk[d].dir_name /\ x[2] = dk[n].file_name
    BY <2>1 DEF NameOf
  <2>4. DirNamed(dk, s, x[1]) = d /\ InodeNamed(dk, d, x[2]) = n
    BY <2>1, <2>3, FoundByName
  <2>5. FilesOf(dk, s)[x] = ContentIn(dk, InodeNamed(dk, DirNamed(dk, s, x[1]), x[2]))
    BY <2>2 DEF FilesOf
  <2> QED  BY <2>1, <2>4, <2>5
<1> QED  BY <1>1, <1>2, <1>3

(* Two trees with the same files, but for one.                             *)
LEMMA SameFiles ==
    ASSUME NEW dk, NEW s, NamesOnce(dk, s), NEW em, NEW t, NamesOnce(em, t),
           \A x, c : FileAt(em, t, x, c) <=> FileAt(dk, s, x, c)
    PROVE  FilesOf(em, t) = FilesOf(dk, s)
<1> DEFINE F == FilesOf(dk, s)
           G == FilesOf(em, t)
           A == FileNamesOf(dk, s)
           B == FileNamesOf(em, t)
<1>1. /\ F = [x \in A |-> F[x]] /\ (\A x : x \in A <=> \E c : FileAt(dk, s, x, c))
      /\ \A x, c : FileAt(dk, s, x, c) => F[x] = c
  BY FilesAre
<1>2. /\ G = [x \in B |-> G[x]] /\ (\A x : x \in B <=> \E c : FileAt(em, t, x, c))
      /\ \A x, c : FileAt(em, t, x, c) => G[x] = c
  BY FilesAre
<1> HIDE DEF F, G, A, B
<1>3. A = B /\ \A x \in A : F[x] = G[x]
  BY <1>1, <1>2
<1>4. [x \in A |-> F[x]] = [x \in B |-> G[x]]
  BY <1>3
<1> QED  BY <1>1, <1>2, <1>4 DEF F, G

WithFile(F, k, v) == [z \in DOMAIN F \cup {k} |-> IF z = k THEN v ELSE F[z]]
WithoutFile(F, k) == [z \in DOMAIN F \ {k} |-> F[z]]
SetsFile(dk, s, em, t, k, v) ==
    \A x, c : FileAt(em, t, x, c) <=> (x # k /\ FileAt(dk, s, x, c)) \/ (x = k /\ c = v)

LEMMA OneFileSet ==
    ASSUME NEW dk, NEW s, NamesOnce(dk, s), NEW em, NEW t, NamesOnce(em, t), NEW k, NEW v,
           SetsFile(dk, s, em, t, k, v)
    PROVE  FilesOf(em, t) = WithFile(FilesOf(dk, s), k, v)
<1> DEFINE F == FilesOf(dk, s)
           G == FilesOf(em, t)
           A == FileNamesOf(dk, s)
           B == FileNamesOf(em, t)
           H == [z \in A \cup {k} |-> IF z = k THEN v ELSE F[z]]
<1>1. /\ DOMAIN F = A /\ (\A x : x \in A <=> \E c : FileAt(dk, s, x, c))
      /\ \A x, c : FileAt(dk, s, x, c) => F[x] = c
  BY FilesAre
<1>2. /\ G = [x \in B |-> G[x]] /\ (\A x : x \in B <=> \E c : FileAt(em, t, x, c))
      /\ \A x, c : FileAt(em, t, x, c) => G[x] = c
  BY FilesAre
<1> HIDE DEF F, G, A, B
<1>3. B = A \cup {k}
  <2>1. ASSUME NEW x PROVE x \in B <=> x \in A \cup {k}
    BY <1>1, <1>2 DEF SetsFile
  <2> QED  BY <2>1
<1>4. ASSUME NEW x \in B PROVE G[x] = IF x = k THEN v ELSE F[x]
  BY <1>1, <1>2 DEF SetsFile
<1>5. [x \in B |-> G[x]] = H
  BY <1>3, <1>4
<1> QED  BY <1>1, <1>2, <1>5 DEF F, G, WithFile

LEMMA OneFileDropped ==
    ASSUME NEW dk, NEW s, NamesOnce(dk, s), NEW em, NEW t, NamesOnce(em, t), NEW k,
           \A x, c : FileAt(em, t, x, c) <=> x # k /\ FileAt(dk, s, x, c)
    PROVE  FilesOf(em, t) = WithoutFile(FilesOf(dk, s), k)
<1> DEFINE F == FilesOf(dk, s)
           G == FilesOf(em, t)
           A == FileNamesOf(dk, s)
           B == FileNamesOf(em, t)
<1>1. /\ DOMAIN F = A /\ (\A x : x \in A <=> \E c : FileAt(dk, s, x, c))
      /\ \A x, c : FileAt(dk, s, x, c) => F[x] = c
  BY FilesAre
<1>2. /\ G = [x \in B |-> G[x]] /\ (\A x : x \in B <=> \E c : FileAt(em, t, x, c))
      /\ \A x, c : FileAt(em, t, x, c) => G[x] = c
  BY FilesAre
<1> HIDE DEF F, G, A, B
<1>3. B = A \ {k} /\ \A x \in B : G[x] = F[x]
  BY <1>1, <1>2
<1>4. [x \in B |-> G[x]] = [z \in A \ {k} |-> F[z]]
  BY <1>3
<1> QED  BY <1>1, <1>2, <1>4 DEF F, G, WithoutFile

(* As many names as there are directories, and as many as there are files. *)
LEMMA NamesAreCounted ==
    ASSUME NEW dk, NEW s, Typed(dk, s), Shape(dk, s), HeldOnce(dk, s), NamesOnce(dk, s)
    PROVE  /\ Cardinality(DirNamesOf(dk, s)) = Cardinality(Listed(dk, s))
           /\ Cardinality(FileNamesOf(dk, s)) = Cardinality(InodesUnder(dk, s))
<1> DEFINE D == Listed(dk, s)
           I == InodesUnder(dk, s)
           f == [d \in D |-> dk[d].dir_name]
           Home(n) == CHOOSE d \in D : n \in InodesIn(dk, d)
           g == [n \in I |-> NameOf(dk, Home(n), n)]
<1>1. IsFiniteSet(D) /\ IsFiniteSet(I)
  <2>1. LinksAreIds(dk) /\ s \in BlockIds /\ I \subseteq BlockIds
    BY ListedRefs, ShapeRefs, NoRef DEF Typed
  <2>2. IsFiniteSet(BlockIds)
    <3>1. 0 \in Int /\ LastBlock \in Int
      BY SizesAssumption
    <3> QED  BY <3>1, FS_Interval DEF BlockIds
  <2> QED  BY <2>1, <2>2, ListedIds, FS_Subset
<1>2. f \in Bijection(D, DirNamesOf(dk, s))
  BY DEF Bijection, Injection, Surjection, IsInjective, DirNamesOf, NamesOnce
<1>3. \A n \in I : Home(n) \in D /\ n \in InodesIn(dk, Home(n))
  BY DEF InodesUnder
<1>4. ASSUME NEW d \in D, NEW n \in InodesIn(dk, d) PROVE n \in I /\ Home(n) = d
  <2>1. n \in I
    BY <1>4 DEF InodesUnder
  <2>2. Home(n) \in D /\ n \in InodesIn(dk, Home(n))
    BY <1>3, <2>1
  <2> HIDE DEF Home
  <2>3. PICK i \in InodeSlots, j \in InodeSlots : n = dk[d].inodes[i] /\ n = dk[Home(n)].inodes[j] /\ n # 0
    BY <1>4, <2>2 DEF InodesIn
  <2>4. Link(dk, s, d, i, n) /\ Link(dk, s, Home(n), j, n)
    BY <1>4, <2>2, <2>3 DEF Link
  <2>5. Home(n) = d
    BY <2>4 DEF HeldOnce
  <2> QED  BY <2>1, <2>5
<1> HIDE DEF Home, D, I
<1>5. g \in Bijection(I, FileNamesOf(dk, s))
  <2>1. \A n \in I : g[n] \in FileNamesOf(dk, s)
    BY <1>3 DEF FileNamesOf, D
  <2>2. \A x \in FileNamesOf(dk, s) : \E n \in I : g[n] = x
    <3>1. ASSUME NEW x \in FileNamesOf(dk, s) PROVE \E n \in I : g[n] = x
      <4>1. PICK d \in D : \E n \in InodesIn(dk, d) : x = NameOf(dk, d, n)
        BY <3>1 DEF FileNamesOf, D
      <4>2. PICK n \in InodesIn(dk, d) : x = NameOf(dk, d, n)
        BY <4>1
      <4> QED  BY <1>4, <4>2
    <3> QED  BY <3>1
  <2>3. ASSUME NEW m \in I, NEW n \in I, g[m] = g[n] PROVE m = n
    <3>1. NameOf(dk, Home(m), m) = NameOf(dk, Home(n), n)
      BY <2>3
    <3>2. dk[Home(m)].dir_name = dk[Home(n)].dir_name /\ dk[m].file_name = dk[n].file_name
      BY <3>1 DEF NameOf
    <3>3. Home(m) = Home(n)
      BY <1>3, <3>2 DEF NamesOnce, D
    <3> QED  BY <1>3, <3>2, <3>3 DEF NamesOnce, D
  <2>4. g = [n \in I |-> g[n]]
    OBVIOUS
  <2> HIDE DEF g
  <2> QED  BY <2>1, <2>2, <2>3, <2>4 DEF Bijection, Injection, Surjection, IsInjective
<1> HIDE DEF f, g
<1>6. ExistsBijection(D, DirNamesOf(dk, s)) /\ ExistsBijection(I, FileNamesOf(dk, s))
  BY <1>2, <1>5 DEF ExistsBijection
<1> QED  BY <1>1, <1>6, FS_Bijection DEF D, I

-----------------------------------------------------------------------------
(* The files after a call that makes or removes a directory or a file.     *)
KeepsBlocks(dk, em, n) == em[n] = dk[n] /\ \A b \in FileBlocks(dk, n) : em[b] = dk[b]
SameNameAndBytes(dk, em, d, n) ==
    NameOf(em, d, n) = NameOf(dk, d, n) /\ ContentIn(em, n) = ContentIn(dk, n)

LEMMA KeptContents ==
    ASSUME NEW dk, NEW s, Typed(dk, s), Shape(dk, s), HeldOnce(dk, s), NEW em, NEW s2, Typed(em, s2),
           NEW d \in Listed(dk, s), NEW n \in InodesIn(dk, d), em[d].dir_name = dk[d].dir_name,
           KeepsBlocks(dk, em, n)
    PROVE  SameNameAndBytes(dk, em, d, n)
<1>1. n \in InodesUnder(dk, s)
  BY DEF InodesUnder
<1>2. ContentIn(em, n) = ContentIn(dk, n)
  BY <1>1, SameContent DEF KeepsBlocks
<1>3. NameOf(em, d, n) = NameOf(dk, d, n)
  BY DEF NameOf, KeepsBlocks
<1> QED  BY <1>2, <1>3 DEF SameNameAndBytes

(* Where the blocks of the files are not. *)
LEMMA FileBlocksAway ==
    ASSUME NEW dk, NEW s, NEW used, Typed(dk, s), Tree(dk, s, used), NEW n \in InodesUnder(dk, s)
    PROVE  \A b \in FileBlocks(dk, n) \cup {n} :
              b \in used /\ b \notin {0, 1} /\ b \in BlockIds /\ b \notin Listed(dk, s) /\ b \in OwnedUnder(dk, s)
<1>1. Shape(dk, s) /\ HeldOnce(dk, s) /\ OwnedUnder(dk, s) \subseteq used \ {1, 2}
  BY DEF Tree
<1>2. /\ FileBlocks(dk, n) \cap Listed(dk, s) = {} /\ FileBlocks(dk, n) \subseteq OwnedUnder(dk, s)
      /\ FileBlocks(dk, n) \subseteq BlockIds \ {0}
  BY <1>1, FileBlocksApart
<1>3. n \in OwnedUnder(dk, s) /\ n \in Refs \ {0} /\ n \notin Listed(dk, s)
  BY <1>1, ShapeRefs, PartsApart DEF OwnedUnder
<1>4. ASSUME NEW b \in FileBlocks(dk, n) \cup {n}
      PROVE  b \in used /\ b \notin {0, 1} /\ b \in BlockIds /\ b \notin Listed(dk, s) /\ b \in OwnedUnder(dk, s)
  BY <1>1, <1>2, <1>3, NoRef
<1> QED  BY <1>4

LEMMA MkdirFiles ==
    ASSUME NEW dk, NEW s, NEW used, Typed(dk, s), Tree(dk, s, used), NamesOnce(dk, s),
           NEW em, NEW s2, Typed(em, s2), NEW new, new \notin used,
           NEW name, name \notin DirNamesOf(dk, s),
           MkdirWrites(dk, s, used, em, s2, new, name), MkdirDone(dk, s, used, em, s2, new)
    PROVE  /\ NamesOnce(em, s2) /\ DirNamesOf(em, s2) = DirNamesOf(dk, s) \cup {name}
           /\ FilesOf(em, s2) = FilesOf(dk, s)
           /\ \A d \in Listed(dk, s) : \A n \in InodesIn(dk, d) : NameOf(em, d, n) = NameOf(dk, d, n)
<1>1. /\ Shape(dk, s) /\ HeldOnce(dk, s) /\ LinksAreIds(dk) /\ s \in BlockIds
      /\ Listed(em, s2) = Listed(dk, s) \cup {new} /\ InodesIn(em, new) = {}
      /\ \A d \in Listed(dk, s) : em[d].dir_name = dk[d].dir_name /\ InodesIn(em, d) = InodesIn(dk, d)
      /\ em[new].dir_name = name
      /\ Listed(dk, s) \subseteq used
  BY Nexts DEF Tree, MkdirDone, MkdirWrites, DirBlock, OwnedUnder
<1>2. ASSUME NEW n \in InodesUnder(dk, s) PROVE KeepsBlocks(dk, em, n)
  <2>1. ASSUME NEW b \in FileBlocks(dk, n) \cup {n} PROVE em[b] = dk[b]
    <3>1. b \in BlockIds \ {0, 1, new} /\ b \notin Listed(dk, s)
      BY <2>1, FileBlocksAway
    <3>2. em[b] = IF s # 0 /\ b = LastOf(dk, s) THEN [dk[b] EXCEPT !.next_dir = new] ELSE dk[b]
      BY <3>1 DEF MkdirWrites
    <3>3. s # 0 => LastOf(dk, s) \in Listed(dk, s)
      <4>1. ASSUME s # 0 PROVE LastOf(dk, s) \in Listed(dk, s)
        <5>1. s \in Ids /\ OneWay(dk, s)
          BY <1>1, <4>1, ListsEnd DEF Ids
        <5> QED  BY <1>1, <5>1, ListEnds
      <4> QED  BY <4>1
    <3> QED  BY <3>1, <3>2, <3>3
  <2> QED  BY <2>1 DEF KeepsBlocks
<1>3. ASSUME NEW d \in Listed(dk, s), NEW n \in InodesIn(dk, d)
      PROVE  SameNameAndBytes(dk, em, d, n) /\ em[n] = dk[n]
  <2>1. n \in InodesUnder(dk, s)
    BY <1>3 DEF InodesUnder
  <2>2. KeepsBlocks(dk, em, n)
    BY <1>2, <2>1
  <2>3. em[d].dir_name = dk[d].dir_name
    BY <1>1
  <2> QED  BY <1>1, <2>2, <2>3, KeptContents DEF KeepsBlocks
<1>4. \A d \in Listed(dk, s) : em[d].dir_name # name /\ d # new
  BY <1>1 DEF DirNamesOf
<1>5. NamesOnce(em, s2)
  <2>1. ASSUME NEW d \in Listed(em, s2), NEW e \in Listed(em, s2), em[d].dir_name = em[e].dir_name
        PROVE  d = e
    BY <1>1, <1>4, <2>1 DEF NamesOnce
  <2>2. ASSUME NEW d \in Listed(em, s2), NEW m \in InodesIn(em, d), NEW n \in InodesIn(em, d),
               em[m].file_name = em[n].file_name
        PROVE  m = n
    <3>1. d \in Listed(dk, s) /\ m \in InodesIn(dk, d) /\ n \in InodesIn(dk, d)
      BY <1>1, <2>2
    <3>2. em[m] = dk[m] /\ em[n] = dk[n]
      BY <1>3, <3>1
    <3> QED  BY <2>2, <3>1, <3>2 DEF NamesOnce
  <2> QED  BY <2>1, <2>2 DEF NamesOnce
<1>6. DirNamesOf(em, s2) = DirNamesOf(dk, s) \cup {name}
  <2>1. ASSUME NEW x PROVE x \in DirNamesOf(em, s2) <=> x \in DirNamesOf(dk, s) \cup {name}
    BY <1>1 DEF DirNamesOf
  <2> QED  BY <2>1
<1>7. ASSUME NEW x, NEW c PROVE FileAt(em, s2, x, c) <=> FileAt(dk, s, x, c)
  BY <1>1, <1>3 DEF FileAt, SameNameAndBytes
<1>8. FilesOf(em, s2) = FilesOf(dk, s)
  BY <1>5, <1>7, SameFiles
<1> QED  BY <1>3, <1>5, <1>6, <1>8 DEF SameNameAndBytes

LEMMA RmdirFiles ==
    ASSUME NEW dk, NEW s, NEW used, Typed(dk, s), Tree(dk, s, used), NamesOnce(dk, s),
           NEW em, Typed(em, s), NEW d \in Listed(dk, s), InodesIn(dk, d) = {},
           NEW before \in Listed(dk, s), RmdirWrites(dk, used, em, d, before), RmdirDone(dk, s, used, em, d)
    PROVE  /\ NamesOnce(em, s) /\ DirNamesOf(em, s) = DirNamesOf(dk, s) \ {dk[d].dir_name}
           /\ FilesOf(em, s) = FilesOf(dk, s)
           /\ \A e \in Listed(dk, s) : \A n \in InodesIn(dk, e) : NameOf(em, e, n) = NameOf(dk, e, n)
<1>1. /\ Shape(dk, s) /\ HeldOnce(dk, s)
      /\ Listed(em, s) = Listed(dk, s) \ {d}
      /\ \A e \in Listed(dk, s) \ {d} : InodesIn(em, e) = InodesIn(dk, e)
      /\ Listed(dk, s) \subseteq Refs \ {0} /\ \A e \in Listed(dk, s) : dk[e] \in DirRefs
  BY ShapeRefs DEF Tree, RmdirDone
<1>2. ASSUME NEW e \in Listed(dk, s) \ {d} PROVE em[e].dir_name = dk[e].dir_name
  <2>1. e \in BlockIds \ {0, 1, d}
    BY <1>1, <1>2, NoRef DEF Refs
  <2>2. CASE e = before
    <3>1. em[e] = [dk[e] EXCEPT !.next_dir = dk[d].next_dir]
      BY <2>2 DEF RmdirWrites
    <3>2. dk[e] \in DirRefs
      BY <1>1
    <3> QED  BY <3>1, <3>2 DEF DirRefs
  <2>3. CASE e # before
    BY <2>1, <2>3 DEF RmdirWrites
  <2> QED  BY <2>2, <2>3
<1>3. ASSUME NEW n \in InodesUnder(dk, s) PROVE KeepsBlocks(dk, em, n)
  <2>1. ASSUME NEW b \in FileBlocks(dk, n) \cup {n} PROVE em[b] = dk[b]
    <3>1. b \in BlockIds \ {0, 1, d, before}
      BY <2>1, FileBlocksAway
    <3> QED  BY <3>1 DEF RmdirWrites
  <2> QED  BY <2>1 DEF KeepsBlocks
<1>4. ASSUME NEW e \in Listed(dk, s), NEW n \in InodesIn(dk, e)
      PROVE  SameNameAndBytes(dk, em, e, n) /\ em[n] = dk[n] /\ e # d
  <2>1. n \in InodesUnder(dk, s) /\ e # d
    BY <1>4 DEF InodesUnder
  <2>2. KeepsBlocks(dk, em, n)
    BY <1>3, <2>1
  <2>3. em[e].dir_name = dk[e].dir_name
    BY <1>2, <2>1
  <2> QED  BY <1>1, <2>1, <2>2, <2>3, KeptContents DEF KeepsBlocks
<1>5. NamesOnce(em, s)
  <2>1. ASSUME NEW c \in Listed(em, s), NEW e \in Listed(em, s), em[c].dir_name = em[e].dir_name
        PROVE  c = e
    BY <1>1, <1>2, <2>1 DEF NamesOnce
  <2>2. ASSUME NEW e \in Listed(em, s), NEW m \in InodesIn(em, e), NEW n \in InodesIn(em, e),
               em[m].file_name = em[n].file_name
        PROVE  m = n
    <3>1. e \in Listed(dk, s) /\ m \in InodesIn(dk, e) /\ n \in InodesIn(dk, e)
      BY <1>1, <2>2
    <3>2. em[m] = dk[m] /\ em[n] = dk[n]
      BY <1>4, <3>1
    <3> QED  BY <2>2, <3>1, <3>2 DEF NamesOnce
  <2> QED  BY <2>1, <2>2 DEF NamesOnce
<1>6. DirNamesOf(em, s) = DirNamesOf(dk, s) \ {dk[d].dir_name}
  <2>1. ASSUME NEW x PROVE x \in DirNamesOf(em, s) <=> x \in DirNamesOf(dk, s) \ {dk[d].dir_name}
    <3>1. x \in DirNamesOf(em, s) <=> \E e \in Listed(dk, s) \ {d} : x = dk[e].dir_name
      BY <1>1, <1>2 DEF DirNamesOf
    <3> QED  BY <3>1 DEF DirNamesOf, NamesOnce
  <2> QED  BY <2>1
<1>7. ASSUME NEW x, NEW c PROVE FileAt(em, s, x, c) <=> FileAt(dk, s, x, c)
  BY <1>1, <1>4 DEF FileAt, SameNameAndBytes
<1>8. FilesOf(em, s) = FilesOf(dk, s)
  BY <1>5, <1>7, SameFiles
<1> QED  BY <1>4, <1>5, <1>6, <1>8 DEF SameNameAndBytes

-----------------------------------------------------------------------------
EmptyFile == [p \in {} |-> 0]

LEMMA OpenFiles ==
    ASSUME NEW dk, NEW s, NEW used, Typed(dk, s), Tree(dk, s, used), NamesOnce(dk, s),
           NEW em, Typed(em, s), NEW d \in Listed(dk, s), NEW new, new \notin used, NEW slot \in InodeSlots,
           NEW name, \A n \in InodesIn(dk, d) : dk[n].file_name # name,
           OpenWrites(dk, used, em, d, slot, new, name), OpenDone(dk, s, used, em, d, new)
    PROVE  /\ NamesOnce(em, s) /\ DirNamesOf(em, s) = DirNamesOf(dk, s)
           /\ FilesOf(em, s) = WithFile(FilesOf(dk, s), <<dk[d].dir_name, name>>, EmptyFile)
           /\ <<dk[d].dir_name, name>> \notin DOMAIN FilesOf(dk, s)
           /\ NameOf(em, d, new) = <<dk[d].dir_name, name>>
           /\ \A e \in Listed(dk, s) : \A n \in InodesIn(dk, e) : NameOf(em, e, n) = NameOf(dk, e, n)
<1> DEFINE k == <<dk[d].dir_name, name>>
<1>1. /\ Shape(dk, s) /\ HeldOnce(dk, s)
      /\ Listed(em, s) = Listed(dk, s) /\ InodesIn(em, d) = InodesIn(dk, d) \cup {new}
      /\ \A e \in Listed(dk, s) \ {d} : em[e] = dk[e] /\ InodesIn(em, e) = InodesIn(dk, e)
      /\ em[d].dir_name = dk[d].dir_name
      /\ em[new] = Inode(name)
      /\ OwnedUnder(dk, s) \subseteq used
  BY DEF Tree, OpenDone, OpenWrites
<1>2. ASSUME NEW n \in InodesUnder(dk, s) PROVE KeepsBlocks(dk, em, n) /\ n # new
  <2>1. ASSUME NEW b \in FileBlocks(dk, n) \cup {n} PROVE em[b] = dk[b] /\ b # new
    <3>1. b \in BlockIds \ {0, 1, d, new}
      BY <2>1, FileBlocksAway
    <3> QED  BY <3>1 DEF OpenWrites
  <2> QED  BY <2>1 DEF KeepsBlocks
<1>3. \A e \in Listed(dk, s) : em[e].dir_name = dk[e].dir_name
  BY <1>1
<1>4. ASSUME NEW e \in Listed(dk, s), NEW n \in InodesIn(dk, e)
      PROVE  SameNameAndBytes(dk, em, e, n) /\ em[n] = dk[n] /\ n # new
  <2>1. n \in InodesUnder(dk, s)
    BY <1>4 DEF InodesUnder
  <2>2. KeepsBlocks(dk, em, n) /\ n # new
    BY <1>2, <2>1
  <2>3. em[e].dir_name = dk[e].dir_name
    BY <1>3
  <2> QED  BY <1>1, <2>2, <2>3, KeptContents DEF KeepsBlocks
<1>5. em[new].file_name = name /\ em[new].size = 0
  BY <1>1 DEF Inode
<1>6. NamesOnce(em, s)
  <2>1. ASSUME NEW c \in Listed(em, s), NEW e \in Listed(em, s), em[c].dir_name = em[e].dir_name
        PROVE  c = e
    BY <1>1, <1>3, <2>1 DEF NamesOnce
  <2>2. ASSUME NEW e \in Listed(em, s), NEW m \in InodesIn(em, e), NEW n \in InodesIn(em, e),
               em[m].file_name = em[n].file_name
        PROVE  m = n
    <3>1. e \in Listed(dk, s)
      BY <1>1
    <3>2. CASE m \in InodesIn(dk, e) /\ n \in InodesIn(dk, e)
      <4>1. em[m] = dk[m] /\ em[n] = dk[n]
        BY <1>4, <3>1, <3>2
      <4> QED  BY <2>2, <3>1, <3>2, <4>1 DEF NamesOnce
    <3>3. CASE ~(m \in InodesIn(dk, e) /\ n \in InodesIn(dk, e))
      <4>1. e = d /\ (m = new \/ n = new) /\ m \in InodesIn(dk, d) \cup {new} /\ n \in InodesIn(dk, d) \cup {new}
        BY <1>1, <2>2, <3>1, <3>3
      <4>2. \A i \in InodesIn(dk, d) : em[i].file_name # name
        BY <1>4
      <4> QED  BY <1>5, <2>2, <4>1, <4>2
    <3> QED  BY <3>2, <3>3
  <2> QED  BY <2>1, <2>2 DEF NamesOnce
<1>7. DirNamesOf(em, s) = DirNamesOf(dk, s)
  <2>1. ASSUME NEW x PROVE x \in DirNamesOf(em, s) <=> x \in DirNamesOf(dk, s)
    BY <1>1, <1>3 DEF DirNamesOf
  <2> QED  BY <2>1
<1>8. NameOf(em, d, new) = k
  BY <1>1, <1>5 DEF NameOf
<1>9. \A e \in Listed(dk, s) : \A n \in InodesIn(dk, e) : NameOf(dk, e, n) # k
  <2>1. ASSUME NEW e \in Listed(dk, s), NEW n \in InodesIn(dk, e), NameOf(dk, e, n) = k PROVE FALSE
    <3>1. dk[e].dir_name = dk[d].dir_name /\ dk[n].file_name = name
      BY <2>1 DEF NameOf
    <3>2. e = d
      BY <3>1 DEF NamesOnce
    <3> QED  BY <2>1, <3>1, <3>2
  <2> QED  BY <2>1
<1>10. ContentIn(em, new) = EmptyFile
  <2>1. ContentIn(em, new) = [p \in 0 .. em[new].size - 1 |-> ByteIn(em, new, p)]
    BY <1>5, ContentIs
  <2>2. 0 .. em[new].size - 1 = {}
    BY <1>5
  <2> QED  BY <2>1, <2>2 DEF EmptyFile
<1> HIDE DEF k
<1>11. ASSUME NEW x, NEW c
       PROVE  FileAt(em, s, x, c) <=> (x # k /\ FileAt(dk, s, x, c)) \/ (x = k /\ c = EmptyFile)
  <2>1. ASSUME FileAt(em, s, x, c) PROVE (x # k /\ FileAt(dk, s, x, c)) \/ (x = k /\ c = EmptyFile)
    <3>1. PICK e \in Listed(dk, s) : \E n \in InodesIn(em, e) : x = NameOf(em, e, n) /\ c = ContentIn(em, n)
      BY <1>1, <2>1 DEF FileAt
    <3>2. PICK n \in InodesIn(em, e) : x = NameOf(em, e, n) /\ c = ContentIn(em, n)
      BY <3>1
    <3>3. CASE n \in InodesIn(dk, e)
      <4>1. x = NameOf(dk, e, n) /\ c = ContentIn(dk, n)
        BY <1>4, <3>2, <3>3 DEF SameNameAndBytes
      <4> QED  BY <1>9, <3>3, <4>1 DEF FileAt
    <3>4. CASE n \notin InodesIn(dk, e)
      <4>1. e = d /\ n = new
        BY <1>1, <3>2, <3>4
      <4> QED  BY <1>8, <1>10, <3>2, <4>1
    <3> QED  BY <3>3, <3>4
  <2>2. ASSUME x # k, FileAt(dk, s, x, c) PROVE FileAt(em, s, x, c)
    <3>1. PICK e \in Listed(dk, s) : \E n \in InodesIn(dk, e) : x = NameOf(dk, e, n) /\ c = ContentIn(dk, n)
      BY <2>2 DEF FileAt
    <3>2. PICK n \in InodesIn(dk, e) : x = NameOf(dk, e, n) /\ c = ContentIn(dk, n)
      BY <3>1
    <3>3. x = NameOf(em, e, n) /\ c = ContentIn(em, n) /\ n \in InodesIn(em, e)
      BY <1>1, <1>4, <3>2 DEF SameNameAndBytes
    <3> QED  BY <1>1, <3>3 DEF FileAt
  <2>3. ASSUME x = k, c = EmptyFile PROVE FileAt(em, s, x, c)
    BY <1>1, <1>8, <1>10, <2>3 DEF FileAt
  <2> QED  BY <2>1, <2>2, <2>3
<1>12. FilesOf(em, s) = WithFile(FilesOf(dk, s), k, EmptyFile)
  <2>1. SetsFile(dk, s, em, s, k, EmptyFile)
    BY <1>11 DEF SetsFile
  <2> QED  BY <1>6, <2>1, OneFileSet
<1>13. k \notin DOMAIN FilesOf(dk, s)
  <2>1. DOMAIN FilesOf(dk, s) = FileNamesOf(dk, s) /\ \A x : x \in FileNamesOf(dk, s) <=> \E c : FileAt(dk, s, x, c)
    BY FilesAre
  <2>2. \A c : ~FileAt(dk, s, k, c)
    BY <1>9 DEF FileAt
  <2> QED  BY <2>1, <2>2
<1>14. \A e \in Listed(dk, s) : \A n \in InodesIn(dk, e) : NameOf(em, e, n) = NameOf(dk, e, n)
  BY <1>4 DEF SameNameAndBytes
<1> QED  BY <1>6, <1>7, <1>8, <1>12, <1>13, <1>14 DEF k

LEMMA RemoveFiles ==
    ASSUME NEW dk, NEW s, NEW used, Typed(dk, s), Tree(dk, s, used), NamesOnce(dk, s),
           NEW em, Typed(em, s), NEW d \in Listed(dk, s), NEW n \in InodesIn(dk, d),
           RemoveWrites(dk, used, em, d, n), RemoveDone(dk, s, used, em, d, n)
    PROVE  /\ NamesOnce(em, s) /\ DirNamesOf(em, s) = DirNamesOf(dk, s)
           /\ FilesOf(em, s) = WithoutFile(FilesOf(dk, s), NameOf(dk, d, n))
           /\ \A e \in Listed(dk, s) : \A m \in InodesIn(dk, e) \ {n} : NameOf(em, e, m) = NameOf(dk, e, m)
<1> DEFINE k == NameOf(dk, d, n)
           freed == FramesIn(dk, n) \cup {n}
<1>1. /\ Shape(dk, s) /\ HeldOnce(dk, s)
      /\ Listed(em, s) = Listed(dk, s) /\ InodesIn(em, d) = InodesIn(dk, d) \ {n}
      /\ \A e \in Listed(dk, s) \ {d} : em[e] = dk[e] /\ InodesIn(em, e) = InodesIn(dk, e)
      /\ em[d].dir_name = dk[d].dir_name
  BY DEF Tree, RemoveDone
<1>2. n \in InodesUnder(dk, s)
  BY DEF InodesUnder
<1>3. ASSUME NEW m \in InodesUnder(dk, s) \ {n} PROVE KeepsBlocks(dk, em, m)
  <2>1. ASSUME NEW b \in FileBlocks(dk, m) \cup {m} PROVE em[b] = dk[b]
    <3>1. b \in BlockIds \ {0, 1, d}
      BY <2>1, FileBlocksAway
    <3>2. b \notin freed
      <4>1. /\ FileBlocks(dk, m) \cap FileBlocks(dk, n) = {}
            /\ FileBlocks(dk, m) \cap InodesUnder(dk, s) = {}
            /\ FileBlocks(dk, n) \cap InodesUnder(dk, s) = {}
        BY <1>1, <1>2, FileBlocksApart
      <4>2. FramesIn(dk, n) \subseteq FileBlocks(dk, n)
        BY DEF FileBlocks
      <4> QED  BY <1>2, <2>1, <4>1, <4>2
    <3>3. b \in BlockIds \ ({0, 1, d} \cup freed)
      BY <3>1, <3>2
    <3> QED  BY <3>3 DEF RemoveWrites
  <2> QED  BY <2>1 DEF KeepsBlocks
<1>4. \A e \in Listed(dk, s) : em[e].dir_name = dk[e].dir_name
  BY <1>1
<1>5. ASSUME NEW e \in Listed(dk, s), NEW m \in InodesIn(dk, e) \ {n}
      PROVE  SameNameAndBytes(dk, em, e, m) /\ em[m] = dk[m]
  <2>1. m \in InodesUnder(dk, s) \ {n}
    BY <1>5 DEF InodesUnder
  <2>2. KeepsBlocks(dk, em, m)
    BY <1>3, <2>1
  <2>3. em[e].dir_name = dk[e].dir_name
    BY <1>4
  <2> QED  BY <1>1, <2>2, <2>3, KeptContents DEF KeepsBlocks
<1>6. \A e \in Listed(dk, s) : InodesIn(em, e) = InodesIn(dk, e) \ {n}
  <2>1. ASSUME NEW e \in Listed(dk, s) \ {d} PROVE n \notin InodesIn(dk, e)
    <3>1. ASSUME n \in InodesIn(dk, e) PROVE FALSE
      <4>1. PICK i \in InodeSlots, j \in InodeSlots : n = dk[d].inodes[i] /\ n = dk[e].inodes[j] /\ n # 0
        BY <3>1 DEF InodesIn
      <4>2. Typed(dk, s) /\ dk[d].inodes[i] # 0 /\ dk[d].inodes[i] = dk[e].inodes[j] /\ e \in Listed(dk, s)
        BY <4>1
      <4>3. d = e
        BY <1>1, <4>2, InodeHeldOnce
      <4> QED  BY <4>3
    <3> QED  BY <3>1
  <2> QED  BY <1>1, <2>1
<1>7. NamesOnce(em, s)
  <2>1. ASSUME NEW c \in Listed(em, s), NEW e \in Listed(em, s), em[c].dir_name = em[e].dir_name
        PROVE  c = e
    BY <1>1, <1>4, <2>1 DEF NamesOnce
  <2>2. ASSUME NEW e \in Listed(em, s), NEW l \in InodesIn(em, e), NEW m \in InodesIn(em, e),
               em[l].file_name = em[m].file_name
        PROVE  l = m
    <3>1. e \in Listed(dk, s) /\ l \in InodesIn(dk, e) \ {n} /\ m \in InodesIn(dk, e) \ {n}
      BY <1>1, <1>6, <2>2
    <3>2. em[l] = dk[l] /\ em[m] = dk[m]
      BY <1>5, <3>1
    <3> QED  BY <2>2, <3>1, <3>2 DEF NamesOnce
  <2> QED  BY <2>1, <2>2 DEF NamesOnce
<1>8. DirNamesOf(em, s) = DirNamesOf(dk, s)
  <2>1. ASSUME NEW x PROVE x \in DirNamesOf(em, s) <=> x \in DirNamesOf(dk, s)
    BY <1>1, <1>4 DEF DirNamesOf
  <2> QED  BY <2>1
<1>9. \A e \in Listed(dk, s) : \A m \in InodesIn(dk, e) \ {n} : NameOf(dk, e, m) # k
  <2>1. ASSUME NEW e \in Listed(dk, s), NEW m \in InodesIn(dk, e) \ {n}, NameOf(dk, e, m) = k PROVE FALSE
    <3>1. dk[e].dir_name = dk[d].dir_name /\ dk[m].file_name = dk[n].file_name
      BY <2>1 DEF NameOf
    <3>2. e = d
      BY <3>1 DEF NamesOnce
    <3> QED  BY <2>1, <3>1, <3>2 DEF NamesOnce
  <2> QED  BY <2>1
<1> HIDE DEF k
<1>10. ASSUME NEW x, NEW c PROVE FileAt(em, s, x, c) <=> x # k /\ FileAt(dk, s, x, c)
  <2>1. ASSUME FileAt(em, s, x, c) PROVE x # k /\ FileAt(dk, s, x, c)
    <3>1. PICK e \in Listed(dk, s) : \E m \in InodesIn(dk, e) \ {n} : x = NameOf(em, e, m) /\ c = ContentIn(em, m)
      BY <1>1, <1>6, <2>1 DEF FileAt
    <3>2. PICK m \in InodesIn(dk, e) \ {n} : x = NameOf(em, e, m) /\ c = ContentIn(em, m)
      BY <3>1
    <3>3. x = NameOf(dk, e, m) /\ c = ContentIn(dk, m)
      BY <1>5, <3>2 DEF SameNameAndBytes
    <3> QED  BY <1>9, <3>2, <3>3 DEF FileAt
  <2>2. ASSUME x # k, FileAt(dk, s, x, c) PROVE FileAt(em, s, x, c)
    <3>1. PICK e \in Listed(dk, s) : \E m \in InodesIn(dk, e) : x = NameOf(dk, e, m) /\ c = ContentIn(dk, m)
      BY <2>2 DEF FileAt
    <3>2. PICK m \in InodesIn(dk, e) : x = NameOf(dk, e, m) /\ c = ContentIn(dk, m)
      BY <3>1
    <3>3. m # n
      <4>1. ASSUME m = n PROVE FALSE
        <5>1. PICK i \in InodeSlots, j \in InodeSlots : n = dk[d].inodes[i] /\ n = dk[e].inodes[j] /\ n # 0
          BY <3>2, <4>1 DEF InodesIn
        <5>2. Typed(dk, s) /\ dk[d].inodes[i] # 0 /\ dk[d].inodes[i] = dk[e].inodes[j]
          BY <5>1
        <5>3. d = e
          BY <1>1, <5>2, InodeHeldOnce
        <5> QED  BY <2>2, <3>2, <4>1, <5>3 DEF k
      <4> QED  BY <4>1
    <3>4. x = NameOf(em, e, m) /\ c = ContentIn(em, m)
      BY <1>5, <3>2, <3>3 DEF SameNameAndBytes
    <3>5. e \in Listed(em, s) /\ m \in InodesIn(em, e)
      BY <1>1, <1>6, <3>2, <3>3
    <3> QED  BY <3>4, <3>5 DEF FileAt
  <2> QED  BY <2>1, <2>2
<1>11. FilesOf(em, s) = WithoutFile(FilesOf(dk, s), k)
  BY <1>7, <1>10, OneFileDropped
<1> QED  BY <1>5, <1>7, <1>8, <1>11 DEF k, SameNameAndBytes

-----------------------------------------------------------------------------
(* The bytes of a file after a write. *)
LEMMA TargetIsBlock ==
    ASSUME NEW dk, NEW s, NEW used, Typed(dk, s), Tree(dk, s, used), NEW m \in InodesUnder(dk, s),
           NEW cur \in Nat, cur < BlockSize, NEW length \in Nat, NEW p \in Nat, p <= cur + length, p < dk[m].size
    PROVE  Target(dk, dk[m], cur, length, p) = BlockNo(dk, m, p \div BlockSize)
<1> DEFINE k == p \div BlockSize
           frames == Listing(dk, dk[m].first_frame)
           place == k \div FrameCount + 1
<1>1. Shape(dk, s) /\ HeldOnce(dk, s) /\ BlockSize \in Nat \ {0}
  BY SizesAssumption DEF Tree
<1>2. dk[m].size \in Nat /\ DOMAIN frames = 1 .. Len(frames) /\ FramesIn(dk, m) = {frames[j] : j \in 1 .. Len(frames)}
  BY <1>1, FileFrames
<1>3. k \in Nat /\ BlockSize * k < dk[m].size
  BY <1>2, BlockBefore
<1>4. /\ FirstPlace(cur) = 0 /\ k < Places(cur, length)
      /\ Places(cur, length) = ((cur + length) \div BlockSize) + 1
  BY PlaceIsLoaded
<1>5. Places(cur, length) \in Nat
  <2>1. cur + length \in Nat
    OBVIOUS
  <2>2. (cur + length) \div BlockSize \in Nat
    BY <1>1, <2>1, Division
  <2> QED  BY <1>4, <2>2
<1> HIDE DEF k
<1>6. Target(dk, dk[m], cur, length, p) = ContentBid(dk, dk[m], k)
  <2>1. Target(dk, dk[m], cur, length, p) =
           IF k >= Places(cur, length) THEN -1 ELSE ContentBid(dk, dk[m], FirstPlace(cur) + k)
    BY DEF Target, Bid, k
  <2>2. FirstPlace(cur) + k = k
    BY <1>3, <1>4
  <2> QED  BY <1>3, <1>4, <1>5, <2>1, <2>2
<1>7. place \in DOMAIN frames /\ dk[frames[place]].kind = "frame"
  <2>1. place \in 1 .. Len(frames)
    BY <1>1, <1>3, BlockOfFile
  <2>2. frames[place] \in FramesUnder(dk, s)
    BY <1>2, <2>1 DEF FramesUnder
  <2> QED  BY <1>1, <1>2, <2>1, <2>2, ShapeRefs
<1>8. ContentBid(dk, dk[m], k) = BlockNo(dk, m, k)
  BY <1>7 DEF ContentBid, BlockNo, FrameNo
<1> QED  BY <1>6, <1>8 DEF k

LEMMA BytesElsewhere ==
    ASSUME NEW dk, NEW s, NEW used, Typed(dk, s), Tree(dk, s, used), NEW m \in InodesUnder(dk, s),
           NEW cur \in Nat, NEW buf \in Seq(Bytes),
           NEW b \in BlockIds, \A f \in FramesIn(dk, m) : b \notin ContentsIn(dk, f)
    PROVE  WithBytes(dk, dk[m], cur, buf)[b] = dk[b]
<1>1. CASE WithBytes(dk, dk[m], cur, buf)[b] # dk[b]
  <2>1. PICK p \in cur .. cur + Len(buf) - 1 : Target(dk, dk[m], cur, Len(buf), p) = b
    BY <1>1, BytesKinds
  <2>2. Len(buf) \in Nat /\ p \in Nat
    BY <2>1
  <2>3. b # -1
    BY SizesAssumption DEF BlockIds
  <2>4. \E f \in FramesIn(dk, m) : b \in ContentsIn(dk, f)
    BY <2>1, <2>2, <2>3, TargetIsStored
  <2> QED  BY <2>4
<1> QED  BY <1>1

(* One block of the file. *)
WrittenHere(dk, m, cur, buf, b) ==
    {p \in cur .. cur + Len(buf) - 1 : Target(dk, dk[m], cur, Len(buf), p) = b}
WrittenAt(dk, m, cur, buf, b, o) == {p \in WrittenHere(dk, m, cur, buf, b) : p % BlockSize = o}
LastPlace(S) == CHOOSE p \in S : \A q \in S : q <= p

LEMMA BytesInBlock ==
    ASSUME NEW dk, NEW m, NEW cur, NEW buf, NEW b \in BlockIds, NEW o \in 0 .. BlockSize - 1
    PROVE  ByteOf(WithBytes(dk, dk[m], cur, buf)[b], o) =
              IF WrittenAt(dk, m, cur, buf, b, o) = {} THEN ByteOf(dk[b], o)
              ELSE buf[LastPlace(WrittenAt(dk, m, cur, buf, b, o)) - cur + 1]
<1> DEFINE here == WrittenHere(dk, m, cur, buf, b)
           at(x) == {p \in here : p % BlockSize = x}
           new == [x \in 0 .. BlockSize - 1 |->
                     IF at(x) = {} THEN ByteOf(dk[b], x)
                     ELSE buf[(CHOOSE p \in at(x) : \A q \in at(x) : q <= p) - cur + 1]]
<1>1. WithBytes(dk, dk[m], cur, buf)[b] = IF here = {} THEN dk[b] ELSE DataBlock(new)
  BY DEF WithBytes, WrittenHere
<1> HIDE DEF here
<1>2. CASE here = {}
  <2>1. at(o) = {}
    BY <1>2
  <2>2. WrittenAt(dk, m, cur, buf, b, o) = {}
    BY <1>2 DEF WrittenAt, here
  <2> QED  BY <1>1, <1>2, <2>2
<1>3. CASE here # {}
  <2>1. ByteOf(DataBlock(new), o) = new[o]
    BY DEF ByteOf, DataBlock
  <2>2. new[o] = IF at(o) = {} THEN ByteOf(dk[b], o)
                 ELSE buf[(CHOOSE p \in at(o) : \A q \in at(o) : q <= p) - cur + 1]
    OBVIOUS
  <2> HIDE DEF new, at
  <2>3. ByteOf(WithBytes(dk, dk[m], cur, buf)[b], o) = new[o]
    BY <1>1, <1>3, <2>1
  <2>4. at(o) = WrittenAt(dk, m, cur, buf, b, o)
    BY DEF at, here, WrittenAt
  <2> QED  BY <2>2, <2>3, <2>4 DEF LastPlace
<1> QED  BY <1>2, <1>3

LEMMA ByteWritten ==
    ASSUME NEW dk, NEW s, NEW used, Typed(dk, s), Tree(dk, s, used), NEW m \in InodesUnder(dk, s),
           NEW cur \in Nat, cur < BlockSize, NEW buf \in Seq(Bytes), cur + Len(buf) <= dk[m].size,
           NEW p \in Nat, p < dk[m].size
    PROVE  ByteOf(WithBytes(dk, dk[m], cur, buf)[BlockNo(dk, m, p \div BlockSize)], p % BlockSize) =
              IF p \in cur .. cur + Len(buf) - 1 THEN buf[p - cur + 1] ELSE ByteIn(dk, m, p)
<1> DEFINE k == p \div BlockSize
           o == p % BlockSize
           b == BlockNo(dk, m, k)
           W == cur .. cur + Len(buf) - 1
           at == WrittenAt(dk, m, cur, buf, b, o)
<1>1. /\ Shape(dk, s) /\ HeldOnce(dk, s) /\ BlockSize \in Nat \ {0} /\ Len(buf) \in Nat
  BY SizesAssumption DEF Tree
<1>2. dk[m].size \in Nat
  BY <1>1, FileFrames
<1>3. k \in Nat /\ BlockSize * k < dk[m].size
  BY <1>2, BlockBefore
<1>4. o \in 0 .. BlockSize - 1 /\ p = BlockSize * k + o
  BY <1>1, Division
<1>5. b \in BlockIds
  BY <1>1, <1>3, BlockOfFile, NoRef
<1>6. ASSUME NEW q \in W
      PROVE  /\ q \in Nat /\ q < dk[m].size
             /\ Target(dk, dk[m], cur, Len(buf), q) = BlockNo(dk, m, q \div BlockSize)
             /\ q \div BlockSize \in Nat /\ BlockSize * (q \div BlockSize) < dk[m].size
  <2>1. q \in Nat /\ q < dk[m].size /\ q <= cur + Len(buf)
    BY <1>1, <1>2
  <2>2. Target(dk, dk[m], cur, Len(buf), q) = BlockNo(dk, m, q \div BlockSize)
    BY <1>1, <2>1, TargetIsBlock
  <2> QED  BY <1>2, <2>1, <2>2, BlockBefore
<1>7. ASSUME NEW q \in at PROVE q = p /\ q \in W
  <2>1. q \in W /\ Target(dk, dk[m], cur, Len(buf), q) = b /\ q % BlockSize = o
    BY DEF WrittenAt, WrittenHere
  <2>2. q \in Nat /\ BlockNo(dk, m, q \div BlockSize) = b /\ q \div BlockSize \in Nat /\ BlockSize * (q \div BlockSize) < dk[m].size
    BY <1>6, <2>1
  <2> DEFINE l == q \div BlockSize
  <2>3. q = BlockSize * l + (q % BlockSize)
    BY <1>1, <2>2, Division
  <2>4. l = k
    <3> HIDE DEF k, l
    <3> QED  BY <1>1, <1>3, <2>2, BlockListedOnce DEF l
  <2> QED  BY <1>4, <2>1, <2>3, <2>4
<1>8. p \in W => p \in at
  <2>1. ASSUME p \in W PROVE Target(dk, dk[m], cur, Len(buf), p) = b
    BY <1>6, <2>1
  <2> QED  BY <2>1 DEF WrittenAt, WrittenHere
<1>9. ByteOf(WithBytes(dk, dk[m], cur, buf)[b], o) =
         IF at = {} THEN ByteOf(dk[b], o)
         ELSE buf[LastPlace(at) - cur + 1]
  <2> HIDE DEF b, o
  <2> QED  BY <1>4, <1>5, BytesInBlock
<1>10. ByteIn(dk, m, p) = ByteOf(dk[b], o)
  BY DEF ByteIn
<1> HIDE DEF at, W, b, o
<1>11. CASE p \in W
  <2>1. at = {p}
    BY <1>7, <1>8, <1>11
  <2>2. LastPlace(at) = p
    <3>1. \E q \in at : \A r \in at : r <= q
      BY <2>1
    <3>2. LastPlace(at) \in at
      BY <3>1 DEF LastPlace
    <3> QED  BY <2>1, <3>2
  <2>3. at # {}
    BY <2>1
  <2> HIDE DEF at
  <2> QED  BY <1>9, <1>11, <2>2, <2>3 DEF W, b, o
<1>12. CASE p \notin W
  <2>1. at = {}
    BY <1>7, <1>12
  <2> QED  BY <1>9, <1>10, <1>12, <2>1 DEF W, b, o
<1> QED  BY <1>11, <1>12

(* The whole file. *)
LEMMA BytesContent ==
    ASSUME NEW dk, NEW s, NEW used, Typed(dk, s), Tree(dk, s, used), NEW m \in InodesUnder(dk, s),
           NEW cur \in Nat, cur < BlockSize, NEW buf \in Seq(Bytes), cur + Len(buf) <= dk[m].size,
           NEW em, Typed(em, s), em = WithBytes(dk, dk[m], cur, buf)
    PROVE  /\ \A n \in InodesUnder(dk, s) \ {m} : KeepsBlocks(dk, em, n)
           /\ em[m] = dk[m] /\ dk[m].size \in Nat
           /\ \A p \in 0 .. dk[m].size - 1 :
                 ByteIn(em, m, p) = IF p \in cur .. cur + Len(buf) - 1 THEN buf[p - cur + 1] ELSE ByteIn(dk, m, p)
<1>1. /\ Shape(dk, s) /\ HeldOnce(dk, s) /\ dk[m].size \in Nat
      /\ LinksAreIds(dk) /\ LinksAreIds(em) /\ dk[m].first_frame \in BlockIds
      /\ FramesIn(dk, m) \subseteq FramesUnder(dk, s) /\ FramesUnder(dk, s) \subseteq BlockIds
  BY FileFrames, Nexts, ListedRefs, ShapeRefs, NoRef DEF Tree, Typed
<1>2. ASSUME NEW b \in BlockIds, \A f \in FramesIn(dk, m) : b \notin ContentsIn(dk, f) PROVE em[b] = dk[b]
  BY <1>2, BytesElsewhere
<1>3. ASSUME NEW n \in InodesUnder(dk, s) PROVE em[n] = dk[n]
  <2>1. n \in BlockIds /\ \A f \in FramesIn(dk, m) : n \notin ContentsIn(dk, f)
    BY <1>1, <1>3, PartsApart, ShapeRefs, NoRef
  <2> QED  BY <1>2, <2>1
<1>4. ASSUME NEW f \in FramesIn(dk, m) PROVE em[f] = dk[f]
  <2>1. f \in BlockIds /\ \A g \in FramesIn(dk, m) : f \notin ContentsIn(dk, g)
    BY <1>1, <1>4, PartsApart
  <2> QED  BY <1>2, <2>1
<1>5. ASSUME NEW n \in InodesUnder(dk, s) \ {m} PROVE KeepsBlocks(dk, em, n)
  <2>1. ASSUME NEW b \in FileBlocks(dk, n) PROVE em[b] = dk[b]
    <3>1. b \in BlockIds /\ b \notin FileBlocks(dk, m)
      BY <1>1, <1>5, <2>1, FileBlocksApart
    <3>2. \A f \in FramesIn(dk, m) : b \notin ContentsIn(dk, f)
      BY <3>1 DEF FileBlocks
    <3> QED  BY <1>2, <3>1, <3>2
  <2> QED  BY <1>3, <2>1 DEF KeepsBlocks
<1>6. Listing(em, dk[m].first_frame) = Listing(dk, dk[m].first_frame) /\ em[m] = dk[m]
  <2>1. \A f \in Listed(dk, dk[m].first_frame) : Next_of(em[f]) = Next_of(dk[f])
    BY <1>4 DEF FramesIn
  <2> QED  BY <1>1, <1>3, <2>1, SameListing
<1>7. ASSUME NEW p \in 0 .. dk[m].size - 1
      PROVE  ByteIn(em, m, p) = IF p \in cur .. cur + Len(buf) - 1 THEN buf[p - cur + 1] ELSE ByteIn(dk, m, p)
  <2> DEFINE k == p \div BlockSize
  <2>1. p \in Nat /\ p < dk[m].size
    BY <1>1
  <2>2. k \in Nat /\ BlockSize * k < dk[m].size
    BY <1>1, <2>1, BlockBefore
  <2>3. FrameNo(em, m, k) = FrameNo(dk, m, k)
    BY <1>6 DEF FrameNo
  <2>4. FrameNo(dk, m, k) \in FramesIn(dk, m)
    BY <1>1, <2>2, BlockOfFile
  <2>5. BlockNo(em, m, k) = BlockNo(dk, m, k)
    BY <1>4, <2>3, <2>4 DEF BlockNo
  <2>6. ByteIn(em, m, p) = ByteOf(em[BlockNo(dk, m, k)], p % BlockSize)
    BY <2>5 DEF ByteIn
  <2>7. ByteOf(em[BlockNo(dk, m, k)], p % BlockSize) =
           IF p \in cur .. cur + Len(buf) - 1 THEN buf[p - cur + 1] ELSE ByteIn(dk, m, p)
    BY <2>1, ByteWritten
  <2> QED  BY <2>6, <2>7
<1> QED  BY <1>1, <1>5, <1>6, <1>7

-----------------------------------------------------------------------------
LEMMA OneFileChanged ==
    ASSUME NEW dk, NEW s, Typed(dk, s), Shape(dk, s), HeldOnce(dk, s), NamesOnce(dk, s), NEW em,
           Listed(em, s) = Listed(dk, s), \A d \in Listed(dk, s) : em[d] = dk[d],
           NEW d0 \in Listed(dk, s), NEW m \in InodesIn(dk, d0),
           \A n \in InodesUnder(dk, s) \ {m} : em[n] = dk[n] /\ ContentIn(em, n) = ContentIn(dk, n),
           em[m].file_name = dk[m].file_name
    PROVE  /\ NamesOnce(em, s) /\ DirNamesOf(em, s) = DirNamesOf(dk, s)
           /\ NameOf(dk, d0, m) \in DOMAIN FilesOf(dk, s)
           /\ FilesOf(em, s) = WithFile(FilesOf(dk, s), NameOf(dk, d0, m), ContentIn(em, m))
           /\ \A d \in Listed(dk, s) : \A n \in InodesIn(dk, d) : NameOf(em, d, n) = NameOf(dk, d, n)
<1> DEFINE k == NameOf(dk, d0, m)
           v == ContentIn(em, m)
<1>1. \A d \in Listed(dk, s) : InodesIn(em, d) = InodesIn(dk, d) /\ em[d].dir_name = dk[d].dir_name
  BY DEF InodesIn
<1>2. ASSUME NEW d \in Listed(dk, s), NEW n \in InodesIn(dk, d)
      PROVE  em[n].file_name = dk[n].file_name /\ NameOf(em, d, n) = NameOf(dk, d, n)
             /\ (n # m => ContentIn(em, n) = ContentIn(dk, n))
  <2>1. n \in InodesUnder(dk, s)
    BY <1>2 DEF InodesUnder
  <2>2. n # m => em[n] = dk[n] /\ ContentIn(em, n) = ContentIn(dk, n)
    BY <2>1
  <2>3. em[n].file_name = dk[n].file_name
    BY <2>2
  <2> QED  BY <1>1, <2>2, <2>3 DEF NameOf
<1>3. NamesOnce(em, s)
  <2>1. ASSUME NEW c \in Listed(em, s), NEW e \in Listed(em, s), em[c].dir_name = em[e].dir_name
        PROVE  c = e
    BY <1>1, <2>1 DEF NamesOnce
  <2>2. ASSUME NEW e \in Listed(em, s), NEW l \in InodesIn(em, e), NEW n \in InodesIn(em, e),
               em[l].file_name = em[n].file_name
        PROVE  l = n
    <3>1. e \in Listed(dk, s) /\ l \in InodesIn(dk, e) /\ n \in InodesIn(dk, e)
      BY <1>1, <2>2
    <3>2. dk[l].file_name = dk[n].file_name
      BY <1>2, <2>2, <3>1
    <3> QED  BY <3>1, <3>2 DEF NamesOnce
  <2> QED  BY <2>1, <2>2 DEF NamesOnce
<1>4. DirNamesOf(em, s) = DirNamesOf(dk, s)
  <2>1. ASSUME NEW x PROVE x \in DirNamesOf(em, s) <=> x \in DirNamesOf(dk, s)
    BY <1>1 DEF DirNamesOf
  <2> QED  BY <2>1
<1>5. \A d \in Listed(dk, s) : \A n \in InodesIn(dk, d) : NameOf(dk, d, n) = k <=> n = m
  <2>1. ASSUME NEW d \in Listed(dk, s), NEW n \in InodesIn(dk, d), NameOf(dk, d, n) = k PROVE n = m
    <3>1. dk[d].dir_name = dk[d0].dir_name /\ dk[n].file_name = dk[m].file_name
      BY <2>1 DEF NameOf
    <3>2. d = d0
      BY <3>1 DEF NamesOnce
    <3> QED  BY <2>1, <3>1, <3>2 DEF NamesOnce
  <2>2. ASSUME NEW d \in Listed(dk, s), m \in InodesIn(dk, d) PROVE d = d0
    <3>1. PICK i \in InodeSlots, j \in InodeSlots : m = dk[d].inodes[i] /\ m = dk[d0].inodes[j] /\ m # 0
      BY <2>2 DEF InodesIn
    <3>2. Typed(dk, s) /\ dk[d].inodes[i] # 0 /\ dk[d].inodes[i] = dk[d0].inodes[j]
      BY <3>1
    <3> QED  BY <3>2, InodeHeldOnce
  <2> QED  BY <2>1, <2>2
<1> HIDE DEF k, v
<1>6. ASSUME NEW x, NEW c
      PROVE  FileAt(em, s, x, c) <=> (x # k /\ FileAt(dk, s, x, c)) \/ (x = k /\ c = v)
  <2>1. ASSUME FileAt(em, s, x, c) PROVE (x # k /\ FileAt(dk, s, x, c)) \/ (x = k /\ c = v)
    <3>1. PICK d \in Listed(dk, s) : \E n \in InodesIn(dk, d) : x = NameOf(em, d, n) /\ c = ContentIn(em, n)
      BY <1>1, <2>1 DEF FileAt
    <3>2. PICK n \in InodesIn(dk, d) : x = NameOf(em, d, n) /\ c = ContentIn(em, n)
      BY <3>1
    <3>3. x = NameOf(dk, d, n)
      BY <1>2, <3>2
    <3>4. CASE n = m
      BY <1>5, <3>2, <3>3, <3>4 DEF v
    <3>5. CASE n # m
      <4>1. c = ContentIn(dk, n) /\ x # k
        BY <1>2, <1>5, <3>2, <3>3, <3>5
      <4> QED  BY <3>3, <4>1 DEF FileAt
    <3> QED  BY <3>4, <3>5
  <2>2. ASSUME x # k, FileAt(dk, s, x, c) PROVE FileAt(em, s, x, c)
    <3>1. PICK d \in Listed(dk, s) : \E n \in InodesIn(dk, d) : x = NameOf(dk, d, n) /\ c = ContentIn(dk, n)
      BY <2>2 DEF FileAt
    <3>2. PICK n \in InodesIn(dk, d) : x = NameOf(dk, d, n) /\ c = ContentIn(dk, n)
      BY <3>1
    <3>3. n # m
      BY <1>5, <2>2, <3>2
    <3>4. x = NameOf(em, d, n) /\ c = ContentIn(em, n) /\ n \in InodesIn(em, d)
      BY <1>1, <1>2, <3>2, <3>3
    <3> QED  BY <3>4 DEF FileAt
  <2>3. ASSUME x = k, c = v PROVE FileAt(em, s, x, c)
    <3>1. x = NameOf(em, d0, m) /\ c = ContentIn(em, m) /\ m \in InodesIn(em, d0)
      BY <1>1, <1>2, <2>3 DEF k, v
    <3> QED  BY <3>1 DEF FileAt
  <2> QED  BY <2>1, <2>2, <2>3
<1>7. FilesOf(em, s) = WithFile(FilesOf(dk, s), k, v)
  <2>1. SetsFile(dk, s, em, s, k, v)
    BY <1>6 DEF SetsFile
  <2> QED  BY <1>3, <2>1, OneFileSet
<1>8. k \in DOMAIN FilesOf(dk, s)
  <2>1. FileAt(dk, s, k, ContentIn(dk, m))
    BY DEF FileAt, k
  <2> QED  BY <2>1, FilesAre
<1> QED  BY <1>2, <1>3, <1>4, <1>7, <1>8 DEF k, v

(* A byte of a file is a byte. *)
LEMMA ByteInTyped ==
    ASSUME NEW dk, NEW s, Typed(dk, s), Shape(dk, s), HeldOnce(dk, s), NEW m \in InodesUnder(dk, s),
           NEW p \in Nat, p < dk[m].size
    PROVE  ByteIn(dk, m, p) \in Bytes
<1> DEFINE k == p \div BlockSize
           b == BlockNo(dk, m, k)
           o == p % BlockSize
<1>1. dk[m].size \in Nat
  BY FileFrames
<1>2. k \in Nat /\ BlockSize * k < dk[m].size
  BY <1>1, BlockBefore
<1>3. b \in BlockIds
  BY <1>2, BlockOfFile, NoRef
<1>4. o \in 0 .. BlockSize - 1
  BY BytePlace
<1>5. dk[b] \in BlockRefs
  BY <1>3 DEF Typed
<1> HIDE DEF b, o, k
<1>6. ByteOf(dk[b], o) \in Bytes
  <2>1. PICK x : x = dk[b]
    OBVIOUS
  <2>2. CASE x.kind = "data"
    <3>1. x \in DataRefs
      BY <1>5, <2>1, <2>2, KindOf
    <3> QED  BY <1>4, <2>1, <2>2, <3>1 DEF DataRefs, ByteOf
  <2>3. CASE x.kind # "data"
    BY <2>1, <2>3, CallsAssumption DEF ByteOf
  <2> QED  BY <2>2, <2>3
<1> QED  BY <1>6 DEF ByteIn, b, o, k

(* A file that has grown keeps the bytes it had. *)
LEMMA GrownContent ==
    ASSUME NEW dk, NEW s, Typed(dk, s), Shape(dk, s), HeldOnce(dk, s), NEW m \in InodesUnder(dk, s),
           NEW em, NEW t \in Seq(Ids), LongerBy(dk, em, m, t),
           \A f \in FramesIn(dk, m) : em[f].content = dk[f].content,
           \A b \in OwnedUnder(dk, s) \ (FramesIn(dk, m) \cup {m}) : em[b] = dk[b]
    PROVE  /\ \A p \in Nat : p < dk[m].size => ByteIn(em, m, p) = ByteIn(dk, m, p)
           /\ \A n \in InodesUnder(dk, s) \ {m} : KeepsBlocks(dk, em, n)
<1> DEFINE frames == Listing(dk, dk[m].first_frame)
<1>1. ASSUME NEW p \in Nat, p < dk[m].size PROVE ByteIn(em, m, p) = ByteIn(dk, m, p)
  <2> DEFINE k == p \div BlockSize
             place == k \div FrameCount + 1
             b == BlockNo(dk, m, k)
  <2>1. dk[m].size \in Nat /\ frames \in Seq(Ids)
    BY FileFrames
  <2>2. k \in Nat /\ BlockSize * k < dk[m].size
    BY <1>1, <2>1, BlockBefore
  <2> HIDE DEF k, frames
  <2>3. place \in 1 .. Len(frames) /\ FrameNo(dk, m, k) \in FramesIn(dk, m)
        /\ b \in ContentsIn(dk, FrameNo(dk, m, k))
    BY <2>2, BlockOfFile DEF frames
  <2>4. (frames \o t)[place] = frames[place]
    <3>1. \A x, y \in Seq(Ids) : \A j \in 1 .. Len(x) : (x \o y)[j] = x[j]
      BY Concatenation
    <3> HIDE DEF place
    <3> QED  BY <2>1, <2>3, <3>1
  <2>5. FrameNo(em, m, k) = FrameNo(dk, m, k)
    BY <2>4 DEF FrameNo, LongerBy, frames
  <2>6. BlockNo(em, m, k) = b
    BY <2>3, <2>5 DEF BlockNo
  <2>7. FrameNo(dk, m, k) \in FramesUnder(dk, s)
    BY <2>3 DEF FramesUnder
  <2>8. b \in OwnedUnder(dk, s) \ (FramesIn(dk, m) \cup {m})
    <3>1. b \in OwnedUnder(dk, s)
      BY <2>3, <2>7 DEF OwnedUnder
    <3>2. b \notin InodesUnder(dk, s) \cup FramesUnder(dk, s)
      BY <2>3, <2>7, PartsApart
    <3>3. FramesIn(dk, m) \subseteq FramesUnder(dk, s)
      BY DEF FramesUnder
    <3> QED  BY <3>1, <3>2, <3>3
  <2>9. em[b] = dk[b]
    BY <2>8
  <2> QED  BY <2>6, <2>9 DEF ByteIn, k
<1>2. ASSUME NEW n \in InodesUnder(dk, s) \ {m} PROVE KeepsBlocks(dk, em, n)
  <2>1. FramesIn(dk, m) \subseteq FramesUnder(dk, s) /\ FramesIn(dk, m) \subseteq FileBlocks(dk, m)
    BY DEF FramesUnder, FileBlocks
  <2>2. /\ FileBlocks(dk, n) \cap FileBlocks(dk, m) = {} /\ FileBlocks(dk, n) \cap InodesUnder(dk, s) = {}
        /\ FileBlocks(dk, n) \subseteq OwnedUnder(dk, s)
    BY <1>2, FileBlocksApart
  <2>3. n \in OwnedUnder(dk, s) /\ n \notin FramesIn(dk, m)
    BY <1>2, <2>1, PartsApart DEF OwnedUnder
  <2>4. \A b \in FileBlocks(dk, n) \cup {n} : b \in OwnedUnder(dk, s) \ (FramesIn(dk, m) \cup {m})
    BY <1>2, <2>1, <2>2, <2>3
  <2> QED  BY <2>4 DEF KeepsBlocks
<1> QED  BY <1>1, <1>2

-----------------------------------------------------------------------------
(* What careful callers see: no two directories and no two files of one    *)
(* directory have the same name.                                           *)
FilesInv == CarefulInv /\ NamesOnce(disk, sb)
FdName(fd) == NameOf(disk, fdtable[fd].dir_bid, FdFile(fd))
FdSeen(fd) == [file |-> FdName(fd), cur |-> fdtable[fd].cur]

LEMMA Seen ==
    /\ DirNamesIn = DirNamesOf(disk, sb) /\ DirNamesIn' = DirNamesOf(disk', sb')
    /\ FilesIn = FilesOf(disk, sb) /\ FilesIn' = FilesOf(disk', sb')
    /\ OpenedIn = [fd \in Held |-> FdSeen(fd)] /\ OpenedIn' = [fd \in Held' |-> FdSeen(fd)']
<1>1. DirNamesIn = DirNamesOf(disk, sb) /\ DirNamesIn' = DirNamesOf(disk', sb')
  BY DEF DirNamesIn, DirNamesOf, Dirs
<1>2. FilesIn = FilesOf(disk, sb)
  BY DEF FilesIn, FilesOf, FileNamesIn, FileNamesOf, NameOf, ContentOf, ContentIn, DirOf, DirNamed,
         InodeOf, InodeNamed, Dirs, InodesOf, InodesIn
<1>3. FilesIn' = FilesOf(disk', sb')
  BY DEF FilesIn, FilesOf, FileNamesIn, FileNamesOf, NameOf, ContentOf, ContentIn, DirOf, DirNamed,
         InodeOf, InodeNamed, Dirs, InodesOf, InodesIn
<1>4. OpenedIn = [fd \in Held |-> FdSeen(fd)] /\ OpenedIn' = [fd \in Held' |-> FdSeen(fd)']
  BY DEF OpenedIn, FdSeen, FdName, NameOf, FdFile
<1> QED  BY <1>1, <1>2, <1>3, <1>4

LEMMA Found ==
    /\ \A name : DirOf(name) = DirNamed(disk, sb, name)
    /\ \A d, name : InodeOf(d, name) = InodeNamed(disk, d, name)
  BY DEF DirOf, DirNamed, InodeOf, InodeNamed, Dirs, InodesOf, InodesIn

(* The descriptors a caller sees, after a call. *)
LEMMA OpenedIs ==
    /\ DOMAIN OpenedIn = Held /\ DOMAIN OpenedIn' = Held'
    /\ \A fd \in Held : /\ OpenedIn[fd] = FdSeen(fd)
                        /\ OpenedIn[fd].file = FdName(fd) /\ OpenedIn[fd].cur = fdtable[fd].cur
  BY Seen DEF FdSeen

NameKept(fd) == FdName(fd)' = FdName(fd)
CursorKept(fd) == fdtable'[fd].cur = fdtable[fd].cur

LEMMA OpenedKept ==
    ASSUME Held' = Held, \A fd \in Held : NameKept(fd) /\ CursorKept(fd)
    PROVE  OpenedIn' = OpenedIn
<1>1. \A fd \in Held : FdSeen(fd)' = FdSeen(fd)
  BY DEF FdSeen, NameKept, CursorKept
<1> DEFINE G == [fd \in Held |-> FdSeen(fd)]
           H == [fd \in Held' |-> FdSeen(fd)']
<1>2. G = H
  BY <1>1
<1> QED  BY <1>2, Seen

LEMMA OpenedMoved ==
    ASSUME Held' = Held, \A a \in Held : NameKept(a), NEW fd \in Held, \A a \in Held \ {fd} : CursorKept(a),
           NEW e, fdtable'[fd].cur = e
    PROVE  OpenedIn' = [OpenedIn EXCEPT ![fd].cur = e]
<1>1. \A a \in Held \ {fd} : FdSeen(a)' = FdSeen(a)
  BY DEF FdSeen, NameKept, CursorKept
<1>2. FdSeen(fd)' = [FdSeen(fd) EXCEPT !.cur = e]
  BY DEF FdSeen, NameKept
<1> DEFINE G == [a \in Held |-> FdSeen(a)]
           H == [a \in Held' |-> FdSeen(a)']
<1>3. H = [G EXCEPT ![fd] = [FdSeen(fd) EXCEPT !.cur = e]]
  BY <1>1, <1>2
<1>4. G[fd] = FdSeen(fd)
  OBVIOUS
<1> HIDE DEF G, H
<1>5. H = [G EXCEPT ![fd].cur = e]
  BY <1>3, <1>4
<1> QED  BY <1>5, Seen DEF G, H

LEMMA OpenedClosed ==
    ASSUME NEW fd \in Held, Held' = Held \ {fd}, \A a \in Held \ {fd} : NameKept(a) /\ CursorKept(a)
    PROVE  OpenedIn' = Store_of_files!Drop(OpenedIn, fd)
<1>1. \A a \in Held \ {fd} : FdSeen(a)' = FdSeen(a)
  BY DEF FdSeen, NameKept, CursorKept
<1> DEFINE G == [a \in Held |-> FdSeen(a)]
           H == [a \in Held' |-> FdSeen(a)']
<1>2. H = [a \in Held \ {fd} |-> G[a]]
  BY <1>1
<1>3. DOMAIN G = Held
  OBVIOUS
<1> HIDE DEF G, H
<1>4. H = Store_of_files!Drop(G, fd)
  BY <1>2, <1>3 DEF Store_of_files!Drop, Store_of_files!Restrict
<1> QED  BY <1>4, Seen DEF G, H

LEMMA OpenedMore ==
    ASSUME NEW fd, fd \notin Held, Held' = Held \cup {fd},
           \A a \in Held : NameKept(a) /\ CursorKept(a), NEW x, FdName(fd)' = x, fdtable'[fd].cur = 0
    PROVE  OpenedIn' = Store_of_files!Update(OpenedIn, fd, [file |-> x, cur |-> 0])
<1>1. \A a \in Held : FdSeen(a)' = FdSeen(a)
  BY DEF FdSeen, NameKept, CursorKept
<1>2. FdSeen(fd)' = [file |-> x, cur |-> 0]
  BY DEF FdSeen
<1> DEFINE G == [a \in Held |-> FdSeen(a)]
           H == [a \in Held' |-> FdSeen(a)']
<1>3. H = [a \in Held \cup {fd} |-> IF a = fd THEN [file |-> x, cur |-> 0] ELSE G[a]]
  BY <1>1, <1>2
<1>4. DOMAIN G = Held
  OBVIOUS
<1> HIDE DEF G, H
<1>5. H = Store_of_files!Update(G, fd, [file |-> x, cur |-> 0])
  BY <1>3, <1>4 DEF Store_of_files!Update
<1> QED  BY <1>5, Seen DEF G, H

(* The calls that change neither the names nor the bytes. *)
LEMMA SameFilesSeen ==
    ASSUME NamesOnce(disk, sb), disk' = disk, sb' = sb
    PROVE  /\ DirNamesIn' = DirNamesIn /\ FilesIn' = FilesIn /\ NamesOnce(disk', sb')
  BY Seen

LEMMA SameCount == \A S : Store_of_files!Cardinality(S) = Cardinality(S)
  BY DEF Store_of_files!Cardinality, Cardinality

(* The file of a descriptor in use. *)
LEMMA HeldFile ==
    ASSUME FilesInv, NEW fd \in Held
    PROVE  /\ fd \in Fds /\ FdFile(fd) \in Inodes /\ fdtable[fd].dir_bid \in Dirs
           /\ FdFile(fd) \in InodesOf(fdtable[fd].dir_bid) /\ disk[FdFile(fd)] = fdtable[fd].inode
           /\ FdName(fd) \in DOMAIN FilesIn /\ FilesIn[FdName(fd)] = ContentIn(disk, FdFile(fd))
           /\ DOMAIN FilesIn[FdName(fd)] = 0 .. fdtable[fd].inode.size - 1
           /\ fdtable[fd].inode.size \in Nat /\ fdtable[fd].cur \in Nat
           /\ Store_of_files!Size(FilesIn[FdName(fd)]) = fdtable[fd].inode.size
<1> DEFINE d == fdtable[fd].dir_bid
           n == FdFile(fd)
           size == fdtable[fd].inode.size
<1>1. /\ TypeInv /\ Intact /\ Current(fd) /\ fd \in Fds /\ NamesOnce(disk, sb)
  BY DEF FilesInv, CarefulInv, IInv, Held
<1>2. /\ d \in Dirs /\ n \in InodesOf(d) /\ disk[n] = fdtable[fd].inode /\ n \in Inodes
      /\ size \in Nat /\ fdtable[fd].cur \in Nat
  BY <1>1, Numbers DEF Current, FdFile, Inodes
<1>3. d \in Listed(disk, sb) /\ n \in InodesIn(disk, d)
  BY <1>2 DEF Dirs, InodesOf, InodesIn
<1>4. FileAt(disk, sb, FdName(fd), ContentIn(disk, n))
  BY <1>3 DEF FileAt, FdName
<1>5. FdName(fd) \in DOMAIN FilesIn /\ FilesIn[FdName(fd)] = ContentIn(disk, n)
  BY <1>1, <1>4, Seen, FilesAre
<1>6. DOMAIN ContentIn(disk, n) = 0 .. size - 1
  <2>1. disk[n].size \in Nat /\ disk[n].size = size
    BY <1>2
  <2>2. ContentIn(disk, n) = [p \in 0 .. disk[n].size - 1 |-> ByteIn(disk, n, p)]
    BY <2>1, ContentIs
  <2> QED  BY <2>1, <2>2
<1> HIDE DEF size, n, d
<1>7. Cardinality(0 .. size - 1) = size
  <2>1. 0 \in Int /\ size - 1 \in Int
    BY <1>2
  <2>2. Cardinality(0 .. size - 1) = IF 0 > size - 1 THEN 0 ELSE (size - 1) - 0 + 1
    BY <2>1, FS_Interval
  <2> QED  BY <1>2, <2>2
<1>8. DOMAIN FilesIn[FdName(fd)] = 0 .. size - 1
  BY <1>5, <1>6
<1>9. Store_of_files!Size(FilesIn[FdName(fd)]) = size
  BY <1>7, <1>8, SameCount DEF Store_of_files!Size
<1> QED  BY <1>1, <1>2, <1>5, <1>8, <1>9 DEF size, n, d

-----------------------------------------------------------------------------
(* A descriptor keeps the name of its file. *)
LEMMA NameIsKept ==
    ASSUME FilesInv, NEW a \in Held, fdtable'[a].dir_bid = fdtable[a].dir_bid,
           FdFile(a)' = FdFile(a),
           \A d \in Listed(disk, sb) : FdFile(a) \in InodesIn(disk, d) =>
               NameOf(disk', d, FdFile(a)) = NameOf(disk, d, FdFile(a))
    PROVE  NameKept(a)
<1>a. PICK d : d = fdtable[a].dir_bid
  OBVIOUS
<1>b. PICK n : n = FdFile(a)
  OBVIOUS
<1>1. d \in Listed(disk, sb) /\ n \in InodesIn(disk, d)
  BY <1>a, <1>b, HeldFile DEF Dirs, InodesOf, InodesIn
<1>2. NameOf(disk', d, n) = NameOf(disk, d, n)
  BY <1>b, <1>1
<1>3. FdName(a) = NameOf(disk, d, n)
  BY <1>a, <1>b DEF FdName
<1>4. FdName(a)' = NameOf(disk', d, n)
  <2>1. fdtable'[a].dir_bid = d /\ FdFile(a)' = n
    BY <1>a, <1>b
  <2> QED  BY <2>1 DEF FdName, NameOf
<1> QED  BY <1>2, <1>3, <1>4 DEF NameKept

(* What a write leaves in the file. *)
WrittenBytes(fd, buf) ==
    \A p \in 0 .. WriteInode(fd, buf).size - 1 :
        IF p \in fdtable[fd].cur .. fdtable[fd].cur + Len(buf) - 1
        THEN ByteIn(disk', FdFile(fd), p) = buf[p - fdtable[fd].cur + 1]
        ELSE /\ ByteIn(disk', FdFile(fd), p) \in Bytes
             /\ p < fdtable[fd].inode.size => ByteIn(disk', FdFile(fd), p) = ByteIn(disk, FdFile(fd), p)

LEMMA WriteSeen ==
    ASSUME FilesInv, TypeInv', NEW fd \in Held, NEW buf \in Buffers, InFirstBlock(fd),
           EndOf(fd, Len(buf)) < SizeFor(fd, EndOf(fd, Len(buf))),
           Room(BlocksFor(NewFrames(fdtable[fd].inode, EndOf(fd, Len(buf))))),
           sfs_write(fd, buf)
    PROVE  /\ Written(fd, buf) /\ NamesOnce(disk', sb') /\ DirNamesIn' = DirNamesIn
           /\ FilesIn' = WithFile(FilesIn, FdName(fd), ContentIn(disk', FdFile(fd)))
           /\ \A a \in Held : NameKept(a)
           /\ disk'[FdFile(fd)] = WriteInode(fd, buf) /\ WriteInode(fd, buf).size \in Nat
           /\ WrittenBytes(fd, buf)
<1>a. PICK m : m = FdFile(fd)
  OBVIOUS
<1>b. PICK d0 : d0 = fdtable[fd].dir_bid
  OBVIOUS
<1> DEFINE old == fdtable[fd].inode
           cur == fdtable[fd].cur
           n == WriteNew(fd, buf)
           dk == WriteStorage(fd, buf)
           inode == WriteInode(fd, buf)
<1>0. TypeInv /\ Intact /\ fd \in Fds /\ Current(fd) /\ NamesOnce(disk, sb)
  BY DEF FilesInv, CarefulInv, IInv, Held
<1>1. /\ old \in InodeRefs /\ n \in Nat /\ FitsCursor(old, n) /\ cur \in Nat /\ buf \in Seq(Bytes)
      /\ WriteEnd(fd, buf) = cur + Len(buf) /\ cur < BlockSize
  BY <1>0, WriteIs DEF WriteEnd, InFirstBlock
<1>2. /\ m \in Inodes /\ disk[m] = old /\ d0 \in Dirs /\ m \in InodesOf(d0)
  BY <1>0, <1>a, <1>b, CurrentIs
<1>3. Written(fd, buf)
  <2>1. Written(fd, buf) \/ ~IsChain(fdtable[fd].inode.first_frame)
    BY <1>0, WriteIs
  <2>2. IsChain(fdtable[fd].inode.first_frame)
    BY <1>0, <1>a, CurrentIs
  <2> QED  BY <2>1, <2>2
<1>4. disk' = WithBytes(dk, inode, cur, buf) /\ sb' = sb
  BY <1>3 DEF Written
<1>5. dk = WriteDisk(disk[m], m, n, UsedBy(n)) /\ inode = GrownInode(disk[m], n)
  BY <1>a, <1>2 DEF WriteStorage, WriteInode
<1>6. BlocksFor(n) <= Cardinality(FreeBlocks)
  <2>1. BlocksFor(n) \in Nat /\ Cardinality(FreeBlocks) \in Nat
    BY <1>0, <1>1, PlacesOfBlocks, AllocatedBlocks
  <2>2. NewFrames(fdtable[fd].inode, EndOf(fd, Len(buf))) = n
    BY DEF EndOf, WriteEnd, WriteNew
  <2> HIDE DEF n
  <2> QED  BY <2>1, <2>2 DEF Room
<1>7. /\ WriteEnd(fd, buf) < inode.size /\ inode.file_name = old.file_name
  <2>1. EndOf(fd, Len(buf)) = WriteEnd(fd, buf)
    BY DEF EndOf, WriteEnd
  <2> QED  BY <1>0, <2>1, GrownSize
<1>9. \A a \in Held : fdtable'[a].dir_bid = fdtable[a].dir_bid /\ FdFile(a)' = FdFile(a)
  <2>1. /\ OnlyFd(fd) /\ fdtable'[fd].dir_bid = fdtable[fd].dir_bid
        /\ fdtable'[fd].inode_bid = fdtable[fd].inode_bid
    BY <1>0, <1>3, FdWritten
  <2> QED  BY <2>1 DEF OnlyFd, Held, FdFile
<1> HIDE DEF dk, n, old, cur, inode
<1>10. GrownTree(dk, m, n) /\ GrownFrom(dk, m)
  BY <1>0, <1>1, <1>2, <1>5, <1>6, FileGrows
<1>11. /\ Typed(dk, sb) /\ Tree(dk, sb, UsedBy(n)) /\ Shape(dk, sb) /\ HeldOnce(dk, sb)
       /\ Listed(dk, sb) = Listed(disk, sb) /\ InodesUnder(dk, sb) = InodesUnder(disk, sb)
       /\ \A d \in Listed(disk, sb) : dk[d] = disk[d]
       /\ dk[m] = inode
  BY <1>5, <1>10 DEF GrownTree, Tree
<1>12. /\ Dirs = Listed(disk, sb) /\ Inodes = InodesUnder(disk, sb)
       /\ \A d : InodesOf(d) = InodesIn(disk, d)
       /\ Typed(disk, sb) /\ Shape(disk, sb) /\ HeldOnce(disk, sb)
  BY <1>0, TreeBefore DEF Tree
<1>13. Typed(disk', sb)
  BY <1>4, TreeAfter
<1>14. m \in InodesUnder(dk, sb) /\ m \in InodesUnder(disk, sb) /\ d0 \in Listed(disk, sb) /\ m \in InodesIn(disk, d0)
  BY <1>2, <1>11, <1>12
<1>15. disk' = WithBytes(dk, dk[m], cur, buf)
  BY <1>4, <1>11
<1>16. inode.size \in Nat /\ cur + Len(buf) < inode.size
  BY <1>1, <1>7, <1>11, <1>14, FileFrames
<1>17. /\ Listed(disk', sb) = Listed(dk, sb)
       /\ \A b \in Listed(dk, sb) \cup InodesUnder(dk, sb) : disk'[b] = dk[b]
  BY <1>1, <1>11, <1>13, <1>14, <1>15, BytesTree
<1>18. /\ \A l \in InodesUnder(dk, sb) \ {m} : KeepsBlocks(dk, disk', l)
       /\ \A p \in 0 .. dk[m].size - 1 :
             ByteIn(disk', m, p) = IF p \in cur .. cur + Len(buf) - 1 THEN buf[p - cur + 1] ELSE ByteIn(dk, m, p)
  <2>1. cur + Len(buf) <= dk[m].size
    BY <1>1, <1>11, <1>16
  <2> QED  BY <1>1, <1>11, <1>13, <1>14, <1>15, <2>1, BytesContent
<1>19. /\ \A p \in Nat : p < disk[m].size => ByteIn(dk, m, p) = ByteIn(disk, m, p)
       /\ \A l \in InodesUnder(disk, sb) \ {m} : KeepsBlocks(disk, dk, l)
  <2>1. PICK t \in Seq(Ids) : LongerBy(disk, dk, m, t)
    BY <1>10 DEF GrownFrom
  <2> QED  BY <1>10, <1>12, <1>14, <2>1, GrownContent DEF GrownFrom
<1>20. ASSUME NEW l \in InodesUnder(disk, sb) \ {m}
       PROVE  disk'[l] = disk[l] /\ ContentIn(disk', l) = ContentIn(disk, l)
  <2>1. KeepsBlocks(disk, dk, l) /\ KeepsBlocks(dk, disk', l)
    BY <1>11, <1>18, <1>19
  <2>2. ContentIn(dk, l) = ContentIn(disk, l)
    BY <1>11, <1>12, <2>1, SameContent DEF KeepsBlocks
  <2>3. l \in InodesUnder(dk, sb)
    BY <1>11
  <2>4. ContentIn(disk', l) = ContentIn(dk, l)
    BY <1>11, <1>13, <2>1, <2>3, SameContent DEF KeepsBlocks
  <2> QED  BY <2>1, <2>2, <2>4 DEF KeepsBlocks
<1>21. disk'[m] = inode
  BY <1>11, <1>14, <1>17
<1>22. /\ NamesOnce(disk', sb) /\ DirNamesOf(disk', sb) = DirNamesOf(disk, sb)
       /\ FilesOf(disk', sb) = WithFile(FilesOf(disk, sb), NameOf(disk, d0, m), ContentIn(disk', m))
       /\ \A d \in Listed(disk, sb) : \A l \in InodesIn(disk, d) : NameOf(disk', d, l) = NameOf(disk, d, l)
  <2>1. Listed(disk', sb) = Listed(disk, sb) /\ \A d \in Listed(disk, sb) : disk'[d] = disk[d]
    BY <1>11, <1>17
  <2>2. disk'[m].file_name = disk[m].file_name
    BY <1>2, <1>7, <1>21
  <2> QED  BY <1>0, <1>12, <1>14, <1>20, <2>1, <2>2, OneFileChanged
<1>23. FdName(fd) = NameOf(disk, d0, m)
  BY <1>a, <1>b DEF FdName
<1>24. /\ NamesOnce(disk', sb') /\ DirNamesIn' = DirNamesIn
       /\ FilesIn' = WithFile(FilesIn, FdName(fd), ContentIn(disk', FdFile(fd)))
  BY <1>4, <1>a, <1>22, <1>23, Seen
<1>25. \A a \in Held : NameKept(a)
  BY <1>9, <1>22, NameIsKept
<1>26. WrittenBytes(fd, buf)
  <2>1. ASSUME NEW p \in 0 .. inode.size - 1
        PROVE  IF p \in cur .. cur + Len(buf) - 1 THEN ByteIn(disk', m, p) = buf[p - cur + 1]
               ELSE /\ ByteIn(disk', m, p) \in Bytes
                    /\ p < old.size => ByteIn(disk', m, p) = ByteIn(disk, m, p)
    <3>1. p \in Nat /\ p < dk[m].size /\ p \in 0 .. dk[m].size - 1
      BY <1>11, <1>16
    <3>2. ByteIn(disk', m, p) = IF p \in cur .. cur + Len(buf) - 1 THEN buf[p - cur + 1] ELSE ByteIn(dk, m, p)
      BY <1>18, <3>1
    <3>3. ByteIn(dk, m, p) \in Bytes
      BY <1>11, <1>14, <3>1, ByteInTyped
    <3>4. p < old.size => ByteIn(dk, m, p) = ByteIn(disk, m, p)
      BY <1>2, <1>19, <3>1
    <3> QED  BY <3>2, <3>3, <3>4
  <2> QED  BY <1>a, <2>1 DEF WrittenBytes, inode, cur, old
<1> QED  BY <1>3, <1>16, <1>21, <1>24, <1>25, <1>26, <1>a DEF inode

-----------------------------------------------------------------------------
LEMMA FileReplaced ==
    ASSUME NEW F, NEW k \in DOMAIN F, NEW v
    PROVE  /\ Store_of_files!Drop(WithFile(F, k, v), k) = Store_of_files!Drop(F, k)
           /\ DOMAIN WithFile(F, k, v) = DOMAIN F /\ WithFile(F, k, v)[k] = v
<1>1. DOMAIN WithFile(F, k, v) = DOMAIN F /\ \A z \in DOMAIN F : WithFile(F, k, v)[z] = IF z = k THEN v ELSE F[z]
  BY DEF WithFile
<1> DEFINE G == WithFile(F, k, v)
<1> HIDE DEF G
<1>2. [z \in DOMAIN F \ {k} |-> G[z]] = [z \in DOMAIN F \ {k} |-> F[z]]
  BY <1>1 DEF G
<1>3. Store_of_files!Drop(G, k) = Store_of_files!Drop(F, k)
  BY <1>1, <1>2 DEF Store_of_files!Drop, Store_of_files!Restrict, G
<1> QED  BY <1>1, <1>3 DEF G

LEMMA BytesCounted ==
    ASSUME NEW size \in Nat, NEW c, DOMAIN c = 0 .. size - 1
    PROVE  Store_of_files!Size(c) = size
<1>1. 0 \in Int /\ size - 1 \in Int
  OBVIOUS
<1>2. Cardinality(0 .. size - 1) = IF 0 > size - 1 THEN 0 ELSE (size - 1) - 0 + 1
  BY <1>1, FS_Interval
<1>3. Cardinality(0 .. size - 1) = size
  BY <1>2
<1> QED  BY <1>3, SameCount DEF Store_of_files!Size

LEMMA ByteAfterWrite ==
    ASSUME NEW fd, NEW buf, WrittenBytes(fd, buf), NEW m, FdFile(fd) = m,
           NEW p \in 0 .. WriteInode(fd, buf).size - 1, NEW cur, cur = fdtable[fd].cur
    PROVE  /\ p \in cur .. cur + Len(buf) - 1 => ByteIn(disk', m, p) = buf[p - cur + 1]
           /\ p \notin cur .. cur + Len(buf) - 1 => ByteIn(disk', m, p) \in Bytes
           /\ p \notin cur .. cur + Len(buf) - 1 /\ p < fdtable[fd].inode.size =>
                 ByteIn(disk', m, p) = ByteIn(disk, m, p)
  BY DEF WrittenBytes

LEMMA WriteMaps ==
    ASSUME FilesInv, FilesInv', NEW fd \in Held, NEW buf \in Buffers, InFirstBlock(fd),
           EndOf(fd, Len(buf)) < SizeFor(fd, EndOf(fd, Len(buf))),
           Room(BlocksFor(NewFrames(fdtable[fd].inode, EndOf(fd, Len(buf))))),
           sfs_write(fd, buf)
    PROVE  Store_of_files!Write(fd, buf)
<1>a. PICK m : m = FdFile(fd)
  OBVIOUS
<1> DEFINE k == FdName(fd)
           cur == fdtable[fd].cur
           size == fdtable[fd].inode.size
           to == cur + Len(buf)
           size2 == WriteInode(fd, buf).size
           c == FilesIn[k]
           c2 == FilesIn'[k]
<1>1. TypeInv /\ TypeInv' /\ ~broken' /\ fd \in Fds /\ Len(buf) \in Nat
  BY CallsAssumption DEF FilesInv, CarefulInv, IInv, Held
<1>2. /\ Written(fd, buf) /\ DirNamesIn' = DirNamesIn
      /\ FilesIn' = WithFile(FilesIn, k, ContentIn(disk', m))
      /\ \A a \in Held : NameKept(a)
      /\ disk'[m].size = size2 /\ size2 \in Nat
      /\ WrittenBytes(fd, buf)
  BY <1>1, <1>a, WriteSeen
<1>3. /\ OnlyFd(fd) /\ fdtable'[fd].cur = to /\ fdtable'[fd].valid = fdtable[fd].valid
  BY <1>1, <1>2, FdWritten DEF WriteEnd
<1>4. /\ k \in DOMAIN FilesIn /\ c = ContentIn(disk, m)
      /\ DOMAIN c = 0 .. size - 1 /\ size \in Nat /\ cur \in Nat /\ Store_of_files!Size(c) = size
      /\ disk[m].size = size
  BY <1>a, HeldFile
<1>5. /\ size2 = size + FrameSize * WriteNew(fd, buf) /\ to < size2
      /\ WriteNew(fd, buf) = NewFrames(fdtable[fd].inode, to)
  <2>1. EndOf(fd, Len(buf)) = to /\ WriteEnd(fd, buf) = to
    BY DEF EndOf, WriteEnd
  <2>2. size2 = size + FrameSize * WriteNew(fd, buf) /\ to < size2
    BY <1>1, <2>1, GrownSize
  <2> QED  BY <2>1, <2>2 DEF WriteNew
<1>6. result' = [op |-> "write", fd |-> fd, value |-> Len(buf)]
  BY <1>1 DEF sfs_write, Lose, Return
<1>7. Held' = Held
  BY <1>1, <1>3 DEF OnlyFd, Held
<1>8. OpenedIn' = [OpenedIn EXCEPT ![fd].cur = to]
  <2>1. \A a \in Held \ {fd} : CursorKept(a)
    BY <1>3 DEF OnlyFd, Held, CursorKept
  <2> HIDE DEF to
  <2> QED  BY <1>2, <1>3, <1>7, <2>1, OpenedMoved
<1>9. OpenedIn[fd].cur = cur /\ OpenedIn[fd].file = k
  BY OpenedIs
<1>10. c2 = ContentIn(disk', m) /\ DOMAIN FilesIn' = DOMAIN FilesIn
       /\ Store_of_files!Drop(FilesIn', k) = Store_of_files!Drop(FilesIn, k)
  BY <1>2, <1>4, FileReplaced
<1>11. /\ DOMAIN c2 = 0 .. size2 - 1 /\ \A p \in 0 .. size2 - 1 : c2[p] = ByteIn(disk', m, p)
  <2>1. ContentIn(disk', m) = [p \in 0 .. disk'[m].size - 1 |-> ByteIn(disk', m, p)]
    BY <1>2, ContentIs
  <2> QED  BY <1>2, <1>10, <2>1
<1>12. \A p \in 0 .. size - 1 : c[p] = ByteIn(disk, m, p)
  <2>1. ContentIn(disk, m) = [p \in 0 .. disk[m].size - 1 |-> ByteIn(disk, m, p)]
    BY <1>4, ContentIs
  <2> QED  BY <1>4, <2>1
<1>13. \A p \in 0 .. size2 - 1 :
          /\ p \in cur .. to - 1 => ByteIn(disk', m, p) = buf[p - cur + 1]
          /\ p \notin cur .. to - 1 => ByteIn(disk', m, p) \in Bytes
          /\ p \notin cur .. to - 1 /\ p < size => ByteIn(disk', m, p) = ByteIn(disk, m, p)
  <2>1. WrittenBytes(fd, buf) /\ FdFile(fd) = m
    BY <1>2, <1>a
  <2>2. ASSUME NEW p \in 0 .. size2 - 1
        PROVE  /\ p \in cur .. to - 1 => ByteIn(disk', m, p) = buf[p - cur + 1]
               /\ p \notin cur .. to - 1 => ByteIn(disk', m, p) \in Bytes
               /\ p \notin cur .. to - 1 /\ p < size => ByteIn(disk', m, p) = ByteIn(disk, m, p)
    <3>1. PICK x : x = fdtable[fd].cur
      OBVIOUS
    <3>2. /\ p \in x .. x + Len(buf) - 1 => ByteIn(disk', m, p) = buf[p - x + 1]
          /\ p \notin x .. x + Len(buf) - 1 => ByteIn(disk', m, p) \in Bytes
          /\ p \notin x .. x + Len(buf) - 1 /\ p < fdtable[fd].inode.size =>
                ByteIn(disk', m, p) = ByteIn(disk, m, p)
      BY <2>1, <3>1, ByteAfterWrite
    <3>3. cur = x /\ x \in Nat /\ Len(buf) \in Nat
      BY <1>1, <1>4, <3>1
    <3>4. to = x + Len(buf)
      BY <3>3
    <3>5. size = fdtable[fd].inode.size
      OBVIOUS
    <3> HIDE DEF cur, to, size, size2
    <3>6. p \in cur .. to - 1 => ByteIn(disk', m, p) = buf[p - cur + 1]
      BY <3>2, <3>3, <3>4
    <3>7. p \notin cur .. to - 1 => ByteIn(disk', m, p) \in Bytes
      BY <3>2, <3>3, <3>4
    <3>8. p \notin cur .. to - 1 /\ p < size => ByteIn(disk', m, p) = ByteIn(disk, m, p)
      BY <3>2, <3>3, <3>4, <3>5
    <3> QED  BY <3>6, <3>7, <3>8
  <2> QED  BY <2>2
<1>14. IF to <= size THEN size2 = size ELSE size2 >= to
  <2>1. CASE to <= size
    <3>1. WriteNew(fd, buf) = 0
      <4>1. ~(to > size)
        BY <1>1, <1>4, <2>1
      <4> HIDE DEF to
      <4> QED  BY <1>5, <4>1 DEF NewFrames
    <3>2. FrameSize * 0 = 0
      BY FrameCounts
    <3> HIDE DEF size2, size, to
    <3> QED  BY <1>4, <1>5, <2>1, <3>1, <3>2
  <2>2. CASE ~(to <= size)
    <3>1. to \in Nat
      BY <1>1, <1>4
    <3> HIDE DEF size2, size, to
    <3> QED  BY <1>2, <1>5, <2>2, <3>1
  <2> QED  BY <2>1, <2>2
<1> HIDE DEF c, c2, k, size, size2, cur
<1>15. Store_of_files!Size(c2) = size2
  BY <1>2, <1>11, BytesCounted
<1>16. \A p \in DOMAIN c2 :
          CASE p \in cur .. to - 1 -> c2[p] = buf[p - cur + 1]
            [] p \notin cur .. to - 1 /\ p \in DOMAIN c -> c2[p] = c[p]
            [] OTHER -> c2[p] \in Bytes
  <2>1. ASSUME NEW p \in DOMAIN c2
        PROVE  CASE p \in cur .. to - 1 -> c2[p] = buf[p - cur + 1]
                 [] p \notin cur .. to - 1 /\ p \in DOMAIN c -> c2[p] = c[p]
                 [] OTHER -> c2[p] \in Bytes
    <3>1. p \in 0 .. size2 - 1 /\ c2[p] = ByteIn(disk', m, p)
      BY <1>11
    <3>2. CASE p \in cur .. to - 1
      <4>1. c2[p] = buf[p - cur + 1]
        BY <1>13, <3>1, <3>2
      <4> QED  BY <3>2, <4>1
    <3>3. CASE p \notin cur .. to - 1 /\ p \in DOMAIN c
      <4>1. p \in 0 .. size - 1 /\ p < size
        BY <1>4, <3>3
      <4>2. c2[p] = c[p]
        BY <1>12, <1>13, <3>1, <3>3, <4>1
      <4> QED  BY <3>3, <4>2
    <3>4. CASE p \notin cur .. to - 1 /\ p \notin DOMAIN c
      <4>1. c2[p] \in Bytes
        BY <1>13, <3>1, <3>4
      <4> QED  BY <3>4, <4>1
    <3> QED  BY <3>2, <3>3, <3>4
  <2> QED  BY <2>1
<1>17. OpenedIn' = [OpenedIn EXCEPT ![fd].cur = @ + Len(buf)]
  BY <1>8, <1>9
<1> QED
  <2>1. Store_of_files!Answer("write", fd, Len(buf))
    BY <1>6 DEF Store_of_files!Answer
  <2>2. Store_of_files!Advance(fd, Len(buf)) /\ Store_of_files!File(fd) = k /\ Store_of_files!Cursor(fd) = cur
    BY <1>9, <1>17 DEF Store_of_files!Advance, Store_of_files!File, Store_of_files!Cursor
  <2>3. DOMAIN c2 = 0 .. Store_of_files!Size(c2) - 1
    BY <1>11, <1>15
  <2>4. IF to <= Store_of_files!Size(c) THEN Store_of_files!Size(c2) = Store_of_files!Size(c)
        ELSE Store_of_files!Size(c2) >= to
    BY <1>4, <1>14, <1>15
  <2> HIDE DEF to
  <2> QED  BY <1>2, <1>10, <1>16, <2>1, <2>2, <2>3, <2>4 DEF Store_of_files!Write, c, c2, to

-----------------------------------------------------------------------------
ReadByte(fd, n, p) ==
    LET b == Target(disk, fdtable[fd].inode, fdtable[fd].cur, n, p)
    IN  IF b = -1 THEN Junk ELSE ByteOf(disk[b], p % BlockSize)

LEMMA ReadMaps ==
    ASSUME FilesInv, NEW fd \in Held, NEW n \in Lengths, InFirstBlock(fd),
           EndOf(fd, n) \in 1 .. fdtable[fd].inode.size - 1, sfs_read(fd, n)
    PROVE  Store_of_files!Read(fd, n) /\ NamesOnce(disk', sb')
<1>a. PICK m : m = FdFile(fd)
  OBVIOUS
<1> DEFINE k == FdName(fd)
           cur == fdtable[fd].cur
           size == fdtable[fd].inode.size
           c == FilesIn[k]
<1>1. TypeInv /\ Intact /\ fd \in Fds /\ Current(fd) /\ NamesOnce(disk, sb) /\ CarefulInv
  BY DEF FilesInv, CarefulInv, IInv, Held
<1>2. /\ k \in DOMAIN FilesIn /\ c = ContentIn(disk, m)
      /\ size \in Nat /\ cur \in Nat /\ Store_of_files!Size(c) = size
      /\ disk[m] = fdtable[fd].inode /\ m \in Inodes
  BY <1>a, HeldFile
<1>3. UNCHANGED <<disk, sb, freemap>> /\ OnlyFd(fd) /\ SameFile(fd)
  BY <1>1, ReadStep
<1>4. n \in Nat /\ BlockSize \in Nat \ {0} /\ cur < BlockSize /\ cur + n >= 1 /\ cur + n < size
  <2>1. n \in Nat /\ BlockSize \in Nat \ {0}
    BY CallsAssumption, SizesAssumption
  <2>2. cur < BlockSize /\ cur + n \in 1 .. size - 1
    BY DEF InFirstBlock, EndOf
  <2> HIDE DEF cur, size
  <2> QED  BY <1>2, <2>1, <2>2
<1>5. ReadLength(size, cur, n) = n
  <2> HIDE DEF cur, size
  <2> QED  BY <1>2, <1>4 DEF ReadLength
<1>6. fdtable'[fd].cur = cur + n
  <2>1. fdtable'[fd].cur = cur + ReadCount(fd, n)
    BY <1>1, ReadStep
  <2> QED  BY <1>5, <2>1 DEF ReadCount
<1>7. result' = [op |-> "read", fd |-> fd, value |-> [i \in 1 .. n |-> ReadByte(fd, n, cur + i - 1)]]
  <2>1. result' = [op |-> "read", fd |-> fd,
                   value |-> [i \in 1 .. ReadLength(size, cur, n) |-> ReadByte(fd, ReadLength(size, cur, n), cur + i - 1)]]
    BY DEF sfs_read, Return, ReadByte
  <2> QED  BY <1>5, <2>1
<1>8. Typed(disk, sb) /\ Tree(disk, sb, freemap) /\ m \in InodesUnder(disk, sb)
  BY <1>1, <1>2, TreeBefore
<1>9. ASSUME NEW i \in 1 .. n PROVE ReadByte(fd, n, cur + i - 1) = c[cur + i - 1]
  <2> DEFINE p == cur + i - 1
  <2>1. p \in Nat /\ p <= cur + n /\ p < size /\ p \in 0 .. size - 1
    <3> HIDE DEF cur, size
    <3> QED  BY <1>2, <1>4
  <2>2. p < disk[m].size
    BY <1>2, <2>1
  <2> HIDE DEF p
  <2>3. Target(disk, disk[m], cur, n, p) = BlockNo(disk, m, p \div BlockSize)
    BY <1>2, <1>4, <1>8, <2>1, <2>2, TargetIsBlock
  <2>4. BlockNo(disk, m, p \div BlockSize) # -1
    <3>1. Shape(disk, sb) /\ HeldOnce(disk, sb)
      BY <1>8 DEF Tree
    <3>2. p \div BlockSize \in Nat /\ BlockSize * (p \div BlockSize) < disk[m].size
      BY <1>2, <2>1, <2>2, BlockBefore
    <3>3. BlockNo(disk, m, p \div BlockSize) \in Refs \ {0}
      BY <1>8, <3>1, <3>2, BlockOfFile
    <3>4. -1 \notin Refs
      BY SizesAssumption DEF Refs, BlockIds
    <3> QED  BY <3>3, <3>4
  <2>5. ReadByte(fd, n, p) = ByteIn(disk, m, p)
    BY <1>2, <2>3, <2>4 DEF ReadByte, ByteIn
  <2>6. c[p] = ByteIn(disk, m, p)
    <3>1. ContentIn(disk, m) = [q \in 0 .. disk[m].size - 1 |-> ByteIn(disk, m, q)]
      BY <1>2, ContentIs
    <3> HIDE DEF c
    <3> QED  BY <1>2, <2>1, <3>1
  <2> QED  BY <2>5, <2>6 DEF p
<1> HIDE DEF c
<1>10. result' = [op |-> "read", fd |-> fd, value |-> [i \in 1 .. n |-> c[cur + i - 1]]]
  <2>1. [i \in 1 .. n |-> ReadByte(fd, n, cur + i - 1)] = [i \in 1 .. n |-> c[cur + i - 1]]
    BY <1>9
  <2> QED  BY <1>7, <2>1
<1>11. DirNamesIn' = DirNamesIn /\ FilesIn' = FilesIn /\ NamesOnce(disk', sb')
  BY <1>1, <1>3, SameFilesSeen
<1>12. \A a \in Held : NameKept(a)
  <2>1. \A a \in Held : fdtable'[a].dir_bid = fdtable[a].dir_bid /\ FdFile(a)' = FdFile(a)
    BY <1>3 DEF OnlyFd, SameFile, FdFile, Held
  <2>2. \A d, l : NameOf(disk', d, l) = NameOf(disk, d, l)
    BY <1>3
  <2> QED  BY <2>1, <2>2, NameIsKept
<1>13. OpenedIn' = [OpenedIn EXCEPT ![fd].cur = cur + n]
  <2>1. Held' = Held
    BY <1>3 DEF OnlyFd, SameFile, Held
  <2>2. \A a \in Held \ {fd} : CursorKept(a)
    BY <1>3 DEF OnlyFd, Held, CursorKept
  <2> QED  BY <1>6, <1>12, <2>1, <2>2, OpenedMoved
<1>14. OpenedIn[fd].cur = cur /\ OpenedIn[fd].file = k
  BY OpenedIs
<1> HIDE DEF cur, k, size
<1>15. Store_of_files!Most(0, Store_of_files!Least(n, size - cur)) = n
  BY <1>2, <1>4 DEF Store_of_files!Most, Store_of_files!Least
<1>16. /\ Store_of_files!Advance(fd, n) /\ Store_of_files!File(fd) = k /\ Store_of_files!Cursor(fd) = cur
       /\ Store_of_files!Answer("read", fd, [i \in 1 .. n |-> c[cur + i - 1]])
  BY <1>10, <1>13, <1>14 DEF Store_of_files!Advance, Store_of_files!File, Store_of_files!Cursor, Store_of_files!Answer
<1> QED  BY <1>2, <1>11, <1>15, <1>16 DEF Store_of_files!Read, c

-----------------------------------------------------------------------------
(* The calls that leave the blocks alone. *)
LEMMA NamesOfSameDisk ==
    ASSUME FilesInv, disk' = disk, sb' = sb, NEW a \in Held,
           fdtable'[a].dir_bid = fdtable[a].dir_bid, FdFile(a)' = FdFile(a)
    PROVE  NameKept(a)
<1>1. \A d, l : NameOf(disk', d, l) = NameOf(disk, d, l)
  OBVIOUS
<1> QED  BY <1>1, NameIsKept

LEMMA CloseMaps ==
    ASSUME FilesInv, NEW fd \in Held, sfs_close(fd)
    PROVE  Store_of_files!Close(fd) /\ NamesOnce(disk', sb')
<1>1. TypeInv /\ fd \in Fds /\ NamesOnce(disk, sb)
  BY DEF FilesInv, CarefulInv, IInv, Held
<1>2. /\ disk' = disk /\ sb' = sb /\ fdtable' = [fdtable EXCEPT ![fd] = ClosedFd]
      /\ result' = [op |-> "close", fd |-> fd, value |-> 0]
  BY DEF sfs_close, Return
<1>3. \A a \in Fds : fdtable'[a] = IF a = fd THEN ClosedFd ELSE fdtable[a]
  BY <1>1, <1>2 DEF TypeInv
<1>4. Held' = Held \ {fd}
  BY <1>3 DEF Held, ClosedFd
<1>5. \A a \in Held \ {fd} : fdtable'[a] = fdtable[a]
  BY <1>3 DEF Held
<1>6. \A a \in Held \ {fd} : NameKept(a) /\ CursorKept(a)
  BY <1>2, <1>5, NamesOfSameDisk DEF FdFile, CursorKept
<1>7. OpenedIn' = Store_of_files!Drop(OpenedIn, fd)
  BY <1>4, <1>6, OpenedClosed
<1>8. DirNamesIn' = DirNamesIn /\ FilesIn' = FilesIn /\ NamesOnce(disk', sb')
  BY <1>1, <1>2, SameFilesSeen
<1> QED  BY <1>2, <1>7, <1>8 DEF Store_of_files!Close, Store_of_files!Answer

LEMMA NothingSeen ==
    ASSUME FilesInv, disk' = disk, sb' = sb, fdtable' = fdtable
    PROVE  /\ DirNamesIn' = DirNamesIn /\ FilesIn' = FilesIn /\ OpenedIn' = OpenedIn
           /\ NamesOnce(disk', sb')
<1>1. DirNamesIn' = DirNamesIn /\ FilesIn' = FilesIn /\ NamesOnce(disk', sb')
  BY SameFilesSeen DEF FilesInv
<1>2. Held' = Held /\ \A a \in Held : NameKept(a) /\ CursorKept(a)
  BY NamesOfSameDisk DEF Held, FdFile, CursorKept
<1> QED  BY <1>1, <1>2, OpenedKept

LEMMA EofMaps ==
    ASSUME FilesInv, NEW fd \in Held, fdtable[fd].cur # fdtable[fd].inode.size, sfs_eof(fd)
    PROVE  Store_of_files!Eof(fd) /\ NamesOnce(disk', sb')
<1> DEFINE cur == fdtable[fd].cur
           size == fdtable[fd].inode.size
<1>1. /\ disk' = disk /\ sb' = sb /\ fdtable' = fdtable
      /\ result' = [op |-> "eof", fd |-> fd, value |-> IF cur > size THEN 1 ELSE 0]
  BY DEF sfs_eof, Return
<1>2. /\ cur \in Nat /\ size \in Nat /\ cur # size
      /\ Store_of_files!Size(FilesIn[OpenedIn[fd].file]) = size /\ OpenedIn[fd].cur = cur
  BY HeldFile, OpenedIs
<1>3. DirNamesIn' = DirNamesIn /\ FilesIn' = FilesIn /\ OpenedIn' = OpenedIn /\ NamesOnce(disk', sb')
  BY <1>1, NothingSeen
<1> HIDE DEF cur, size
<1>4. (IF cur > size THEN 1 ELSE 0) = IF cur >= size THEN 1 ELSE 0
  BY <1>2
<1> QED  BY <1>1, <1>2, <1>3, <1>4 DEF Store_of_files!Eof, Store_of_files!Answer, Store_of_files!Cursor, Store_of_files!File

LEMMA SeekMaps ==
    ASSUME FilesInv, NEW fd \in Held, NEW relative \in Moves, NEW loc \in {"set", "cur"}, sfs_seek(fd, relative, loc)
    PROVE  Store_of_files!Seek(fd, relative, loc) /\ NamesOnce(disk', sb')
<1> DEFINE cur == fdtable[fd].cur
           e == SeekTo(fd, relative, loc)
<1>1. /\ disk' = disk /\ sb' = sb /\ fdtable' = [fdtable EXCEPT ![fd].cur = e]
      /\ result' = [op |-> "seek", fd |-> fd, value |-> 0]
  BY DEF sfs_seek, Return
<1>2. TypeInv /\ fd \in Fds /\ NamesOnce(disk, sb) /\ relative \in Int /\ cur \in Nat
  BY HeldFile, CallsAssumption DEF FilesInv, CarefulInv, IInv
<1>3. e = (IF loc = "set" THEN relative ELSE cur + relative)
  BY DEF SeekTo
<1> HIDE DEF e
<1>4. OnlyFd(fd) /\ SameFile(fd) /\ fdtable'[fd].cur = e
  BY <1>1, <1>2, CursorMoved
<1>5. Held' = Held
  BY <1>4 DEF OnlyFd, SameFile, Held
<1>6. \A a \in Held : fdtable'[a].dir_bid = fdtable[a].dir_bid /\ FdFile(a)' = FdFile(a)
  BY <1>4 DEF OnlyFd, SameFile, FdFile, Held
<1>7. \A a \in Held \ {fd} : CursorKept(a)
  BY <1>4 DEF OnlyFd, Held, CursorKept
<1>8. \A a \in Held : NameKept(a)
  BY <1>1, <1>6, NamesOfSameDisk
<1>9. OpenedIn' = [OpenedIn EXCEPT ![fd].cur = e]
  BY <1>4, <1>5, <1>7, <1>8, OpenedMoved
<1>10. DirNamesIn' = DirNamesIn /\ FilesIn' = FilesIn /\ NamesOnce(disk', sb')
  BY <1>1, <1>2, SameFilesSeen
<1>11. OpenedIn[fd].cur = cur
  BY OpenedIs
<1>12. PICK start : start = IF loc = "set" THEN 0 ELSE cur
  OBVIOUS
<1>13. /\ start = CASE loc = "set" -> 0 [] loc = "cur" -> OpenedIn[fd].cur
                    [] loc = "end" -> Store_of_files!Size(FilesIn[OpenedIn[fd].file])
       /\ start + relative = e
  <2> HIDE DEF cur
  <2>1. CASE loc = "set"
    BY <1>2, <1>3, <1>12, <2>1
  <2>2. CASE loc = "cur"
    BY <1>2, <1>3, <1>11, <1>12, <2>2
  <2> QED  BY <2>1, <2>2
<1>14. OpenedIn' = [OpenedIn EXCEPT ![fd].cur = start + relative]
  BY <1>9, <1>13
<1>15. start = CASE loc = "set" -> 0 [] loc = "cur" -> Store_of_files!Cursor(fd)
                 [] loc = "end" -> Store_of_files!Size(FilesIn[Store_of_files!File(fd)])
  BY <1>13 DEF Store_of_files!Cursor, Store_of_files!File
<1> QED  BY <1>1, <1>10, <1>14, <1>15 DEF Store_of_files!Seek, Store_of_files!Answer

LEMMA RemoveMaps ==
    ASSUME FilesInv, TypeInv', NEW fd \in Held, sfs_remove(fd)
    PROVE  Store_of_files!Remove(fd) /\ NamesOnce(disk', sb')
<1>a. PICK n : n = FdFile(fd)
  OBVIOUS
<1>b. PICK d : d = fdtable[fd].dir_bid
  OBVIOUS
<1>1. TypeInv /\ Intact /\ ~broken /\ fd \in Fds /\ Current(fd) /\ NamesOnce(disk, sb)
  BY DEF FilesInv, CarefulInv, IInv, Held
<1>2. RemoveMade(d, n) /\ ~broken' /\ OnlyFd(fd)
  BY <1>a, <1>b, <1>1, RemoveStep
<1>3. /\ fdtable' = [fdtable EXCEPT ![fd] = ClosedFd]
      /\ result' = [op |-> "remove", fd |-> fd, value |-> 0]
  BY <1>2 DEF sfs_remove, Lose, Return
<1>4. \A a \in Fds : fdtable'[a] = IF a = fd THEN ClosedFd ELSE fdtable[a]
  BY <1>1, <1>3 DEF TypeInv
<1>5. Held' = Held \ {fd} /\ \A a \in Held \ {fd} : fdtable'[a] = fdtable[a]
  BY <1>4 DEF Held, ClosedFd
<1>6. /\ sb' = sb /\ d \in Listed(disk, sb) /\ n \in InodesIn(disk, d)
      /\ RemoveWrites(disk, freemap, disk', d, n) /\ RemoveDone(disk, sb, freemap, disk', d, n)
  BY <1>1, <1>2, TreeBefore DEF RemoveMade
<1>7. Typed(disk, sb) /\ Tree(disk, sb, freemap) /\ Typed(disk', sb)
  BY <1>1, <1>6, TreeBefore, TreeAfter
<1>8. /\ NamesOnce(disk', sb) /\ DirNamesOf(disk', sb) = DirNamesOf(disk, sb)
      /\ FilesOf(disk', sb) = WithoutFile(FilesOf(disk, sb), NameOf(disk, d, n))
      /\ \A e \in Listed(disk, sb) : \A m \in InodesIn(disk, e) : m # n => NameOf(disk', e, m) = NameOf(disk, e, m)
  BY <1>1, <1>6, <1>7, RemoveFiles
<1>9. FdName(fd) = NameOf(disk, d, n)
  BY <1>a, <1>b DEF FdName
<1>10. \A a \in Held \ {fd} : FdFile(a) # n /\ FdFile(a)' = FdFile(a) /\ fdtable'[a].dir_bid = fdtable[a].dir_bid
  BY <1>a, <1>5 DEF FilesInv, CarefulInv, FdFile
<1>11. \A a \in Held \ {fd} : NameKept(a) /\ CursorKept(a)
  BY <1>5, <1>8, <1>10, NameIsKept DEF CursorKept
<1>12. OpenedIn' = Store_of_files!Drop(OpenedIn, fd)
  BY <1>5, <1>11, OpenedClosed
<1>13. /\ DirNamesIn' = DirNamesIn /\ NamesOnce(disk', sb')
       /\ FilesIn' = WithoutFile(FilesIn, FdName(fd))
  BY <1>6, <1>8, <1>9, Seen
<1>14. WithoutFile(FilesIn, FdName(fd)) = Store_of_files!Drop(FilesIn, FdName(fd))
  <2>1. \A F, k : WithoutFile(F, k) = Store_of_files!Drop(F, k)
    BY DEF WithoutFile, Store_of_files!Drop, Store_of_files!Restrict
  <2> QED  BY <2>1
<1>15. Store_of_files!File(fd) = FdName(fd)
  BY OpenedIs DEF Store_of_files!File
<1> QED  BY <1>3, <1>12, <1>13, <1>14, <1>15 DEF Store_of_files!Remove, Store_of_files!Answer

-----------------------------------------------------------------------------
(* The calls that make and remove names. *)
LEMMA MkdirMaps ==
    ASSUME FilesInv, TypeInv', NEW name \in DirNames, Room(1), sfs_mkdir(name)
    PROVE  Store_of_files!MkDir(name) /\ NamesOnce(disk', sb')
<1>1. /\ TypeInv /\ Intact /\ ~broken /\ NamesOnce(disk, sb) /\ freemap # Ids
      /\ Dirs = Listed(disk, sb) /\ Dirs \subseteq Refs \ {0} /\ fdtable' = fdtable
      /\ Typed(disk, sb) /\ Tree(disk, sb, freemap) /\ Typed(disk', sb')
  <2>1. TypeInv /\ Intact /\ ~broken /\ NamesOnce(disk, sb)
    BY DEF FilesInv, CarefulInv, IInv
  <2> QED  BY <2>1, RoomForOne, TreeBefore, TreeAfter, MkdirStep
<1>2. CASE DirOf(name) # 0
  <2>1. /\ disk' = disk /\ sb' = sb /\ result' = [op |-> "mkdir", fd |-> -1, value |-> -1]
    BY <1>2 DEF sfs_mkdir, Return
  <2>2. name \in DirNamesIn
    BY <1>2, FoundDir DEF DirNamesIn
  <2>3. DirNamesIn' = DirNamesIn /\ FilesIn' = FilesIn /\ OpenedIn' = OpenedIn /\ NamesOnce(disk', sb')
    BY <1>1, <2>1, NothingSeen
  <2> QED  BY <2>1, <2>2, <2>3 DEF Store_of_files!MkDir, Store_of_files!Refuse, Store_of_files!Answer
<1>3. CASE DirOf(name) = 0
  <2>1. result' = [op |-> "mkdir", fd |-> -1, value |-> 0]
    BY <1>3 DEF sfs_mkdir, Return
  <2>2. PICK new : MkdirMade(new, name)
    BY <1>1, <1>3, MkdirStep
  <2>3. 0 \notin Dirs /\ \A d \in Dirs : disk[d].dir_name # name
    BY <1>1, <1>3, FoundDir
  <2>4. name \notin DirNamesOf(disk, sb)
    BY <1>1, <2>3 DEF DirNamesOf
  <2>5. /\ NamesOnce(disk', sb') /\ DirNamesOf(disk', sb') = DirNamesOf(disk, sb) \cup {name}
        /\ FilesOf(disk', sb') = FilesOf(disk, sb)
        /\ \A d \in Listed(disk, sb) : \A n \in InodesIn(disk, d) : NameOf(disk', d, n) = NameOf(disk, d, n)
    BY <1>1, <2>2, <2>4, MkdirFiles DEF MkdirMade
  <2>6. Held' = Held /\ \A a \in Held : NameKept(a) /\ CursorKept(a)
    BY <1>1, <2>5, NameIsKept DEF Held, FdFile, CursorKept
  <2>7. OpenedIn' = OpenedIn
    BY <2>6, OpenedKept
  <2>8. name \notin DirNamesIn /\ DirNamesIn' = DirNamesIn \cup {name} /\ FilesIn' = FilesIn
    BY <2>4, <2>5, Seen
  <2> QED  BY <2>1, <2>5, <2>7, <2>8 DEF Store_of_files!MkDir, Store_of_files!Answer
<1> QED  BY <1>2, <1>3

(* The only directory goes. *)
LEMMA LastRmdirSeen ==
    ASSUME FilesInv, TypeInv', NEW name \in DirNames, DirOf(name) = sb, sb # 0, ~FirstOfMany(name),
           InodesOf(sb) = {}, sb' = 0, fdtable' = fdtable
    PROVE  /\ NamesOnce(disk', sb') /\ DirNamesIn' = DirNamesIn \ {name}
           /\ FilesIn' = FilesIn /\ OpenedIn' = OpenedIn
<1>1. TypeInv /\ Intact /\ NamesOnce(disk, sb) /\ Typed(disk', sb') /\ Dirs = {sb} /\ Dirs = Listed(disk, sb)
      /\ \A d : InodesOf(d) = InodesIn(disk, d)
  <2>1. TypeInv /\ Intact /\ NamesOnce(disk, sb)
    BY DEF FilesInv, CarefulInv, IInv
  <2> QED  BY <2>1, OnlyDirectory, TreeBefore, TreeAfter
<1>2. Listed(disk', sb') = {}
  <2>1. LinksAreIds(disk') /\ sb' \in BlockIds
    BY <1>1, ListedRefs, NoRef DEF Typed
  <2> QED  BY <2>1, ListedIds
<1>3. NamesOnce(disk', sb')
  BY <1>2 DEF NamesOnce
<1>4. DirNamesIn' = DirNamesIn \ {name}
  <2>1. DirNamesOf(disk', sb') = {} /\ DirNamesOf(disk, sb) = {disk[sb].dir_name}
    BY <1>1, <1>2 DEF DirNamesOf
  <2>2. disk[sb].dir_name = name
    BY FoundDir
  <2> QED  BY <2>1, <2>2, Seen
<1>5. FilesIn' = FilesIn
  <2>1. ASSUME NEW x, NEW c PROVE FileAt(disk', sb', x, c) <=> FileAt(disk, sb, x, c)
    <3>1. ~FileAt(disk', sb', x, c)
      BY <1>2 DEF FileAt
    <3>2. Listed(disk, sb) = {sb} /\ InodesIn(disk, sb) = {}
      BY <1>1
    <3>3. ~FileAt(disk, sb, x, c)
      BY <3>2 DEF FileAt
    <3> QED  BY <3>1, <3>3
  <2>2. FilesOf(disk', sb') = FilesOf(disk, sb)
    BY <1>1, <1>3, <2>1, SameFiles
  <2> QED  BY <2>2, Seen
<1>6. Held = {} /\ Held' = Held
  <2>1. ASSUME NEW a \in Held PROVE FALSE
    <3>1. fdtable[a].dir_bid \in Dirs /\ FdFile(a) \in InodesOf(fdtable[a].dir_bid)
      BY HeldFile
    <3> QED  BY <1>1, <3>1
  <2>2. Held' = Held
    BY DEF Held
  <2> QED  BY <2>1, <2>2
<1>7. OpenedIn' = OpenedIn
  BY <1>6, OpenedKept
<1> QED  BY <1>3, <1>4, <1>5, <1>7

LEMMA RmdirMaps ==
    ASSUME FilesInv, TypeInv', NEW name \in DirNames, ~FirstOfMany(name), sfs_rmdir(name)
    PROVE  Store_of_files!RmDir(name) /\ NamesOnce(disk', sb')
<1>a. PICK d : d = DirOf(name)
  OBVIOUS
<1>1. /\ TypeInv /\ Intact /\ ~broken /\ NamesOnce(disk, sb)
      /\ Dirs = Listed(disk, sb) /\ Dirs \subseteq Refs \ {0} /\ fdtable' = fdtable
      /\ Typed(disk, sb) /\ Tree(disk, sb, freemap) /\ Typed(disk', sb')
      /\ \A e : InodesOf(e) = InodesIn(disk, e)
  <2>1. TypeInv /\ Intact /\ ~broken /\ NamesOnce(disk, sb)
    BY DEF FilesInv, CarefulInv, IInv
  <2> QED  BY <2>1, TreeBefore, TreeAfter, RmdirStep
<1>2. ASSUME d = 0 \/ InodesOf(d) # {}
      PROVE  /\ result' = [op |-> "rmdir", fd |-> -1, value |-> -1]
             /\ DirNamesIn' = DirNamesIn /\ FilesIn' = FilesIn /\ OpenedIn' = OpenedIn /\ NamesOnce(disk', sb')
  <2>1. disk' = disk /\ sb' = sb /\ result' = [op |-> "rmdir", fd |-> -1, value |-> -1]
    BY <1>2, <1>a DEF sfs_rmdir, Return
  <2> QED  BY <1>1, <2>1, NothingSeen
<1>3. CASE d = 0
  <2>1. name \notin DirNamesIn
    BY <1>1, <1>3, <1>a, FoundDir DEF DirNamesIn
  <2> QED  BY <1>2, <1>3, <2>1 DEF Store_of_files!RmDir, Store_of_files!Refuse, Store_of_files!Answer
<1>4. CASE d # 0 /\ InodesOf(d) # {}
  <2>1. d \in Listed(disk, sb) /\ disk[d].dir_name = name
    BY <1>1, <1>4, <1>a, FoundDir
  <2>2. PICK n \in InodesIn(disk, d) : TRUE
    BY <1>1, <1>4
  <2>3. FileAt(disk, sb, NameOf(disk, d, n), ContentIn(disk, n))
    BY <2>1 DEF FileAt
  <2>4. NameOf(disk, d, n) \in DOMAIN FilesIn
    BY <1>1, <2>3, FilesAre, Seen
  <2>5. NameOf(disk, d, n)[1] = name
    BY <2>1 DEF NameOf
  <2>6. Store_of_files!HasFiles(name)
    BY <2>4, <2>5 DEF Store_of_files!HasFiles
  <2> QED  BY <1>2, <1>4, <2>6 DEF Store_of_files!RmDir, Store_of_files!Refuse, Store_of_files!Answer
<1>5. CASE d # 0 /\ InodesOf(d) = {}
  <2>1. /\ result' = [op |-> "rmdir", fd |-> -1, value |-> 0]
        /\ sb' = IF d = sb THEN 0 ELSE sb
    BY <1>5, <1>a DEF sfs_rmdir, Return, FirstAfter
  <2>2. d \in Listed(disk, sb) /\ disk[d].dir_name = name /\ InodesIn(disk, d) = {}
    BY <1>1, <1>5, <1>a, FoundDir
  <2>3. name \in DirNamesIn
    BY <2>2, Seen DEF DirNamesOf
  <2>4. ~Store_of_files!HasFiles(name)
    <3>1. ASSUME NEW x \in DOMAIN FilesIn, x[1] = name PROVE FALSE
      <4>1. PICK c : FileAt(disk, sb, x, c)
        BY <1>1, <3>1, FilesAre, Seen
      <4>2. PICK e \in Listed(disk, sb) : \E n \in InodesIn(disk, e) : x = NameOf(disk, e, n)
        BY <4>1 DEF FileAt
      <4>3. PICK n \in InodesIn(disk, e) : x = NameOf(disk, e, n)
        BY <4>2
      <4>4. disk[e].dir_name = name
        BY <3>1, <4>3 DEF NameOf
      <4>5. e = d
        BY <1>1, <2>2, <4>4 DEF NamesOnce
      <4> QED  BY <2>2, <4>3, <4>5
    <3> QED  BY <3>1 DEF Store_of_files!HasFiles
  <2>5. CASE d = sb
    <3>1. /\ NamesOnce(disk', sb') /\ DirNamesIn' = DirNamesIn \ {name}
          /\ FilesIn' = FilesIn /\ OpenedIn' = OpenedIn
      BY <1>1, <1>5, <1>a, <2>1, <2>5, LastRmdirSeen
    <3> QED  BY <2>1, <2>3, <2>4, <3>1 DEF Store_of_files!RmDir, Store_of_files!Answer
  <2>6. CASE d # sb
    <3>1. RmdirMade(d)
      BY <1>1, <1>5, <1>a, <2>6, RmdirStep
    <3>2. PICK before \in Listed(disk, sb) : RmdirWrites(disk, freemap, disk', d, before)
      BY <1>1, <3>1 DEF RmdirMade
    <3>3. sb' = sb /\ RmdirDone(disk, sb, freemap, disk', d)
      BY <3>1 DEF RmdirMade
    <3>4. /\ NamesOnce(disk', sb) /\ DirNamesOf(disk', sb) = DirNamesOf(disk, sb) \ {disk[d].dir_name}
          /\ FilesOf(disk', sb) = FilesOf(disk, sb)
          /\ \A e \in Listed(disk, sb) : \A n \in InodesIn(disk, e) : NameOf(disk', e, n) = NameOf(disk, e, n)
      <4>1. Typed(disk', sb)
        BY <1>1, <3>3
      <4> QED  BY <1>1, <2>2, <3>2, <3>3, <4>1, RmdirFiles
    <3>5. Held' = Held /\ \A a \in Held : NameKept(a) /\ CursorKept(a)
      BY <1>1, <3>4, NameIsKept DEF Held, FdFile, CursorKept
    <3>6. OpenedIn' = OpenedIn
      BY <3>5, OpenedKept
    <3>7. DirNamesIn' = DirNamesIn \ {name} /\ FilesIn' = FilesIn /\ NamesOnce(disk', sb')
      BY <2>2, <3>3, <3>4, Seen
    <3> QED  BY <2>1, <2>3, <2>4, <3>6, <3>7 DEF Store_of_files!RmDir, Store_of_files!Answer
  <2> QED  BY <2>5, <2>6
<1> QED  BY <1>3, <1>4, <1>5

-----------------------------------------------------------------------------
LEMMA AllFdsInUse == ASSUME LowestFd = -1 PROVE Fds \subseteq Held
<1> DEFINE free == {fd \in Fds : ~fdtable[fd].valid}
<1>1. free \in SUBSET Nat
  BY SizesAssumption DEF Fds
<1>2. ASSUME free # {} PROVE FALSE
  <2>1. \E i \in free : \A j \in free : i <= j
    <3> HIDE DEF free
    <3> QED  BY <1>1, <1>2, LeastNatural
  <2>2. LowestFd = CHOOSE i \in free : \A j \in free : i <= j
    BY <1>2 DEF LowestFd
  <2> HIDE DEF free
  <2>3. LowestFd \in free
    BY <2>1, <2>2
  <2> QED  BY <1>1, <2>3
<1> QED  BY <1>2 DEF Held

LEMMA OpenOldMaps ==
    ASSUME FilesInv, NEW dirname \in DirNames, NEW name \in FileNames,
           NEW fd \in Fds, ~fdtable[fd].valid, NEW d \in Dirs, disk[d].dir_name = dirname,
           NEW n \in InodesOf(d), disk[n].file_name = name, OpenExisting(fd, d, n)
    PROVE  Store_of_files!Open(dirname, name) /\ NamesOnce(disk', sb')
<1> DEFINE k == <<dirname, name>>
<1>1. /\ TypeInv /\ Intact /\ NamesOnce(disk, sb) /\ Dirs = Listed(disk, sb)
      /\ \A e : InodesOf(e) = InodesIn(disk, e)
  <2>1. TypeInv /\ Intact /\ NamesOnce(disk, sb)
    BY DEF FilesInv, CarefulInv, IInv
  <2> QED  BY <2>1, TreeBefore
<1>2. /\ disk' = disk /\ sb' = sb /\ fdtable' = [fdtable EXCEPT ![fd] = OpenedFd(d, n, disk[n])]
      /\ result' = [op |-> "open", fd |-> fd, value |-> fd]
  BY DEF OpenExisting, Return
<1>3. /\ fdtable'[fd] = OpenedFd(d, n, disk[n]) /\ \A a \in Fds \ {fd} : fdtable'[a] = fdtable[a]
  BY <1>1, <1>2 DEF TypeInv
<1>4. /\ fd \notin Held /\ Held' = Held \cup {fd} /\ \A a \in Held : fdtable'[a] = fdtable[a]
      /\ fdtable'[fd].cur = 0 /\ fdtable'[fd].dir_bid = d /\ FdFile(fd)' = n
  BY <1>3 DEF Held, OpenedFd, FdFile
<1>5. \A a \in Held : NameKept(a) /\ CursorKept(a)
  BY <1>2, <1>4, NamesOfSameDisk DEF FdFile, CursorKept
<1>6. FdName(fd)' = k
  <2>1. FdName(fd)' = NameOf(disk', d, n)
    BY <1>4 DEF FdName, NameOf
  <2> QED  BY <1>2, <2>1 DEF NameOf
<1>7. OpenedIn' = Store_of_files!Update(OpenedIn, fd, [file |-> k, cur |-> 0])
  BY <1>4, <1>5, <1>6, OpenedMore
<1>8. DirNamesIn' = DirNamesIn /\ FilesIn' = FilesIn /\ NamesOnce(disk', sb')
  BY <1>1, <1>2, SameFilesSeen
<1>9. k \in DOMAIN FilesIn /\ dirname \in DirNamesIn
  <2>1. FileAt(disk, sb, k, ContentIn(disk, n))
    BY <1>1 DEF FileAt, NameOf
  <2> QED  BY <1>1, <2>1, FilesAre, Seen DEF DirNamesIn
<1>10. fd \notin DOMAIN OpenedIn
  BY <1>4, OpenedIs
<1> QED  BY <1>2, <1>7, <1>8, <1>9, <1>10 DEF Store_of_files!Open, Store_of_files!Answer

LEMMA OpenNewMaps ==
    ASSUME FilesInv, TypeInv', ~broken', NEW dirname \in DirNames, NEW name \in FileNames,
           NEW fd \in Fds, ~fdtable[fd].valid, NEW d \in Dirs, disk[d].dir_name = dirname,
           \A n \in InodesOf(d) : disk[n].file_name # name, LowestSlot(d) # -1, OpenNew(fd, d, name)
    PROVE  Store_of_files!Open(dirname, name) /\ NamesOnce(disk', sb')
<1>a. PICK new : new = Allocated(1)
  OBVIOUS
<1> DEFINE k == <<dirname, name>>
<1>1. /\ TypeInv /\ Intact /\ ~broken /\ NamesOnce(disk, sb) /\ Dirs = Listed(disk, sb)
      /\ Typed(disk, sb) /\ Tree(disk, sb, freemap) /\ Typed(disk', sb')
      /\ \A e : InodesOf(e) = InodesIn(disk, e)
  <2>1. TypeInv /\ Intact /\ ~broken /\ NamesOnce(disk, sb)
    BY DEF FilesInv, CarefulInv, IInv
  <2> QED  BY <2>1, TreeBefore, TreeAfter
<1>2. /\ fdtable' = [fdtable EXCEPT ![fd] = OpenedFd(d, new, Inode(name))]
      /\ result' = [op |-> "open", fd |-> fd, value |-> fd]
  BY <1>a DEF OpenNew, Return
<1>3. /\ fdtable'[fd] = OpenedFd(d, new, Inode(name)) /\ \A a \in Fds \ {fd} : fdtable'[a] = fdtable[a]
  BY <1>1, <1>2 DEF TypeInv
<1>4. /\ fd \notin Held /\ Held' = Held \cup {fd} /\ \A a \in Held : fdtable'[a] = fdtable[a]
      /\ fdtable'[fd].cur = 0 /\ fdtable'[fd].dir_bid = d /\ FdFile(fd)' = new
  BY <1>3 DEF Held, OpenedFd, FdFile
<1>5. OpenMade(d, new, name)
  BY <1>1, <1>a, OpenNewStep
<1>6. PICK slot \in InodeSlots : OpenWrites(disk, freemap, disk', d, slot, new, name)
  BY <1>5 DEF OpenMade
<1>7. sb' = sb /\ new \notin freemap /\ OpenDone(disk, sb, freemap, disk', d, new)
  BY <1>5 DEF OpenMade
<1>8. /\ NamesOnce(disk', sb) /\ DirNamesOf(disk', sb) = DirNamesOf(disk, sb)
      /\ FilesOf(disk', sb) = WithFile(FilesOf(disk, sb), k, EmptyFile)
      /\ k \notin DOMAIN FilesOf(disk, sb) /\ NameOf(disk', d, new) = k
      /\ \A e \in Listed(disk, sb) : \A n \in InodesIn(disk, e) : NameOf(disk', e, n) = NameOf(disk, e, n)
  <2>1. Typed(disk', sb) /\ d \in Listed(disk, sb) /\ \A n \in InodesIn(disk, d) : disk[n].file_name # name
    BY <1>1, <1>7
  <2> QED  BY <1>1, <1>6, <1>7, <2>1, OpenFiles
<1>9. \A a \in Held : NameKept(a) /\ CursorKept(a)
  BY <1>4, <1>8, NameIsKept DEF FdFile, CursorKept
<1>10. FdName(fd)' = k
  <2>1. FdName(fd)' = NameOf(disk', d, new)
    BY <1>4 DEF FdName, NameOf
  <2> QED  BY <1>8, <2>1
<1>11. OpenedIn' = Store_of_files!Update(OpenedIn, fd, [file |-> k, cur |-> 0])
  BY <1>4, <1>9, <1>10, OpenedMore
<1>12. /\ DirNamesIn' = DirNamesIn /\ NamesOnce(disk', sb') /\ k \notin DOMAIN FilesIn
       /\ FilesIn' = WithFile(FilesIn, k, EmptyFile) /\ dirname \in DirNamesIn
  BY <1>7, <1>8, Seen DEF DirNamesIn
<1>13. WithFile(FilesIn, k, EmptyFile) = Store_of_files!Update(FilesIn, k, [p \in {} |-> 0])
  <2>1. \A F, x, v : WithFile(F, x, v) = Store_of_files!Update(F, x, v)
    BY DEF WithFile, Store_of_files!Update
  <2> HIDE DEF k
  <2> QED  BY <2>1 DEF EmptyFile
<1>14. fd \notin DOMAIN OpenedIn
  BY <1>4, OpenedIs
<1> QED  BY <1>2, <1>11, <1>12, <1>13, <1>14 DEF Store_of_files!Open, Store_of_files!Answer

LEMMA OpenMaps ==
    ASSUME FilesInv, TypeInv', ~broken', NEW dirname \in DirNames, NEW name \in FileNames,
           NewFile(dirname, name) => LowestSlot(DirOf(dirname)) # -1, sfs_open(dirname, name)
    PROVE  Store_of_files!Open(dirname, name) /\ NamesOnce(disk', sb')
<1>a. PICK fd : fd = LowestFd
  OBVIOUS
<1>b. PICK d : d = DirOf(dirname)
  OBVIOUS
<1>c. PICK n : n = InodeOf(d, name)
  OBVIOUS
<1>1. TypeInv /\ Intact /\ 0 \notin Dirs
  <2>1. TypeInv /\ Intact
    BY DEF FilesInv, CarefulInv, IInv
  <2> QED  BY <2>1, TreeBefore
<1>2. CASE fd = -1 \/ d = 0
  <2>1. /\ result' = [op |-> "open", fd |-> -1, value |-> -1]
        /\ disk' = disk /\ sb' = sb /\ fdtable' = fdtable
    BY <1>2, <1>a, <1>b, <1>c DEF sfs_open, Return
  <2>2. DirNamesIn' = DirNamesIn /\ FilesIn' = FilesIn /\ OpenedIn' = OpenedIn /\ NamesOnce(disk', sb')
    BY <2>1, NothingSeen
  <2>3. dirname \notin DirNamesIn \/ Fds \subseteq DOMAIN OpenedIn
    <3>1. CASE d = 0
      BY <1>1, <1>b, <3>1, FoundDir DEF DirNamesIn
    <3>2. CASE fd = -1
      <4>1. Fds \subseteq Held
        BY <1>a, <3>2, AllFdsInUse
      <4> QED  BY <4>1, OpenedIs
    <3> QED  BY <1>2, <3>1, <3>2
  <2> QED  BY <2>1, <2>2, <2>3 DEF Store_of_files!Open, Store_of_files!Refuse, Store_of_files!Answer
<1>3. ASSUME fd # -1, d # 0 PROVE fd \in Fds /\ ~fdtable[fd].valid /\ d \in Dirs /\ disk[d].dir_name = dirname
  BY <1>3, <1>a, <1>b, LowestFdIsFree, FoundDir
<1>4. CASE fd # -1 /\ d # 0 /\ n # 0
  <2>1. OpenExisting(fd, d, n)
    BY <1>4, <1>a, <1>b, <1>c DEF sfs_open
  <2>2. n \in InodesOf(d) /\ disk[n].file_name = name
    BY <1>4, <1>c, FoundInode
  <2> QED  BY <1>3, <1>4, <2>1, <2>2, OpenOldMaps
<1>5. CASE fd # -1 /\ d # 0 /\ n = 0
  <2>1. LowestSlot(d) # -1
    BY <1>5, <1>b, <1>c DEF NewFile
  <2>2. OpenNew(fd, d, name)
    BY <1>5, <1>a, <1>b, <1>c, <2>1 DEF sfs_open
  <2>3. \A m \in InodesOf(d) : disk[m].file_name # name
    BY <1>5, <1>c, FoundInode
  <2> QED  BY <1>3, <1>5, <2>1, <2>2, <2>3, OpenNewMaps
<1> QED  BY <1>2, <1>4, <1>5

LEMMA InformMaps ==
    ASSUME FilesInv, sfs_print_info \/ sfs_reloadfs \/ sfs_lsdir \/ sfs_ls
    PROVE  (Store_of_files!LsDir \/ Store_of_files!Ls \/ Store_of_files!Inform) /\ NamesOnce(disk', sb')
<1>1. TypeInv /\ Intact /\ NamesOnce(disk, sb)
  BY DEF FilesInv, CarefulInv, IInv
<1>2. disk' = disk /\ sb' = sb /\ fdtable' = fdtable
  BY <1>1, InformTyped
<1>3. DirNamesIn' = DirNamesIn /\ FilesIn' = FilesIn /\ OpenedIn' = OpenedIn /\ NamesOnce(disk', sb')
  BY <1>2, NothingSeen
<1>4. /\ Store_of_files!Cardinality(DirNamesIn) = Cardinality(Dirs)
      /\ Store_of_files!Cardinality(DOMAIN FilesIn) = Cardinality(Inodes)
  <2>1. Typed(disk, sb) /\ Shape(disk, sb) /\ HeldOnce(disk, sb) /\ Dirs = Listed(disk, sb) /\ Inodes = InodesUnder(disk, sb)
    BY <1>1, TreeBefore DEF Tree
  <2>2. /\ Cardinality(DirNamesOf(disk, sb)) = Cardinality(Dirs)
        /\ Cardinality(FileNamesOf(disk, sb)) = Cardinality(Inodes)
    BY <1>1, <2>1, NamesAreCounted
  <2>3. DirNamesIn = DirNamesOf(disk, sb) /\ DOMAIN FilesIn = FileNamesOf(disk, sb)
    BY <1>1, Seen, FilesAre
  <2> QED  BY <2>2, <2>3, SameCount
<1>5. CASE sfs_print_info \/ sfs_reloadfs
  <2>1. result'.op \in {"print_info", "reloadfs"}
    BY <1>5 DEF sfs_print_info, sfs_reloadfs, Return
  <2> QED  BY <1>3, <2>1 DEF Store_of_files!Inform
<1>6. CASE sfs_lsdir
  <2>1. result' = [op |-> "lsdir", fd |-> -1, value |-> Cardinality(Dirs)]
    BY <1>6 DEF sfs_lsdir, Return
  <2> QED  BY <1>3, <1>4, <2>1 DEF Store_of_files!LsDir, Store_of_files!Answer
<1>7. CASE sfs_ls
  <2>1. result' = [op |-> "ls", fd |-> -1, value |-> Cardinality(Inodes)]
    BY <1>7 DEF sfs_ls, Return
  <2> QED  BY <1>3, <1>4, <2>1 DEF Store_of_files!Ls, Store_of_files!Answer
<1> QED  BY <1>5, <1>6, <1>7

(* Nothing is in the storage of sfs_mkfs. *)
LEMMA FilesInit ==
    ASSUME Init
    PROVE  FilesInv /\ Store_of_files!FSInit
<1>1. IInv /\ ~broken /\ Held = {} /\ sb = 0
  BY InitHolds DEF Init, Held, ClosedFd
<1>2. TypeInv /\ CarefulInv
  BY <1>1 DEF CarefulInv, IInv
<1>3. Listed(disk, sb) = {}
  <2>1. disk \in [BlockIds -> BlockRefs]
    BY <1>2 DEF TypeInv
  <2>2. LinksAreIds(disk)
    BY <2>1, ListedRefs
  <2> QED  BY <1>1, <2>2, NoRef, ListedIds
<1>4. NamesOnce(disk, sb) /\ DirNamesOf(disk, sb) = {} /\ FileNamesOf(disk, sb) = {}
  BY <1>3 DEF NamesOnce, DirNamesOf, FileNamesOf
<1>5. DirNamesIn = {}
  BY <1>4, Seen
<1>6. FilesIn = [x \in {} |-> 0]
  <2>1. FilesIn = FilesOf(disk, sb)
    BY Seen
  <2>2. FilesOf(disk, sb) = [x \in {} |-> 0]
    BY <1>4 DEF FilesOf
  <2> QED  BY <2>1, <2>2
<1>7. OpenedIn = [fd \in {} |-> 0]
  <2>1. OpenedIn = [fd \in Held |-> FdSeen(fd)]
    BY Seen
  <2> QED  BY <1>1, <2>1
<1>8. result = [op |-> "mkfs", fd |-> -1, value |-> 0]
  BY DEF Init
<1> QED  BY <1>2, <1>4, <1>5, <1>6, <1>7, <1>8 DEF FilesInv, Store_of_files!FSInit

(* What a descriptor in use is called with. *)
LEMMA DescriptorMaps ==
    ASSUME FilesInv, TypeInv', NEW fd \in Held,
           \/ sfs_close(fd) \/ sfs_remove(fd)
           \/ fdtable[fd].cur # fdtable[fd].inode.size /\ sfs_eof(fd)
           \/ \E m \in Moves, loc \in {"set", "cur"} : sfs_seek(fd, m, loc)
    PROVE  Store_of_files!FSNext /\ NamesOnce(disk', sb')
<1>1. fd \in DOMAIN OpenedIn
  BY OpenedIs
<1>2. CASE sfs_close(fd)
  BY <1>1, <1>2, CloseMaps DEF Store_of_files!FSNext
<1>3. CASE sfs_remove(fd)
  BY <1>1, <1>3, RemoveMaps DEF Store_of_files!FSNext
<1>4. CASE fdtable[fd].cur # fdtable[fd].inode.size /\ sfs_eof(fd)
  BY <1>1, <1>4, EofMaps DEF Store_of_files!FSNext
<1>5. ASSUME NEW m \in Moves, NEW loc \in {"set", "cur"}, sfs_seek(fd, m, loc)
      PROVE  Store_of_files!FSNext /\ NamesOnce(disk', sb')
  <2>1. Store_of_files!Seek(fd, m, loc) /\ NamesOnce(disk', sb')
    BY <1>5, SeekMaps
  <2>2. loc \in {"set", "cur", "end"}
    BY <1>5
  <2> QED  BY <1>1, <2>1, <2>2 DEF Store_of_files!FSNext
<1> QED  BY <1>2, <1>3, <1>4, <1>5

(* Each call of a careful caller is one of the file system without blocks. *)
LEMMA FilesStep ==
    ASSUME FilesInv, [Cardinality(Leaked) <= MaxLeaked /\ CarefulCalls]_vars
    PROVE  FilesInv' /\ [Store_of_files!FSNext]_(Store_of_files!fsvars)
<1> DEFINE Maps == NamesOnce(disk', sb') /\ Store_of_files!FSNext
<1>1. CarefulInv'
  <2>1. CarefulInv
    BY DEF FilesInv
  <2> QED  BY <2>1, CarefulStep
<1>2. TypeInv' /\ ~broken'
  BY <1>1 DEF CarefulInv, IInv
<1>3. CASE UNCHANGED vars
  <2>1. disk' = disk /\ sb' = sb /\ fdtable' = fdtable /\ result' = result
    BY <1>3 DEF vars
  <2>2. DirNamesIn' = DirNamesIn /\ FilesIn' = FilesIn /\ OpenedIn' = OpenedIn /\ NamesOnce(disk', sb')
    BY <2>1, NothingSeen
  <2>3. FilesInv'
    BY <1>1, <2>2 DEF FilesInv
  <2>4. UNCHANGED Store_of_files!fsvars
    BY <2>1, <2>2 DEF Store_of_files!fsvars
  <2> QED  BY <2>3, <2>4
<1>4. CASE CarefulCalls
  <2>1. ASSUME sfs_print_info \/ sfs_reloadfs \/ sfs_lsdir \/ sfs_ls PROVE Maps
    BY <2>1, InformMaps DEF Store_of_files!FSNext
  <2>2. ASSUME NEW d \in DirNames, Room(1), sfs_mkdir(d) PROVE Maps
    BY <1>2, <2>2, MkdirMaps DEF Store_of_files!FSNext
  <2>3. ASSUME NEW d \in DirNames, ~FirstOfMany(d), sfs_rmdir(d) PROVE Maps
    BY <1>2, <2>3, RmdirMaps DEF Store_of_files!FSNext
  <2>4. ASSUME NEW d \in DirNames, NEW f \in FileNames, sfs_open(d, f),
               NewFile(d, f) => Room(1) /\ LowestSlot(DirOf(d)) # -1
        PROVE  Maps
    BY <1>2, <2>4, OpenMaps DEF Store_of_files!FSNext
  <2>5. ASSUME NEW fd \in Held,
               \/ sfs_close(fd) \/ sfs_remove(fd)
               \/ fdtable[fd].cur # fdtable[fd].inode.size /\ sfs_eof(fd)
               \/ \E m \in Moves, loc \in {"set", "cur"} : sfs_seek(fd, m, loc)
        PROVE  Maps
    BY <1>2, <2>5, DescriptorMaps
  <2>6. ASSUME NEW fd \in Held, NEW buf \in Buffers, InFirstBlock(fd),
               EndOf(fd, Len(buf)) < SizeFor(fd, EndOf(fd, Len(buf))),
               Room(BlocksFor(NewFrames(fdtable[fd].inode, EndOf(fd, Len(buf))))),
               sfs_write(fd, buf)
        PROVE  Maps
    <3>1. NamesOnce(disk', sb')
      BY <1>2, <2>6, WriteSeen
    <3>2. FilesInv'
      BY <1>1, <3>1 DEF FilesInv
    <3>3. Store_of_files!Write(fd, buf)
      BY <2>6, <3>2, WriteMaps
    <3>4. fd \in DOMAIN OpenedIn
      BY OpenedIs
    <3> QED  BY <3>1, <3>3, <3>4 DEF Store_of_files!FSNext
  <2>7. ASSUME NEW fd \in Held, NEW n \in Lengths, InFirstBlock(fd),
               EndOf(fd, n) \in 1 .. fdtable[fd].inode.size - 1, sfs_read(fd, n)
        PROVE  Maps
    <3>1. Store_of_files!Read(fd, n) /\ NamesOnce(disk', sb')
      BY <2>7, ReadMaps
    <3>2. fd \in DOMAIN OpenedIn
      BY OpenedIs
    <3> QED  BY <3>1, <3>2 DEF Store_of_files!FSNext
  <2> HIDE DEF Maps
  <2>8. Maps
    BY <1>4, <2>1, <2>2, <2>3, <2>4, <2>5, <2>6, <2>7 DEF CarefulCalls
  <2> QED  BY <1>1, <2>8 DEF Maps, FilesInv
<1> QED  BY <1>3, <1>4

(* FilesAsPromised (fs.c): for careful callers every call does what a file *)
(* system without blocks would, however many blocks, directories, files    *)
(* and descriptors there are.                                              *)
THEOREM CarefulCallersGetFiles == CarefulSpec => FilesAsPromised
<1>1. Init => FilesInv /\ Store_of_files!FSInit
  BY FilesInit
<1>2. FilesInv /\ [Cardinality(Leaked) <= MaxLeaked /\ CarefulCalls]_vars
      => FilesInv' /\ [Store_of_files!FSNext]_(Store_of_files!fsvars)
  BY FilesStep
<1> QED  BY <1>1, <1>2, PTL DEF CarefulSpec, FilesAsPromised, Store_of_files!FSSpec
=============================================================================
