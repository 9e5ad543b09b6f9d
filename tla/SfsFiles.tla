------------------------------ MODULE SfsFiles ------------------------------
(***************************************************************************)
(* Sfs as careful callers use it, and the files they see.  A careful       *)
(* caller knows the limits that BreaksAreExplained of Sfs names: it calls  *)
(* only while there are blocks for what it asks, opens a file once at a    *)
(* time, does not remove the first directory while there are others,       *)
(* starts a transfer in the first block of a file and ends it before the   *)
(* end, does not read nothing at the very start, seeks from the beginning  *)
(* or from the cursor, and does not ask for the end of a file when it is   *)
(* right there.                                                            *)
(***************************************************************************)
EXTENDS Sfs

Room(n) == Cardinality(FreeBlocks) >= n
IsOpen(d, f) ==
    \E fd \in Held : fdtable[fd].dir_bid = DirOf(d) /\ fdtable[fd].inode.file_name = f
NewFile(d, f) == DirOf(d) # 0 /\ InodeOf(DirOf(d), f) = 0
FirstOfMany(d) == DirOf(d) = sb /\ Cardinality(Dirs) > 1
InFirstBlock(fd) == fdtable[fd].cur < BlockSize
SizeFor(fd, end) ==
    fdtable[fd].inode.size + FrameSize * NewFrames(fdtable[fd].inode, end)
EndOf(fd, n) == fdtable[fd].cur + n

CarefulCalls ==
    \/ sfs_print_info \/ sfs_reloadfs \/ sfs_lsdir \/ sfs_ls
    \/ \E d \in DirNames :
          \/ Room(1) /\ sfs_mkdir(d)
          \/ ~FirstOfMany(d) /\ sfs_rmdir(d)
    \/ \E d \in DirNames, f \in FileNames :
          /\ ~IsOpen(d, f)
          /\ NewFile(d, f) => Room(1) /\ LowestSlot(DirOf(d)) # -1
          /\ sfs_open(d, f)
    \/ \E fd \in Held :
          \/ sfs_close(fd) \/ sfs_remove(fd)
          \/ fdtable[fd].cur # fdtable[fd].inode.size /\ sfs_eof(fd)
          \/ \E buf \in Buffers :
                /\ InFirstBlock(fd) /\ EndOf(fd, Len(buf)) < SizeFor(fd, EndOf(fd, Len(buf)))
                /\ Room(BlocksFor(NewFrames(fdtable[fd].inode, EndOf(fd, Len(buf)))))
                /\ sfs_write(fd, buf)
          \/ \E n \in Lengths :
                InFirstBlock(fd) /\ EndOf(fd, n) \in 1 .. fdtable[fd].inode.size - 1 /\ sfs_read(fd, n)
          \/ \E m \in Moves, loc \in {"set", "cur"} : sfs_seek(fd, m, loc)

CarefulSpec == Init /\ [][Cardinality(Leaked) <= MaxLeaked /\ CarefulCalls]_vars
-----------------------------------------------------------------------------
(* The files in the blocks. *)
DirNamesIn == {disk[d].dir_name : d \in Dirs}
FileNamesIn ==
    UNION {{<<disk[d].dir_name, disk[n].file_name>> : n \in InodesOf(d)} : d \in Dirs}
ContentOf(n) ==
    LET frames == Listing(disk, disk[n].first_frame)
        Frame_at(p) == disk[frames[p \div FrameSize + 1]]
        Block_at(p) == disk[Frame_at(p).content[(p \div BlockSize) % FrameCount]]
    IN  [p \in 0 .. disk[n].size - 1 |-> ByteOf(Block_at(p), p % BlockSize)]
FilesIn == [x \in FileNamesIn |-> ContentOf(InodeOf(DirOf(x[1]), x[2]))]
OpenedIn ==
    [fd \in Held |->
        [file |-> <<disk[fdtable[fd].dir_bid].dir_name, disk[fdtable[fd].inode_bid].file_name>>,
         cur |-> fdtable[fd].cur]]

Store_of_files ==
    INSTANCE FileStore WITH dirs <- DirNamesIn, files <- FilesIn, opened <- OpenedIn,
                            answer <- result

(* FilesAsPromised: for careful callers every call does what a file system *)
(* without blocks would: a read answers the bytes last written there, and  *)
(* no call on one file or directory changes another.                       *)
FilesAsPromised == Store_of_files!FSSpec

(* NothingBreaks: careful callers never make a call go astray, and the     *)
(* tree they work on stays intact.                                         *)
NothingBreaks == ~broken /\ Intact
=============================================================================
