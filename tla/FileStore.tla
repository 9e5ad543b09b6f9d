------------------------------ MODULE FileStore ------------------------------
(***************************************************************************)
(* What a file system promises its caller: directories, files with their   *)
(* bytes, and descriptors with a cursor.  There are no blocks, no inodes   *)
(* and no map here.  A file may grow further than a write needs; what the  *)
(* bytes that nobody wrote are is left open.                               *)
(***************************************************************************)
EXTENDS Integers, Sequences, FiniteSets, Functions

CONSTANTS
    DirNames, FileNames,
    Bytes,
    Fds,                        \* the descriptors
    Buffers, Lengths, Moves     \* what callers write, how much they read, how far they seek

VARIABLES
    dirs,       \* the names of the directories
    files,      \* <<directory, file>> -> offset -> byte
    opened,     \* descriptor -> its file and its cursor
    answer      \* the last call, its descriptor and what it answered

fsvars == <<dirs, files, opened, answer>>

Update(f, x, y) == [z \in DOMAIN f \cup {x} |-> IF z = x THEN y ELSE f[z]]
Drop(f, x) == Restrict(f, DOMAIN f \ {x})
Size(content) == Cardinality(DOMAIN content)
Least(i, j) == IF i < j THEN i ELSE j
Most(i, j) == IF i > j THEN i ELSE j

Answer(op, fd, value) == answer' = [op |-> op, fd |-> fd, value |-> value]
Refuse(op) == Answer(op, -1, -1) /\ UNCHANGED <<dirs, files, opened>>
File(fd) == opened[fd].file
Cursor(fd) == opened[fd].cur
Advance(fd, n) == opened' = [opened EXCEPT ![fd].cur = @ + n]
-----------------------------------------------------------------------------
MkDir(d) ==
    \/ Refuse("mkdir") /\ d \in dirs
    \/ Answer("mkdir", -1, 0) /\ d \notin dirs /\ dirs' = dirs \cup {d} /\ UNCHANGED <<files, opened>>

HasFiles(d) == \E x \in DOMAIN files : x[1] = d
RmDir(d) ==
    \/ Refuse("rmdir") /\ (d \notin dirs \/ HasFiles(d))
    \/ /\ Answer("rmdir", -1, 0) /\ d \in dirs /\ ~HasFiles(d)
       /\ dirs' = dirs \ {d} /\ UNCHANGED <<files, opened>>

Open(d, f) ==
    \/ Refuse("open") /\ (d \notin dirs \/ Fds \subseteq DOMAIN opened)
    \/ /\ \E fd \in Fds :
             /\ Answer("open", fd, fd) /\ d \in dirs /\ fd \notin DOMAIN opened
             /\ opened' = Update(opened, fd, [file |-> <<d, f>>, cur |-> 0])
       /\ files' = IF <<d, f>> \in DOMAIN files THEN files
                   ELSE Update(files, <<d, f>>, [p \in {} |-> 0])
       /\ UNCHANGED dirs

Close(fd) == Answer("close", fd, 0) /\ opened' = Drop(opened, fd) /\ UNCHANGED <<dirs, files>>

Remove(fd) ==
    /\ Answer("remove", fd, 0)
    /\ files' = Drop(files, File(fd)) /\ opened' = Drop(opened, fd) /\ UNCHANGED dirs

Write(fd, buf) ==
    LET from == Cursor(fd)
        to == from + Len(buf)
        before == files
        after == files'
        old == before[File(fd)]
        new == after[File(fd)]
    IN  /\ Answer("write", fd, Len(buf))
        /\ Drop(after, File(fd)) = Drop(before, File(fd)) /\ DOMAIN after = DOMAIN before
        /\ DOMAIN new = 0 .. Size(new) - 1
        /\ IF to <= Size(old) THEN Size(new) = Size(old) ELSE Size(new) >= to
        /\ \A p \in DOMAIN new :
              CASE p \in from .. to - 1 -> new[p] = buf[p - from + 1]
                [] p \notin from .. to - 1 /\ p \in DOMAIN old -> new[p] = old[p]
                [] OTHER -> new[p] \in Bytes
        /\ Advance(fd, Len(buf)) /\ UNCHANGED dirs

Read(fd, n) ==
    LET content == files[File(fd)]
        m == Most(0, Least(n, Size(content) - Cursor(fd)))
    IN  /\ Answer("read", fd, [i \in 1 .. m |-> content[Cursor(fd) + i - 1]])
        /\ Advance(fd, m) /\ UNCHANGED <<dirs, files>>

Seek(fd, relative, loc) ==
    LET start == CASE loc = "set" -> 0
                   [] loc = "cur" -> Cursor(fd)
                   [] loc = "end" -> Size(files[File(fd)])
    IN  /\ Answer("seek", fd, 0)
        /\ opened' = [opened EXCEPT ![fd].cur = start + relative] /\ UNCHANGED <<dirs, files>>

Eof(fd) ==
    /\ Answer("eof", fd, IF Cursor(fd) >= Size(files[File(fd)]) THEN 1 ELSE 0)
    /\ UNCHANGED <<dirs, files, opened>>

LsDir == Answer("lsdir", -1, Cardinality(dirs)) /\ UNCHANGED <<dirs, files, opened>>
Ls == Answer("ls", -1, Cardinality(DOMAIN files)) /\ UNCHANGED <<dirs, files, opened>>
(* What is printed of the storage, and reading it anew, says nothing here. *)
Inform == answer'.op \in {"print_info", "reloadfs"} /\ UNCHANGED <<dirs, files, opened>>
-----------------------------------------------------------------------------
FSInit ==
    /\ dirs = {} /\ files = [x \in {} |-> 0] /\ opened = [fd \in {} |-> 0]
    /\ answer = [op |-> "mkfs", fd |-> -1, value |-> 0]

FSNext ==
    \/ LsDir \/ Ls \/ Inform
    \/ \E d \in DirNames : MkDir(d) \/ RmDir(d)
    \/ \E d \in DirNames, f \in FileNames : Open(d, f)
    \/ \E fd \in DOMAIN opened :
          \/ Close(fd) \/ Remove(fd) \/ Eof(fd)
          \/ \E buf \in Buffers : Write(fd, buf)
          \/ \E n \in Lengths : Read(fd, n)
          \/ \E m \in Moves, loc \in {"set", "cur", "end"} : Seek(fd, m, loc)

FSSpec == FSInit /\ [][FSNext]_fsvars
=============================================================================
