-------------------------- MODULE FileDescriptors --------------------------
(***************************************************************************)
(* The file descriptor tables of the process control blocks and the system *)
(* calls on them (system_call.c), down to the handlers of filesys.c that   *)
(* the tables lead to.                                                     *)
(*                                                                         *)
(* Process number n has the PCB get_pcb(n); the running one is the last,   *)
(* number process_count.  A PCB is reused by every process of its number:  *)
(* execute sets up descriptors 0 and 1 and relies on halt for the others.  *)
(*                                                                         *)
(* A call is one action.  It may be interrupted, and the timer may launch  *)
(* a shell in the middle of it, but that shell has a PCB of its own and    *)
(* the call goes on, if ever, after it is gone (module Processes).         *)
(***************************************************************************)
EXTENDS FileSystem

CONSTANTS
    MAXPROCESS,   \* 6
    SHELLS,       \* processes up to this number are restarted: 3
    FILENUM,      \* descriptors of a process: 8
    FDSTART,      \* the first that open gives: 2
    Names,        \* the names programs open
    Requests      \* the numbers of bytes they read at a time

ASSUME DescriptorAssumption ==
    /\ MAXPROCESS \in Nat \ {0}
    /\ SHELLS \in 0 .. MAXPROCESS
    /\ FDSTART = 2
    /\ FILENUM \in Nat /\ FILENUM > FDSTART
    /\ Requests \subseteq 1 .. UNSIGNED - 1 /\ Requests # {}
    /\ NoName \notin Names   \* open refuses the empty name

Pids == 1 .. MAXPROCESS
Fds == 0 .. FILENUM - 1
FilesOf == FDSTART .. FILENUM - 1

\* The jump tables; function_table is indexed by the type of a file.
function_table == <<"rtc", "dir", "file">>
SysCalls == {"null", "stdin", "stdout", "rtc", "dir", "file"}

VARIABLES
    process_count,
    fdArr,     \* per process number and descriptor: fd_t
    buf        \* what the last call gave the program

vars == <<process_count, fdArr, buf>>

Fd == [sys_calls : SysCalls, inode : Int, filePosition : Nat, flags : 0 .. 1]

\* A PCB no process has used yet is memory that still reads as zero.
Unused == [sys_calls |-> "null", inode |-> 0, filePosition |-> 0, flags |-> 0]

Init ==
    /\ process_count = 0
    /\ fdArr = [n \in Pids |-> [fd \in Fds |-> Unused]]
    /\ buf = <<>>

Current == fdArr[process_count]
IsOpen(fd) == Current[fd].flags = 1
Change(fd, entry) ==
    fdArr' = [fdArr EXCEPT ![process_count][fd] = entry]

-----------------------------------------------------------------------------
\* execute, 277-280
StdStreams(table) ==
    [table EXCEPT ![0].sys_calls = "stdin", ![0].flags = 1,
                  ![1].sys_calls = "stdout", ![1].flags = 1]

\* Mutant of Launch: the limit is compared with > (line 154).
LaunchOneTooMany ==
    /\ process_count <= MAXPROCESS
    /\ process_count' = process_count + 1
    /\ fdArr' = [fdArr EXCEPT ![process_count + 1] = StdStreams(@)]
    /\ buf' = <<>>

Launch ==
    /\ process_count < MAXPROCESS
    /\ process_count' = process_count + 1
    /\ fdArr' = [fdArr EXCEPT ![process_count + 1] = StdStreams(@)]
    /\ buf' = <<>>

\* halt, 66-72, for descriptor fd; close(fd) finds flags = 0 and does nothing.
Cleared == [sys_calls |-> "null", inode |-> -1, filePosition |-> 0, flags |-> 0]

ClearFiles(table) ==
    [fd \in Fds |-> IF fd \in FilesOf THEN Cleared ELSE table[fd]]

\* Mutant of Halt: process_count is decremented first, as it is before the
\* shell of line 91 is started, and get_pcb finds the parent.
HaltClearsParent ==
    /\ process_count > SHELLS
    /\ process_count' = process_count - 1
    /\ fdArr' = IF process_count = 1 THEN fdArr
                ELSE [fdArr EXCEPT ![process_count - 1] = ClearFiles(@)]
    /\ buf' = <<>>

Halt ==
    /\ process_count > SHELLS
    /\ process_count' = process_count - 1
    /\ fdArr' = [fdArr EXCEPT ![process_count] = ClearFiles(@)]
    /\ buf' = <<>>

\* 89-92: a shell that exits is replaced by a new one in the same PCB.
HaltShell ==
    /\ process_count \in 1 .. SHELLS
    /\ fdArr' = [fdArr EXCEPT ![process_count] = StdStreams(ClearFiles(@))]
    /\ buf' = <<>>
    /\ UNCHANGED process_count

-----------------------------------------------------------------------------
FreeFds == {fd \in FilesOf : ~IsOpen(fd)}

Opened(entry) ==
    [sys_calls |-> function_table[entry.fileType + 1],
     inode |-> entry.iNodeNumber, filePosition |-> 0, flags |-> 1]

\* Mutant of Open: filePosition is left as it was.
OpenKeepsPosition(filename) ==
    /\ process_count > 0
    /\ FreeFds # {} /\ Matches(filename) # {}
    /\ LET fd == CHOOSE fd \in FreeFds : \A g \in FreeFds : fd <= g
           entry == dirEntries[FirstMatch(filename)]
       IN  Change(fd, [Opened(entry) EXCEPT !.filePosition =
                                                  Current[fd].filePosition])
    /\ buf' = <<>>
    /\ UNCHANGED process_count

\* Mutant of Open: sys_calls is left as it was.
OpenKeepsCalls(filename) ==
    /\ process_count > 0
    /\ FreeFds # {} /\ Matches(filename) # {}
    /\ LET fd == CHOOSE fd \in FreeFds : \A g \in FreeFds : fd <= g
           entry == dirEntries[FirstMatch(filename)]
       IN  Change(fd, [Opened(entry) EXCEPT !.sys_calls =
                                                  Current[fd].sys_calls])
    /\ buf' = <<>>
    /\ UNCHANGED process_count

\* open, where it succeeds: the lowest free descriptor is taken.  The handler
\* of the jump table is not called.
Open(filename) ==
    /\ process_count > 0
    /\ FreeFds # {} /\ Matches(filename) # {}
    /\ LET fd == CHOOSE fd \in FreeFds : \A g \in FreeFds : fd <= g
           entry == dirEntries[FirstMatch(filename)]
       IN  Change(fd, Opened(entry))
    /\ buf' = <<>>
    /\ UNCHANGED process_count

\* close: only flags is reset.  Descriptors 0 and 1 are refused (423-426).
Close(fd) ==
    /\ process_count > 0
    /\ fd \in FilesOf /\ IsOpen(fd)
    /\ Change(fd, [Current[fd] EXCEPT !.flags = 0])
    /\ buf' = <<>>
    /\ UNCHANGED process_count

\* read and readFile
ReadFile(fd, nbytes) ==
    /\ process_count > 0
    /\ fd \in FilesOf /\ IsOpen(fd) /\ Current[fd].sys_calls = "file"
    /\ LET bytes == read_data(Current[fd].inode, Current[fd].filePosition,
                              nbytes)
       IN  /\ buf' = bytes
           /\ Change(fd, [Current[fd] EXCEPT !.filePosition = @ + Len(bytes)])
    /\ UNCHANGED process_count

\* read and readDirectory: the next name.  A program asks for the 32 bytes a
\* name has, as ls and grep do; that the name is cut to nbytes, and its length
\* taken by strlen and cut to 32 (207-213), is left out.  Nothing in the code
\* stops the position at the last entry; programs stop at the first empty
\* name, and here they stop at the end of the array at the latest.
ReadDirectory(fd) ==
    /\ process_count > 0
    /\ fd \in FilesOf /\ IsOpen(fd) /\ Current[fd].sys_calls = "dir"
    /\ LET directory_index == Current[fd].filePosition IN
         /\ directory_index < SIXTYTHREE
         /\ Change(fd, [Current[fd] EXCEPT !.filePosition = @ + 1])
         /\ LET name == dirEntries[directory_index].fileName
            IN  buf' = IF name = NoName THEN <<>> ELSE <<name>>
    /\ UNCHANGED process_count

\* All other calls change nothing here: those that are refused, writes to
\* files and directories, and those on the rtc and the terminal.
OtherCall ==
    /\ process_count > 0
    /\ buf' = <<>>
    /\ UNCHANGED <<process_count, fdArr>>

Next ==
    \/ Launch \/ Halt \/ HaltShell \/ OtherCall
    \/ \E filename \in Names : Open(filename)
    \/ \E fd \in Fds : Close(fd) \/ ReadDirectory(fd)
    \/ \E fd \in Fds, nbytes \in Requests : ReadFile(fd, nbytes)

Spec == Init /\ [][Next]_vars

-----------------------------------------------------------------------------
\* Descriptors are fd_t values whatever the calls before; a read gives bytes of
\* the image or a name.
TypeOK ==
    /\ process_count \in 0 .. MAXPROCESS
    /\ fdArr \in [Pids -> [Fds -> Fd]]
    /\ buf \in Seq(Bytes \cup FileNames)

\* No process is born with files that another one opened: between two
\* processes of one number, whatever the first did, nothing is open
\* (err_unopened in syserr.c reads descriptors it never opened).
DeadTablesClosed ==
    \A n \in Pids : n > process_count =>
        \A fd \in FilesOf : fdArr[n][fd].flags = 0

\* read and write call through sys_calls of any descriptor with flags set,
\* which halt sets to NULL: they never find NULL there.
CallsAreSet ==
    \A n \in 1 .. process_count, fd \in Fds :
        fdArr[n][fd].flags = 1 => fdArr[n][fd].sys_calls # "null"

\* The position never passes the end of the file, where the size minus the
\* position would wrap to some 4 GB to be copied.
PositionWithinFile ==
    \A n \in Pids, fd \in FilesOf :
        LET f == fdArr[n][fd] IN
        f.sys_calls = "file" => f.filePosition <= iNodes[f.inode].size

\* read_data on its own: whatever blocks the bytes asked for begin and end in,
\* they are those of the file, up to its end.  As no call changes the image,
\* it is enough to look before the first process.
ReadDataReads ==
    process_count = 0 => \A inode \in DOMAIN iNodes :
        \A offset \in 0 .. iNodes[inode].size, length \in 0 .. UNSIGNED - 1 :
            read_data(inode, offset, length) =
                SubSeq(Content[inode], offset + 1,
                       IF offset + length > iNodes[inode].size
                         THEN iNodes[inode].size ELSE offset + length)

\* What is left to read of an open file or directory.
Rest(f) ==
    LET all == CASE f.sys_calls = "file" -> Content[f.inode]
                 [] f.sys_calls = "dir" -> Listing
                 [] OTHER -> <<>>
    IN  SubSeq(all, f.filePosition + 1, Len(all))

StreamContents ==
    [name \in {m \in Names : Matches(m) # {}} |->
        Rest(Opened(dirEntries[FirstMatch(name)]))]

StreamsOf(table) ==
    [fd \in {g \in FilesOf : table[g].flags = 1} |-> Rest(table[fd])]
AllStreams == [n \in 1 .. process_count |-> StreamsOf(fdArr[n])]

Streams == INSTANCE FileStreams WITH
    Contents <- StreamContents, tables <- AllStreams, Fds <- FilesOf,
    given <- buf

\* Whatever is open on whatever blocks, each descriptor of each process is a
\* stream of its own that gives a file byte by byte or a directory name by
\* name, from the beginning, in order, once; calls of a process leave the
\* streams of its ancestors alone; and a process starts with none.
AreStreams == Streams!StreamsSpec

=============================================================================
