----------------------------- MODULE Emulation -----------------------------
(***************************************************************************)
(* The system calls as a Linux host gives them to the user programs, for   *)
(* trying these out without the kernel (ece391emulate.c): most are passed  *)
(* on, but a directory is a stream of the C library beside a descriptor of *)
(* /dev/null, and the emulation remembers one such pair.  Linux is         *)
(* modelled from how it is used: it gives the lowest descriptor that is    *)
(* free.  How command lines, arguments and names are cut is in Library.    *)
(***************************************************************************)
EXTENDS Integers, Sequences

CONSTANTS
    OPEN_MAX,    \* descriptors Linux gives a process
    Entries,     \* the names in the directory
    HostFiles,   \* files that can be opened
    NULL         \* no stream

\* What descriptors are open on besides files has names of its own.
ASSUME NamesAssumption ==
    /\ OPEN_MAX \in Nat
    /\ Entries \in Seq(STRING) /\ NULL \notin Seq(STRING)
    /\ HostFiles \cap {"free", "stream", "/dev/null", "."} = {}

NoDescriptor == -1

VARIABLES
    linux,      \* Linux's table: descriptor -> what it is open on
    dir,        \* NULL, or what the stream has still to give
    stream,     \* the descriptor the stream uses
    dir_fd,
    mem_fd,     \* vidmap's
    open_on,    \* ghost: what the program has opened and not closed
    owed,       \* ghost: what the directory among it has still to give
    twice       \* ghost: it has had two directories open at once

hostVars == <<linux, dir, stream, dir_fd, mem_fd, open_on, owed, twice>>

Fds == 0 .. OPEN_MAX - 1

-----------------------------------------------------------------------------
\* Linux's side of the calls: a descriptor, or -1 for any of its errors.
FreeFds(table) == {fd \in Fds : table[fd] = "free"}
Lowest(table) ==
    IF FreeFds(table) = {} THEN NoDescriptor
    ELSE CHOOSE fd \in FreeFds(table) : \A g \in FreeFds(table) : fd <= g
Taken(table, what) ==
    IF FreeFds(table) = {} THEN table ELSE [table EXCEPT ![Lowest(table)] = what]
__ece391_close(table, fd) ==
    IF fd \in Fds THEN [table EXCEPT ![fd] = "free"] ELSE table
__ece391_read(fd) ==
    CASE fd \notin Fds \/ linux[fd] \in {"free", "stream"} -> "error"
      [] linux[fd] = "/dev/null" -> "end"
      [] OTHER -> linux[fd]

-----------------------------------------------------------------------------
IsDirectory(fd) == dir # NULL /\ dir_fd = fd

\* What a read gives: a name in the directory, bytes of a file, or nothing.
Gives(fd) ==
    IF ~IsDirectory(fd) THEN __ece391_read(fd)
    ELSE IF dir = <<>> THEN "end" ELSE Head(dir)

HostInit ==
    /\ linux = [fd \in Fds |-> IF fd < 3 THEN "terminal" ELSE "free"]
    /\ dir = NULL /\ stream = NoDescriptor
    /\ dir_fd = NoDescriptor /\ mem_fd = NoDescriptor
    /\ open_on = <<>> /\ owed = <<>> /\ twice = FALSE

Opened(fd, filename) ==
    open_on' = IF fd = NoDescriptor THEN open_on
               ELSE [g \in DOMAIN open_on \cup {fd} |->
                        IF g = fd THEN filename ELSE open_on[g]]

\* A stream that was there before is forgotten, and stays open.
open_directory ==
    LET with == Taken(linux, "stream") IN
    /\ dir' = IF FreeFds(linux) = {} THEN NULL ELSE Entries
    /\ stream' = Lowest(linux)
    /\ dir_fd' = Lowest(with)
    /\ linux' = Taken(with, "/dev/null")
    /\ Opened(Lowest(with), ".")
    /\ owed' = Entries
    /\ twice' = (twice \/ \E fd \in DOMAIN open_on : open_on[fd] = ".")
    /\ UNCHANGED mem_fd

open(filename) ==
    /\ IF filename \in HostFiles
         THEN linux' = Taken(linux, filename) /\ Opened(Lowest(linux), filename)
         ELSE UNCHANGED <<linux, open_on>>
    /\ UNCHANGED <<dir, stream, dir_fd, mem_fd, owed, twice>>

read(fd) ==
    /\ dir' = IF IsDirectory(fd) /\ dir # <<>> THEN Tail(dir) ELSE dir
    /\ owed' = IF open_on[fd] = "." /\ owed # <<>> THEN Tail(owed) ELSE owed
    /\ UNCHANGED <<linux, stream, dir_fd, mem_fd, open_on, twice>>

Closed(fd) ==
    /\ open_on' = [g \in DOMAIN open_on \ {fd} |-> open_on[g]]
    /\ UNCHANGED <<stream, mem_fd, owed, twice>>

\* Mutant of close: the pair is not forgotten.
close_keeps_pair(fd) ==
    /\ linux' = __ece391_close(IF IsDirectory(fd) THEN __ece391_close(linux, stream)
                               ELSE linux, fd)
    /\ UNCHANGED <<dir, dir_fd>>
    /\ Closed(fd)

close(fd) ==
    /\ IF ~IsDirectory(fd)
         THEN linux' = __ece391_close(linux, fd) /\ UNCHANGED <<dir, dir_fd>>
         ELSE /\ linux' = __ece391_close(__ece391_close(linux, stream), dir_fd)
              /\ dir' = NULL
              /\ dir_fd' = NoDescriptor
    /\ Closed(fd)

\* The descriptor of /dev/mem is kept for the next call.
vidmap ==
    /\ mem_fd = NoDescriptor
    /\ mem_fd' = Lowest(linux)
    /\ linux' = Taken(linux, "/dev/mem")
    /\ UNCHANGED <<dir, stream, dir_fd, open_on, owed, twice>>

\* A program reads and closes what it has opened.  Writes change nothing here.
HostNext ==
    \/ open_directory \/ vidmap
    \/ \E filename \in HostFiles : open(filename)
    \/ \E fd \in DOMAIN open_on : read(fd) \/ close(fd)

HostSpec == HostInit /\ [][HostNext]_hostVars

-----------------------------------------------------------------------------
\* As long as a program has one directory open at a time, every descriptor
\* gives what was opened by its name: the directory's the names it has not given
\* yet and then the end, a file's that file.  The pair of stream and descriptor
\* must not outlive its directory, as Linux gives its numbers away again.
DirectoryIsRead ==
    ~twice =>
        \A fd \in DOMAIN open_on :
            Gives(fd) = IF open_on[fd] # "." THEN open_on[fd]
                        ELSE IF owed = <<>> THEN "end" ELSE Head(owed)
=============================================================================
