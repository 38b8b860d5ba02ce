---------------------------- MODULE SystemCalls ----------------------------
(***************************************************************************)
(* The checks a system call makes before it does anything: the range of    *)
(* call numbers in system_call_linkage, and the descriptors, names and     *)
(* pointers that read, write, open, close and vidmap refuse.  The kernel   *)
(* is driven by syserr, the program that comes with it to test just this   *)
(* (ece391syserr.c): each of its calls is one action.  What a call does    *)
(* with what it accepts is in module FileDescriptors.                      *)
(***************************************************************************)
EXTENDS Integers, Sequences, SequencesExt

CONSTANTS
    SEV,         \* the last descriptor: 7
    FDSTART,     \* the first that open gives: 2
    Existing,    \* names in the file system
    LARGE        \* BIG_FD and BIG_NUM: 1073741823

Fds == 0 .. SEV

VARIABLES
    opened,   \* per descriptor, flags of its fd_t
    script,   \* the calls syserr has still to make
    failed,   \* its tests that have failed
    cnt       \* opens that have failed in err_open_lots

svars == <<opened, script, failed, cnt>>

-----------------------------------------------------------------------------
\* The system calls: what they return, 0 for any number of bytes, and the
\* descriptors they leave.
Refused(table) == [ret |-> -1, table |-> table]

read(table, fd) ==
    IF fd \notin Fds \/ fd = 1 THEN Refused(table)
    ELSE [ret |-> IF table[fd] THEN 0 ELSE -1, table |-> table]

\* what is open is the screen, or a file or directory, which takes no bytes
writeFile == -1
write(table, fd) ==
    IF fd \notin Fds \/ fd = 0 \/ ~table[fd] THEN Refused(table)
    ELSE [ret |-> IF fd = 1 THEN 0 ELSE writeFile, table |-> table]

\* the first that is free; the name is looked up only then
open(table, name) ==
    LET free == {fd \in FDSTART .. SEV : ~table[fd]} IN
    IF name = "" \/ free = {} \/ name \notin Existing THEN Refused(table)
    ELSE LET fd == CHOOSE f \in free : \A g \in free : f <= g
         IN  [ret |-> fd, table |-> [table EXCEPT ![fd] = TRUE]]

\* Mutant of close: descriptor 0 is not taken for a missing one (line 423).
close_stdin(table, fd) ==
    IF fd \notin Fds \/ fd = 1 THEN Refused(table)
    ELSE IF ~table[fd] THEN Refused(table)
    ELSE [ret |-> 0, table |-> [table EXCEPT ![fd] = FALSE]]

close(table, fd) ==
    IF fd = 0 \/ fd \notin Fds \/ fd = 1 THEN Refused(table)
    ELSE IF ~table[fd] THEN Refused(table)
    ELSE [ret |-> 0, table |-> [table EXCEPT ![fd] = FALSE]]

\* the address in megabytes: the program's page goes from 128 to 132
vidmap(table, screen_start) ==
    IF screen_start < 128 \/ screen_start > 132 THEN Refused(table)
    ELSE [ret |-> 0, table |-> table]

\* set_handler and sigreturn
Always0(table) == [ret |-> 0, table |-> table]

\* system_call_linkage: the signed number in EAX leads into the jump table.
\* syserr makes no call of halt, execute and getargs (1, 2 and 7) but the
\* halt at its end.
Dispatch(table, eax, ebx) ==
    CASE eax < 1 \/ eax > 10 -> Refused(table)
      [] eax = 3 -> read(table, ebx)
      [] eax = 4 -> write(table, ebx)
      [] eax = 5 -> open(table, ebx)
      [] eax = 6 -> close(table, ebx)
      [] eax = 8 -> vidmap(table, ebx)
      [] eax \in {9, 10} -> Always0(table)

-----------------------------------------------------------------------------
\* syserr's tests: their calls, all of which should fail but those of
\* err_open_lots, the third, of which one should.
Call(test, eax, ebx) == [test |-> test, eax |-> eax, ebx |-> ebx]
\* any number; EBX is left as it happens to be
call_sys(test, num) == Call(test, num, 0)
ForAll(test, eax, fds) == [k \in 1 .. Len(fds) |-> Call(test, eax, fds[k])]
From(first) == [k \in 1 .. SEV + 1 - first |-> first + k - 1]

BadFd(test, fd) == <<Call(test, 3, fd), Call(test, 4, fd), Call(test, 6, fd)>>

err_neg_fd == BadFd(1, -LARGE)
err_big_fd == BadFd(2, LARGE)
err_open_lots ==
    ForAll(3, 5, [k \in 1 .. SEV |-> "."]) \o ForAll(3, 6, From(FDSTART))
err_open == ForAll(4, 5, <<"helloo", "shel", "">>)
err_unopened ==
    ForAll(5, 6, From(0)) \o ForAll(5, 3, From(FDSTART))
        \o ForAll(5, 4, From(FDSTART))
err_vidmap == ForAll(6, 8, <<0, 4>>)
err_stdin_out == <<Call(7, 4, 0), Call(7, 3, 1)>>
err_syscall_num == <<call_sys(8, LARGE), call_sys(8, -LARGE), call_sys(8, 0)>>

Tests == <<err_neg_fd, err_big_fd, err_open_lots, err_open, err_unopened,
           err_vidmap, err_stdin_out, err_syscall_num>>

\* main: a test number, or 0 for all of them
Main(select) == IF select = 0 THEN FlattenSeq(Tests) ELSE Tests[select]

\* A process starts with its first two descriptors open.
Init ==
    /\ opened = [fd \in Fds |-> fd < FDSTART]
    /\ \E select \in 0 .. Len(Tests) : script = Main(select)
    /\ failed = {} /\ cnt = 0

\* err_open_lots counts, and judges when it has closed its descriptors.
Step ==
    /\ script # <<>>
    /\ LET call == Head(script)
           result == Dispatch(opened, call.eax, call.ebx)
           last == Len(script) = 1 \/ script[2].test # 3
       IN  /\ opened' = result.table
           /\ cnt' = IF call.test = 3 /\ call.eax = 5 /\ result.ret = -1
                       THEN cnt + 1 ELSE cnt
           /\ failed' = IF call.test = 3
                          THEN IF last /\ cnt # 1 THEN failed \cup {3} ELSE failed
                          ELSE IF result.ret # -1 THEN failed \cup {call.test}
                               ELSE failed
    /\ script' = Tail(script)

Next == Step

-----------------------------------------------------------------------------
\* "prints [TEST_NAME]: PASS if behavior is EXPECTED" (ece391syserr.c): every
\* test of syserr passes on this kernel, alone or after the others, whose
\* descriptors it finds closed; and at the end the process can still read
\* its keyboard and write to its screen.
SyserrPasses ==
    script = <<>> =>
        /\ failed = {}
        /\ \A fd \in Fds : opened[fd] = (fd < FDSTART)
=============================================================================
