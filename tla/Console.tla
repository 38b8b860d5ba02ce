------------------------------ MODULE Console ------------------------------
(***************************************************************************)
(* The user programs at their terminals: what the shell and the programs   *)
(* it starts (src/syscalls) do from one system call to the next, which     *)
(* argument they get, to which terminal their output goes                  *)
(* (terminal_write), which pages they can reach, and what an exception     *)
(* does (idt.c).                                                           *)
(*                                                                         *)
(* A system call is one action here, and the timer launches its shells     *)
(* between two of them; that they may also come in the middle of execute   *)
(* and halt is the matter of module Processes.  The user switches          *)
(* terminals at any moment, and types once the shells are up (the timer    *)
(* needs 60 ms).                                                           *)
(***************************************************************************)
EXTENDS Sequences, Front

CONSTANTS
    MAXPROCESS,        \* 6
    MAX_SHELL_COUNT,   \* the timer launches one shell more than this: 2
    Lines,             \* what the user may type: [name, arg]
    LongArguments      \* arguments that do not fit args[96]

Pids == 1 .. MAXPROCESS
NoArgument == ""
VIDEO == <<"video memory">>

\* Each terminal has a shell of its own, and each shell a process.
ASSUME SizesAssumption ==
    /\ MAX_SHELL_COUNT \in Nat /\ MAXPROCESS \in Nat
    /\ termsize <= MAX_SHELL_COUNT + 2 /\ MAX_SHELL_COUNT + 2 <= MAXPROCESS
    /\ NoArgument \notin LongArguments

NotTyped == [name |-> "nothing", arg |-> NoArgument]

VARIABLES
    procs,             \* the processes, the running one last
    terminalID, args,  \* fields of the PCBs, by process number
    cur_pcb,           \* per terminal
    execute_terminal,
    flag,              \* flag1, flag2, flag3
    shell_count,
    page_directory,    \* the 4 MB regions of the address space
    panic,             \* the exception whose handler spins, or "none"
    out,               \* where the last write went, -1 if that was no write
    got,               \* what the last call, if getargs, gave
    asked,             \* where the last command was typed
    reached            \* it was executed there, as a process without a
                       \* terminal of its own

cvars == <<procs, terminalID, args, cur_pcb, cur_terminal, execute_terminal,
           flag, shell_count, page_directory, panic, out, got, asked, reached>>
pcbs == <<terminalID, args, cur_pcb>>
ghosts == <<asked, reached>>

\* What the programs do, call by call.  A "quiet" stretch is of calls that
\* leave alone what is modelled here: on files, and on the clock.  "prints" is
\* a loop that writes any number of times; "again" goes back to the write;
\* "ends" is the return of main, and so halt.  The shell goes on as in Write,
\* Enter, Command and Sorry below.
shell == <<"banner", "prompt", "line", "command", "sorry">>
testprint == <<"write", "ends">>
hello == <<"write", "read", "write", "write", "ends">>
counter == <<"write", "read", "prints", "ends">>
grep == <<"getargs", "quiet", "prints", "ends">>
sigtest == <<"getargs", "handlers", "write", "read", "fault">>
fish == <<"vidmap", "quiet", "ends">>
pingpong == <<"quiet", "write", "quiet", "again">>

Script(prog) ==
    CASE prog = "shell" -> shell [] prog = "testprint" -> testprint
      [] prog = "hello" -> hello [] prog = "counter" -> counter
      [] prog = "grep" -> grep [] prog = "sigtest" -> sigtest
      [] prog = "fish" -> fish [] prog = "pingpong" -> pingpong

Programs == {"shell", "testprint", "hello", "counter", "grep", "sigtest",
             "fish", "pingpong"}

Process(prog, arg) == [prog |-> prog, pc |-> 1, arg |-> arg, line |-> NotTyped]

Count == Len(procs)                        \* process_count
Top == procs[Count]
\* The handler of an exception spins: nothing comes back to the program.
Stopped == panic # "none"
Does(what) == ~Stopped /\ Script(Top.prog)[Top.pc] = what
GoTo(pc) == procs' = [procs EXCEPT ![Count].pc = pc]
GoOn == GoTo(Top.pc + 1)
Silent == out' = -1 /\ got' = <<>>
PlainStep ==
    /\ GoOn /\ Silent
    /\ UNCHANGED <<pcbs, cur_terminal, execute_terminal, flag, shell_count,
                   page_directory, panic, ghosts>>
Booted == shell_count > MAX_SHELL_COUNT

-----------------------------------------------------------------------------
\* paging_init: the kernel's page and the table with video memory, which
\* entries 2 to 4 of the directory show again (24-26, no regions of their own
\* here), none of them for users.
paging_init ==
    [low |-> [present |-> TRUE, user |-> FALSE, at |-> <<"page table">>],
     kernel |-> [present |-> TRUE, user |-> FALSE, at |-> <<"kernel">>],
     program |-> [present |-> FALSE, user |-> FALSE, at |-> <<"nothing">>],
     screen |-> [present |-> FALSE, user |-> FALSE, at |-> <<"nothing">>]]

Slot(k) == <<"slot", k>>
execute_paging(directory, process_num) ==
    [directory EXCEPT !.program =
        [present |-> TRUE, user |-> TRUE, at |-> Slot(process_num)]]

\* strcpy to args[96], and back from it: what comes after the field is the
\* terminal's number, a zero byte or two.
Stored(arg, t) == IF arg \in LongArguments THEN <<"cut", t>> ELSE <<arg>>

\* execute from line 253 on, below the processes in `under'
Launch(under, prog, arg) ==
    LET n == Len(under) + 1
        t == IF n <= termsize THEN n - 1 ELSE cur_terminal
    IN  /\ procs' = Append(under, Process(prog, arg))
        /\ page_directory' = execute_paging(page_directory, n - 1)
        /\ terminalID' = [terminalID EXCEPT ![n] = t]
        /\ args' = [args EXCEPT ![n] = Stored(arg, t)]
        /\ cur_pcb' = [cur_pcb EXCEPT ![t] = n - 1]
        /\ execute_terminal' = cur_terminal

Init ==
    /\ procs = <<Process("shell", NoArgument)>>
    /\ terminalID = [n \in Pids |-> 0]
    /\ args = [n \in Pids |-> <<NoArgument>>]
    /\ cur_pcb = [t \in Terminals |-> 0]
    /\ cur_terminal = 0 /\ execute_terminal = 0
    /\ flag = [n \in 1 .. termsize |-> 0]
    /\ shell_count = 0
    /\ page_directory = execute_paging(paging_init, 0)
    /\ panic = "none" /\ out = -1 /\ got = <<>>
    /\ asked = 0 /\ reached = FALSE

Tick ==
    /\ ~Stopped /\ ~Booted
    /\ shell_count' = shell_count + 1
    /\ Launch(procs, "shell", NoArgument)
    /\ Silent /\ reached' = FALSE
    /\ UNCHANGED <<cur_terminal, flag, panic, asked>>

\* Any time; a command that is on its way to execute is carried along.
Switch(t) ==
    /\ cur_terminal' = t
    /\ Silent
    /\ UNCHANGED <<procs, pcbs, execute_terminal, flag, shell_count,
                   page_directory, panic, ghosts>>

-----------------------------------------------------------------------------
\* terminal_write: the first two writes of each of the first processes go to
\* its own terminal, all others to that of the process that was the last to
\* be executed from execute_terminal.
OwnFirst == Count <= termsize /\ flag[Count] < 2

\* Mutant of Target: the terminal in front is taken.
TargetInFront == cur_terminal
Target ==
    IF OwnFirst THEN terminalID[Count]
    ELSE terminalID[cur_pcb[execute_terminal] + 1]

terminal_write ==
    /\ out' = Target
    /\ flag' = IF OwnFirst
                 THEN [flag EXCEPT ![Count] = @ + 1] ELSE flag
    /\ got' = <<>>
    /\ UNCHANGED <<pcbs, cur_terminal, execute_terminal, shell_count,
                   page_directory, panic, ghosts>>

Write ==
    /\ \/ Does("write") \/ Does("banner") \/ Does("prompt")
    /\ GoOn /\ terminal_write

\* "no such command", and the prompt again
Sorry == Does("sorry") /\ GoTo(2) /\ terminal_write

\* counter counts to the number chosen, or says "Wrong Choice!", or says
\* nothing when one character other than 0, 1 and 2 was typed; grep prints
\* what it has found, file by file.
Prints ==
    /\ Does("prints")
    /\ \/ terminal_write /\ procs' = procs
       \/ PlainStep

\* fish waits for the clock while its list blinks; so does pingpong between
\* two writes, and goes on for ever.
Quiet == Does("quiet") /\ PlainStep
Again ==
    /\ Does("again") /\ GoTo(2) /\ Silent
    /\ UNCHANGED <<pcbs, cur_terminal, execute_terminal, flag, shell_count,
                   page_directory, panic, ghosts>>

\* terminal_read gives the line typed in whatever terminal is in front.
Read ==
    /\ Does("read") /\ Booted /\ GoOn /\ Silent
    /\ UNCHANGED <<pcbs, cur_terminal, execute_terminal, flag, shell_count,
                   page_directory, panic, ghosts>>

\* The shell has read a line; an empty one makes it prompt again.
Enter(line) ==
    /\ Does("line") /\ Booted /\ Silent
    /\ procs' = [procs EXCEPT ![Count].line = line,
                              ![Count].pc = IF line = NotTyped THEN 2 ELSE 4]
    /\ asked' = cur_terminal
    /\ reached' = FALSE
    /\ UNCHANGED <<pcbs, cur_terminal, execute_terminal, flag, shell_count,
                   page_directory, panic>>

\* execute: its early returns set nothing but execute_terminal.  When the
\* program is over the shell goes on with its prompt.
Command ==
    /\ Does("command") /\ Top.line.name # "exit" /\ Silent
    /\ IF Count < MAXPROCESS /\ Top.line.name \in Programs
         THEN /\ Launch([procs EXCEPT ![Count].pc = 2, ![Count].line = NotTyped],
                        Top.line.name, Top.line.arg)
              /\ reached' = (cur_terminal = asked /\ Count >= termsize)
         ELSE /\ procs' = [procs EXCEPT ![Count].pc = 5, ![Count].line = NotTyped]
              /\ execute_terminal' = cur_terminal
              /\ reached' = FALSE
              /\ UNCHANGED <<pcbs, page_directory>>
    /\ UNCHANGED <<cur_terminal, flag, shell_count, panic, asked>>

\* halt.  The parent's pages come back; the first three start a shell again.
Ends == Does("ends") \/ (Does("command") /\ Top.line.name = "exit")
Under == SubSeq(procs, 1, Count - 1)

\* Mutant of HaltChild: the program's page stays.
HaltChildKeepsPage ==
    /\ Ends /\ Count > termsize /\ Silent
    /\ procs' = Under
    /\ UNCHANGED <<pcbs, cur_terminal, execute_terminal, flag, shell_count,
                   page_directory, panic, ghosts>>

HaltChild ==
    /\ Ends /\ Count > termsize /\ Silent
    /\ procs' = Under
    /\ page_directory' = execute_paging(page_directory, Count - 2)
    /\ UNCHANGED <<pcbs, cur_terminal, execute_terminal, flag, shell_count,
                   panic, ghosts>>

HaltShell ==
    /\ Ends /\ Count <= termsize /\ Silent
    /\ Launch(Under, "shell", NoArgument)
    /\ reached' = FALSE
    /\ UNCHANGED <<cur_terminal, flag, shell_count, panic, asked>>

-----------------------------------------------------------------------------
\* getargs copies from the PCB of the running process.
\* Mutant of getargs: the PCB is looked up by the number of the parent.
getargs_parent == args[Count - 1]
getargs == args[Count]

Getargs ==
    /\ Does("getargs") /\ GoOn
    /\ got' = getargs /\ out' = -1
    /\ UNCHANGED <<pcbs, cur_terminal, execute_terminal, flag, shell_count,
                   page_directory, panic, ghosts>>

\* set_handler gives 0 and does nothing; the handlers are never called.
Handlers ==
    /\ Does("handlers")
    /\ \/ PlainStep
       \/ GoOn /\ terminal_write

\* The table of vidmap has one page, whatever terminal the program is in; it
\* stays when the program is gone.
Vidmap ==
    /\ Does("vidmap") /\ GoOn /\ Silent
    /\ page_directory' = [page_directory EXCEPT !.screen =
            [present |-> TRUE, user |-> TRUE, at |-> VIDEO]]
    /\ UNCHANGED <<pcbs, cur_terminal, execute_terminal, flag, shell_count,
                   panic, ghosts>>

\* The exceptions' gates, from vector 0, by the function the linkage calls.
idt == <<"divide_error", "debug", "NMI_interrupt", "breakpoint", "overflow",
         "bound_exceeded", "invalid_opcode", "device_unavailable",
         "double_fault", "coprocessor_overun", "invalid_tss", "no_segment",
         "stack_seg_fault", "gen_protection", "page_fault", "reserved",
         "math_fault", "alignment_check", "machine_check",
         "float_point_exception">>

\* What each prints before it spins.
Message ==
    [divide_error |-> "Divide Error", debug |-> "Debug Error",
     NMI_interrupt |-> "Nonmaskable Interrupt Error",
     breakpoint |-> "Breakpoint Error", overflow |-> "Overflow Error",
     bound_exceeded |-> "Bound Exceeded Error",
     invalid_opcode |-> "Invalid Opcode Error",
     device_unavailable |-> "Device Unavailable Error",
     double_fault |-> "Double Fault Error",
     coprocessor_overun |-> "Coprocessor Segment Overun Error",
     invalid_tss |-> "Invalid TSS Error",
     no_segment |-> "Segment Not Present Error",
     stack_seg_fault |-> "Stack-Segment Fault Error",
     gen_protection |-> "General Protection Error",
     page_fault |-> "Page Fault Error", reserved |-> "RESERVED Error",
     math_fault |-> "Math Fault Error",
     alignment_check |-> "Alignment Check Error",
     machine_check |-> "Machine Check Error",
     float_point_exception |-> "Floating Point Exception Error"]

\* The linkage calls the handler, which does not come back to its iret; but
\* interrupts are on: terminals can be switched, and no program runs again.
Exception(vector) ==
    /\ panic' = Message[idt[vector + 1]]
    /\ Silent
    /\ UNCHANGED <<procs, pcbs, cur_terminal, execute_terminal, flag,
                   shell_count, page_directory, ghosts>>

\* sigtest writes through a null pointer: page 0 is not present.
Fault == Does("fault") /\ Exception(14)

Next ==
    \/ Tick \/ \E t \in Terminals : Switch(t)
    \/ Write \/ Sorry \/ Prints \/ Quiet \/ Again \/ Read \/ Command
    \/ \E line \in Lines : Enter(line)
    \/ HaltChild \/ HaltShell \/ Getargs \/ Handlers \/ Vidmap \/ Fault

Spec == Init /\ [][Next]_cvars

-----------------------------------------------------------------------------
\* A program that asks for its argument gets the one that was typed behind
\* its own name, although it is kept in a block that every process of the
\* same number uses again, and others may have been started, have failed to
\* start and have ended in between.  An argument of 96 characters and more
\* does not fit the field, and comes back cut.
OwnArguments ==
    got # <<>> /\ Top.arg \notin LongArguments => got = <<Top.arg>>

\* What is written from the moment a command has been started comes out in
\* the terminal where it was typed: by the program, by programs it starts in
\* the same terminal, and, when it is over, by the shell that prompts for the
\* next one, even though the user looks at another terminal meanwhile.  This
\* ends with the next command line; if that one fails, or if terminals are
\* switched between its Enter and execute, the answer may come out elsewhere.
AnswersWhereTyped ==
    reached /\ out # -1 => out = asked

\* At any moment the pages a program can use are its own four megabytes and,
\* once some program has called vidmap, the screen: never the kernel's, nor
\* those of the program that ran before in its place or that waits for it.
UserSeesOwnPages ==
    \A region \in DOMAIN page_directory :
        LET page == page_directory[region] IN
        page.present /\ page.user =>
            \/ region = "program" /\ page.at = Slot(Count - 1)
            \/ region = "screen" /\ page.at = VIDEO
=============================================================================
