------------------------------ MODULE Processes ------------------------------
(***************************************************************************)
(* Process control of the kernel: execute and halt (system_call.c), the    *)
(* timer handler that launches the three terminal shells (scheduling.c),   *)
(* the launch of the first shell (kernel.c) and the system-call linkage    *)
(* (idt_assembly_linkage.S).                                               *)
(*                                                                         *)
(* There is one CPU and no scheduler.  A process runs until it halts; the  *)
(* one that launched it waits inside execute, at EXECUTE_LABEL.  What      *)
(* makes the code hard is that every gate of the IDT is a trap gate, so    *)
(* system calls run with interrupts enabled and the timer may launch a     *)
(* shell in the middle of execute or halt.  An action is a stretch of code *)
(* between two points where such an interrupt makes a difference.          *)
(*                                                                         *)
(* Kernel stacks are modelled as they lie in memory.  Region r is the 8 KB *)
(* below 8 MB - r*8 KB: the kernel stack that esp0 selects for process r,  *)
(* with that process's PCB, get_pcb(r + 1), at its bottom.  stk[r] is the  *)
(* sequence of activations of execute and halt in region r, outermost      *)
(* first.  A trap from user mode starts again at the top of the region and *)
(* so overwrites what was there.                                           *)
(*                                                                         *)
(* Not here: the descriptor tables of the PCBs (FileDescriptors) and the   *)
(* terminal and argument fields, which no decision of execute and halt     *)
(* depends on; the copy of the program is two pieces, as many as it takes  *)
(* for something to come in between.                                       *)
(***************************************************************************)
EXTENDS Integers, Sequences

CONSTANTS
    MAXPROCESS,      \* process limit: 6 in system_call.h
    MAX_SHELL_COUNT, \* the timer stops launching above it: 2 in scheduling.c
    Programs,        \* files that start with the ELF magic
    Shell,           \* the file "shell", one of Programs
    NoProgram,       \* any command whose file is absent or not an ELF file
    Statuses,        \* the values programs pass to halt
    NoUser,          \* value of "user" while the CPU runs kernel code
    EarlyInput       \* may a program call execute or halt before the timer
                     \* has launched its shells, i.e. in the first 60 ms?

Pids == 0 .. MAXPROCESS - 1
Commands == Programs \cup {NoProgram}

\* What a trap from user mode saves: the 4 MB slot the program was loaded in,
\* the program, and eax, which carries the result of a system call.
Contexts == [slot : Int, prog : Commands, eax : Int]

Pcs == {"parse", "lookup", "find", "mark", "map", "copy1", "copy2", "pcb",
        "count", "context", "iret", "launched", "label",   \* in execute
        "begin", "jump",                                   \* in halt
        "linkage", "popa", "return"}                       \* in the caller

Callers == {"entry", "syscall", "pit", "halt"}

\* An activation of execute (of halt when pc is "begin" or "jump").
\* over: the user context the trap interrupted, NoUser if it hit kernel code.
\* index, new: the locals process_index and curr_pcb.  saved: the local p_esp
\* of halt.  eax: the status on its way from halt, or the value to return.
Positions == [region : Int, depth : Nat]

Activations == [caller : Callers, over : Contexts \cup {NoUser}, pc : Pcs,
                cmd : Commands, index : Nat, new : Nat,
                saved : Positions, eax : Int]

ASSUME ConstantsAssumption ==
    /\ MAXPROCESS \in Nat /\ MAX_SHELL_COUNT \in Nat
    /\ MAXPROCESS > MAX_SHELL_COUNT + 1
    /\ Shell \in Programs /\ NoProgram \notin Programs
    /\ Statuses \subseteq Int
    /\ NoUser \notin Contexts
    /\ EarlyInput \in BOOLEAN

VARIABLES
    process_count,   \* number of processes; get_pcb(process_count) runs
    shell_count,     \* shells the timer has launched
    curr_processes,  \* one byte per process index; MAXPROCESS is the byte
                     \* of padding that follows the array
    pcb,             \* get_pcb(n): currID, parentID and the saved esp/ebp
    prog_page,       \* the slot that page_directory[32] maps at 128 MB
    image,           \* what the two halves of each 4 MB slot hold
    esp0,            \* the region tss.esp0 points to the top of
    file_name,       \* the global buffer that execute parses into
    ret_value,       \* the global system_call_linkage returns through
    interrupts,      \* the interrupt flag, EFLAGS.IF
    user,            \* context of the user program that runs, or NoUser
    esp,             \* region of the kernel stack pointer in kernel mode
    stk              \* activations in each region

vars == <<process_count, shell_count, curr_processes, pcb, prog_page, image,
          esp0, file_name, ret_value, interrupts, user, esp, stk>>

Pcb(id, parent, position) == [currID |-> id, parentID |-> parent,
                              esp |-> position]

NoPosition == [region |-> 0, depth |-> 0]

Activation(caller, over, pc, cmd) ==
    [caller |-> caller, over |-> over, pc |-> pc, cmd |-> cmd, index |-> 0,
     new |-> 0, saved |-> NoPosition, eax |-> 0]

SetLast(s, a) == [s EXCEPT ![Len(s)] = a]
Pop(s) == SubSeq(s, 1, Len(s) - 1)

-----------------------------------------------------------------------------
\* kernel.c: interrupts are on since pit_init; entry calls execute("shell")
\* on the boot stack, which is region 0.
Init ==
    /\ process_count = 0
    /\ shell_count = 0
    /\ curr_processes = [i \in 0 .. MAXPROCESS |-> 0]
    /\ pcb = [n \in 1 .. MAXPROCESS |-> Pcb(0, 0, NoPosition)]
    /\ prog_page = 0
    /\ image = [s \in Pids |-> <<NoProgram, NoProgram>>]
    /\ esp0 = 0
    /\ file_name = NoProgram
    /\ ret_value = 0
    /\ interrupts = TRUE
    /\ user = NoUser
    /\ esp = 0
    /\ stk = [r \in Pids |->
                IF r = 0 THEN <<Activation("entry", NoUser, "parse", Shell)>>
                ELSE <<>>]

\* The activation the CPU is executing when it is in kernel mode.
Top == stk[esp][Len(stk[esp])]
Running(pc) == user = NoUser /\ Top.pc = pc

SetTop(a) == stk' = [stk EXCEPT ![esp] = SetLast(@, a)]
GoTo(pc) == SetTop([Top EXCEPT !.pc = pc])

\* Mutant of Enter: a trap from user mode does not start at esp0.
EnterOnOldStack(a) ==
    /\ stk' = [stk EXCEPT ![esp] = Append(@, a)]
    /\ user' = NoUser
    /\ UNCHANGED esp

\* Enter the kernel with activation a: on the stack in use if kernel code was
\* interrupted, else at the top of the region esp0 points to.
Enter(a) ==
    IF user = NoUser
    THEN /\ stk' = [stk EXCEPT ![esp] = Append(@, a)]
         /\ UNCHANGED <<esp, user>>
    ELSE /\ stk' = [stk EXCEPT ![esp0] = <<a>>]
         /\ esp' = esp0
         /\ user' = NoUser

-----------------------------------------------------------------------------
\* Interrupts and system calls.

\* Mutant of Tick: the test of shell_count is missing.
TickForever ==
    /\ interrupts
    /\ shell_count' = shell_count + 1
    /\ interrupts' = FALSE
    /\ Enter(Activation("pit", user, "parse", Shell))
    /\ UNCHANGED <<process_count, curr_processes, pcb, prog_page, image, esp0,
                   file_name, ret_value>>

\* pit_handler: cli, then execute("shell") while shells are to be launched.
\* Later ticks change nothing and are not modelled.
Tick ==
    /\ interrupts
    /\ shell_count <= MAX_SHELL_COUNT
    /\ shell_count' = shell_count + 1
    /\ interrupts' = FALSE
    /\ Enter(Activation("pit", user, "parse", Shell))
    /\ UNCHANGED <<process_count, curr_processes, pcb, prog_page, image, esp0,
                   file_name, ret_value>>

UserReady == user # NoUser /\ (EarlyInput \/ shell_count > MAX_SHELL_COUNT)

\* A shell runs a command: system call 2, through a trap gate.
SyscallExecute(cmd) ==
    /\ UserReady
    /\ user.prog = Shell
    /\ Enter(Activation("syscall", [user EXCEPT !.eax = 0], "parse", cmd))
    /\ UNCHANGED <<process_count, shell_count, curr_processes, pcb, prog_page,
                   image, esp0, file_name, ret_value, interrupts>>

\* Any program ends: system call 1.
SyscallHalt(status) ==
    /\ UserReady
    /\ Enter([Activation("syscall", [user EXCEPT !.eax = 0], "begin",
                         NoProgram) EXCEPT !.eax = status])
    /\ UNCHANGED <<process_count, shell_count, curr_processes, pcb, prog_page,
                   image, esp0, file_name, ret_value, interrupts>>

-----------------------------------------------------------------------------
\* execute, system_call.c 139-319.

\* execute returns value to its caller.
Finish(value) ==
    SetTop([Top EXCEPT !.pc = IF Top.caller = "syscall" THEN "linkage"
                              ELSE "return",
                       !.eax = value])

\* Mutant of Parse: the limit is off by one.
ParseOneTooMany ==
    /\ Running("parse")
    /\ IF process_count > MAXPROCESS
       THEN Finish(-1) /\ UNCHANGED file_name
       ELSE GoTo("lookup") /\ file_name' = Top.cmd
    /\ UNCHANGED <<process_count, shell_count, curr_processes, pcb, prog_page,
                   image, esp0, ret_value, interrupts, user, esp>>

\* 141-190: the process limit, then the file name goes to the global buffer.
Parse ==
    /\ Running("parse")
    /\ IF process_count >= MAXPROCESS
       THEN Finish(-1) /\ UNCHANGED file_name
       ELSE GoTo("lookup") /\ file_name' = Top.cmd
    /\ UNCHANGED <<process_count, shell_count, curr_processes, pcb, prog_page,
                   image, esp0, ret_value, interrupts, user, esp>>

\* 193-212: look the buffer's name up and check for ELF; the directory entry
\* found is a local, so from here on the command no longer depends on it.
Lookup ==
    /\ Running("lookup")
    /\ IF file_name \in Programs
       THEN SetTop([Top EXCEPT !.pc = "find", !.cmd = file_name])
       ELSE Finish(-1)
    /\ UNCHANGED <<process_count, shell_count, curr_processes, pcb, prog_page,
                   image, esp0, file_name, ret_value, interrupts, user, esp>>

\* 215-219: the first free process index, MAXPROCESS when there is none.
FirstFree(i) ==
    /\ i = MAXPROCESS \/ curr_processes[i] = 0
    /\ \A j \in 0 .. i - 1 : curr_processes[j] # 0

Find ==
    /\ Running("find")
    /\ \E i \in 0 .. MAXPROCESS :
          FirstFree(i) /\ SetTop([Top EXCEPT !.pc = "mark", !.index = i])
    /\ UNCHANGED <<process_count, shell_count, curr_processes, pcb, prog_page,
                   image, esp0, file_name, ret_value, interrupts, user, esp>>

\* 226
Mark ==
    /\ Running("mark")
    /\ curr_processes' = [curr_processes EXCEPT ![Top.index] = 1]
    /\ SetTop([Top EXCEPT !.pc = "map", !.index = 0])
    /\ UNCHANGED <<process_count, shell_count, pcb, prog_page, image, esp0,
                   file_name, ret_value, interrupts, user, esp>>

\* 230: execute_paging(process_count)
Map ==
    /\ Running("map")
    /\ prog_page' = process_count
    /\ GoTo("copy1")
    /\ UNCHANGED <<process_count, shell_count, curr_processes, pcb, image, esp0,
                   file_name, ret_value, interrupts, user, esp>>

\* 238-251: the file goes piece by piece through the page mapped at the time.
Copy(half) ==
    /\ Running(IF half = 1 THEN "copy1" ELSE "copy2")
    /\ image' = [image EXCEPT ![prog_page][half] = Top.cmd]
    /\ GoTo(IF half = 1 THEN "copy2" ELSE "pcb")
    /\ UNCHANGED <<process_count, shell_count, curr_processes, pcb, prog_page,
                   esp0, file_name, ret_value, interrupts, user, esp>>

\* 253-264: parentID keeps its old value for the first process.
FillPcb ==
    /\ Running("pcb")
    /\ pcb' = [pcb EXCEPT ![process_count + 1] =
                 [@ EXCEPT !.currID = process_count,
                           !.parentID = IF process_count # 0
                                        THEN pcb[process_count].currID
                                        ELSE pcb[process_count + 1].parentID]]
    /\ SetTop([Top EXCEPT !.pc = "count", !.new = process_count + 1])
    /\ UNCHANGED <<process_count, shell_count, curr_processes, prog_page, image,
                   esp0, file_name, ret_value, interrupts, user, esp>>

\* 269
Count ==
    /\ Running("count")
    /\ process_count' = process_count + 1
    /\ GoTo("context")
    /\ UNCHANGED <<shell_count, curr_processes, pcb, prog_page, image, esp0,
                   file_name, ret_value, interrupts, user, esp>>

\* Mutants of SaveContext: the code asks itself whether the "- 1" of esp0
\* (285) belongs there; and the context goes to the parent's PCB.
SaveContextNextStack ==
    /\ Running("context")
    /\ pcb' = [pcb EXCEPT ![Top.new].esp = [region |-> esp,
                                            depth |-> Len(stk[esp])]]
    /\ esp0' = process_count
    /\ GoTo("iret")
    /\ UNCHANGED <<process_count, shell_count, curr_processes, prog_page, image,
                   file_name, ret_value, interrupts, user, esp>>

SaveContextInParent ==
    /\ Running("context")
    /\ pcb' = [pcb EXCEPT ![Top.new - 1].esp = [region |-> esp,
                                                depth |-> Len(stk[esp])]]
    /\ esp0' = process_count - 1
    /\ GoTo("iret")
    /\ UNCHANGED <<process_count, shell_count, curr_processes, prog_page, image,
                   file_name, ret_value, interrupts, user, esp>>

\* 272-296: save the kernel context to come back to; set esp0.
SaveContext ==
    /\ Running("context")
    /\ pcb' = [pcb EXCEPT ![Top.new].esp = [region |-> esp,
                                            depth |-> Len(stk[esp])]]
    /\ esp0' = process_count - 1
    /\ GoTo("iret")
    /\ UNCHANGED <<process_count, shell_count, curr_processes, prog_page, image,
                   file_name, ret_value, interrupts, user, esp>>

\* Mutant of Iret: the program starts without the "orl $0x200" of line 307.
IretInterruptsOff ==
    /\ Running("iret")
    /\ user' = [slot |-> Top.new - 1, prog |-> Top.cmd, eax |-> 0]
    /\ interrupts' = FALSE
    /\ GoTo("launched")
    /\ UNCHANGED <<process_count, shell_count, curr_processes, pcb, prog_page,
                   image, esp0, file_name, ret_value, esp>>

\* 297-311: iret to the entry point of whatever is mapped at 128 MB.
Iret ==
    /\ Running("iret")
    /\ user' = [slot |-> Top.new - 1, prog |-> Top.cmd, eax |-> 0]
    /\ interrupts' = TRUE
    /\ GoTo("launched")
    /\ UNCHANGED <<process_count, shell_count, curr_processes, pcb, prog_page,
                   image, esp0, file_name, ret_value, esp>>

\* 312-318: back from the child, whose status is in eax; return 0.
ExecuteLabel ==
    /\ Running("label")
    /\ Finish(0)
    /\ UNCHANGED <<process_count, shell_count, curr_processes, pcb, prog_page,
                   image, esp0, file_name, ret_value, interrupts, user, esp>>

-----------------------------------------------------------------------------
\* halt, system_call.c 48-132.  From cli (55) to sti (119) no interrupt.

\* Mutant of HaltShell: line 93 is missing.
HaltShellKeepsCount ==
    /\ Running("begin")
    /\ pcb[process_count].currID <= 2
    /\ curr_processes' = [curr_processes EXCEPT
                            ![pcb[process_count].currID] = 0]
    /\ interrupts' = FALSE
    /\ stk' = [stk EXCEPT ![esp] =
                 Append(@, Activation("halt", NoUser, "parse", Shell))]
    /\ UNCHANGED <<process_count, shell_count, pcb, prog_page, image, esp0,
                   file_name, ret_value, user, esp>>

\* 55-95, currID <= 2: restart the shell on top of this activation of halt.
HaltShell ==
    /\ Running("begin")
    /\ pcb[process_count].currID <= 2
    /\ curr_processes' = [curr_processes EXCEPT
                            ![pcb[process_count].currID] = 0]
    /\ process_count' = process_count - 1
    /\ interrupts' = FALSE
    /\ stk' = [stk EXCEPT ![esp] =
                 Append(@, Activation("halt", NoUser, "parse", Shell))]
    /\ UNCHANGED <<shell_count, pcb, prog_page, image, esp0, file_name,
                   ret_value, user, esp>>

\* Mutant of HaltChild: line 97 is missing.
HaltChildKeepsCount ==
    /\ Running("begin")
    /\ pcb[process_count].currID > 2
    /\ LET curr_pcb == pcb[process_count] IN
         /\ curr_processes' = [curr_processes EXCEPT ![curr_pcb.currID] = 0]
         /\ prog_page' = curr_pcb.parentID
         /\ esp0' = curr_pcb.parentID
         /\ SetTop([Top EXCEPT !.pc = "jump", !.saved = curr_pcb.esp,
                               !.new = process_count])
    /\ interrupts' = TRUE
    /\ UNCHANGED <<process_count, shell_count, pcb, image, file_name, ret_value,
                   user, esp>>

\* 55-119, otherwise: give the machine back to the parent.
HaltChild ==
    /\ Running("begin")
    /\ pcb[process_count].currID > 2
    /\ LET curr_pcb == pcb[process_count] IN
         /\ curr_processes' = [curr_processes EXCEPT ![curr_pcb.currID] = 0]
         /\ prog_page' = curr_pcb.parentID
         /\ esp0' = curr_pcb.parentID
         /\ SetTop([Top EXCEPT !.pc = "jump", !.saved = curr_pcb.esp,
                               !.new = process_count])
    /\ process_count' = process_count - 1
    /\ interrupts' = TRUE
    /\ UNCHANGED <<shell_count, pcb, image, file_name, ret_value, user, esp>>

\* Does position p of region r still hold the activation of execute that
\* launched the process of get_pcb(n)?
Awaits(p, n) ==
    /\ p.region \in Pids
    /\ p.depth \in 1 .. Len(stk[p.region])
    /\ stk[p.region][p.depth].pc = "launched"
    /\ stk[p.region][p.depth].new = n

\* 121-125: esp and ebp become the parent's, and control passes to
\* EXECUTE_LABEL there.  If something else lies at that address the outcome
\* is undefined, and the model stops.
Jump ==
    /\ Running("jump")
    /\ Awaits(Top.saved, Top.new)
    /\ LET p == Top.saved
           parent == [stk[p.region][p.depth] EXCEPT !.pc = "label",
                                                    !.eax = Top.eax]
       IN  /\ esp' = p.region
           /\ stk' = [stk EXCEPT ![esp] = <<>>,
                                 ![p.region] = SubSeq(stk[p.region], 1,
                                                      p.depth - 1)
                                               \o <<parent>>]
    /\ UNCHANGED <<process_count, shell_count, curr_processes, pcb, prog_page,
                   image, esp0, file_name, ret_value, interrupts, user>>

-----------------------------------------------------------------------------
\* Back to what was interrupted.  Neither entry nor halt ever gets its call of
\* execute back: if one did, the model would stop at "return".

\* idt_assembly_linkage.S 180-184: the result goes to the global ret_value...
Linkage ==
    /\ Running("linkage")
    /\ ret_value' = Top.eax
    /\ GoTo("popa")
    /\ UNCHANGED <<process_count, shell_count, curr_processes, pcb, prog_page,
                   image, esp0, file_name, interrupts, user, esp>>

\* ... 185-186: and from there back to eax.
SyscallReturn ==
    /\ Running("popa")
    /\ user' = [Top.over EXCEPT !.eax = ret_value]
    /\ interrupts' = TRUE
    /\ stk' = [stk EXCEPT ![esp] = Pop(@)]
    /\ UNCHANGED <<process_count, shell_count, curr_processes, pcb, prog_page,
                   image, esp0, file_name, ret_value, esp>>

\* pit_handler returns (66-68), to a program or to kernel code.
PitReturn ==
    /\ Running("return")
    /\ Top.caller = "pit"
    /\ interrupts' = TRUE
    /\ user' = Top.over
    /\ stk' = [stk EXCEPT ![esp] = Pop(@)]
    /\ UNCHANGED <<process_count, shell_count, curr_processes, pcb, prog_page,
                   image, esp0, file_name, ret_value, esp>>

\* A program computes, or is in a system call that leaves processes alone.
Compute == user # NoUser /\ UNCHANGED vars

Execute == \/ Parse \/ Lookup \/ Find \/ Mark \/ Map \/ Copy(1) \/ Copy(2)
           \/ FillPcb \/ Count \/ SaveContext \/ Iret \/ ExecuteLabel

Halt == HaltShell \/ HaltChild \/ Jump

Kernel == Execute \/ Halt \/ Linkage \/ SyscallReturn \/ PitReturn

Next ==
    \/ Tick
    \/ \E cmd \in Commands : SyscallExecute(cmd)
    \/ \E status \in Statuses : SyscallHalt(status)
    \/ Compute
    \/ Kernel

Spec == Init /\ [][Next]_vars

\* The CPU runs on while it is in the kernel.  The timer is periodic and the
\* interrupt controller keeps its request until interrupts are enabled, which
\* they are again and again.
Fairness == WF_vars(Kernel) /\ SF_vars(Tick)

FairSpec == Spec /\ Fairness

-----------------------------------------------------------------------------
\* Each index is one of an array the code has: in particular curr_processes is
\* never written past the byte of padding behind it (line 226 has no test).
TypeOK ==
    /\ process_count \in Int
    /\ shell_count \in 0 .. MAX_SHELL_COUNT + 1
    /\ curr_processes \in [0 .. MAXPROCESS -> 0 .. 1]
    /\ pcb \in [1 .. MAXPROCESS -> [currID : Int, parentID : Int,
                                    esp : Positions]]
    /\ prog_page \in Int
    /\ image \in [Pids -> Commands \X Commands]
    /\ esp0 \in Int
    /\ file_name \in Commands
    /\ ret_value \in Int
    /\ interrupts \in BOOLEAN
    /\ user \in Contexts \cup {NoUser}
    /\ esp \in Int
    /\ stk \in [Pids -> Seq(Activations)]

\* No interleaving of execute, halt and the timer takes the number of
\* processes over the limit that execute tests at 154 and raises at 269, with
\* interrupts enabled in between.
ProcessLimit == process_count \in 0 .. MAXPROCESS

\* The program that runs finds the machine set up for it: its own image is
\* mapped, whole, its own PCB is the one system calls will use (all of them
\* take get_pcb(process_count)), and esp0 selects its own kernel stack.
RunsAsItself ==
    user # NoUser =>
        /\ prog_page = user.slot
        /\ image[user.slot] = <<user.prog, user.prog>>
        /\ process_count = user.slot + 1
        /\ pcb[process_count].currID = user.slot
        /\ esp0 = user.slot

\* While a program runs, every process that may end by returning (halt
\* restarts those up to 2) has its launcher waiting on an intact kernel
\* stack, and the launcher will go back to the context of its parent.
ParentsWait ==
    user # NoUser =>
        \A n \in 4 .. process_count :
            LET p == pcb[n].esp IN
            /\ Awaits(p, n)
            /\ stk[p.region][p.depth].over # NoUser
            /\ stk[p.region][p.depth].over.slot = pcb[n].parentID
            /\ pcb[n].parentID = n - 2

\* halt (121-125) never loads an esp at which its parent's call of execute no
\* longer lies.
ParentContextIntact == Running("jump") => Awaits(Top.saved, Top.new)

\* Shells that restart, timer ticks and calls of execute inside one another
\* never pile activations up: an 8 KB kernel stack holds a few at most.
KernelStackBounded ==
    \A r \in Pids : Len(stk[r]) <= MAX_SHELL_COUNT + 3

\* execute and halt implement a stack of processes whose bottom three are
\* shells: what stands between a process and the page directory, PCBs and
\* counters that represent it never shows.
Stack == INSTANCE ProcessStack WITH
            Capacity <- MAXPROCESS, Base <- MAX_SHELL_COUNT + 1,
            procs <- [i \in 1 .. process_count |-> image[i - 1][1]],
            restarting <- /\ user = NoUser
                          /\ Top.caller = "halt"
                          /\ Top.pc \notin {"context", "iret", "launched"}

IsProcessStack == Stack!StackSpec

\* The status a program passes to halt is the result of its parent's call of
\* execute, as both functions' headers (46, 137) and the shell expect.
ExecuteReturnsStatus == [][ExecuteLabel => (Top.eax)' = Top.eax]_vars

\* Booting ends with a shell for each of the three terminals, whatever the
\* moment of the timer's ticks.
ShellsComeUp == <>(process_count > MAX_SHELL_COUNT)

\* A program that ends gives the CPU back to the one that launched it; a
\* terminal's shell that ends is replaced by a new one.
ExitIsFollowedUp ==
    \A n \in 1 .. MAXPROCESS :
        Running("begin") /\ process_count = n ~>
            /\ user # NoUser
            /\ process_count = IF n > 3 THEN n - 1 ELSE n
            /\ user.slot = process_count - 1
            /\ n <= 3 => user.prog = Shell

=============================================================================
