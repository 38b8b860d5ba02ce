---------------------------- MODULE ConsoleProof ----------------------------
(***************************************************************************)
(* Programs at their terminals, for any number of processes and terminals: *)
(* a program gets its own argument, it reaches its own pages only, and     *)
(* what a command writes comes out where the command was typed.            *)
(*                                                                         *)
(* The third needs most of the invariant.  A write goes to the process     *)
(* that was last executed from execute_terminal, except the first two      *)
(* writes of each of the first termsize processes.  So one has to know     *)
(* that these are shells, that a shell has had its two writes before it    *)
(* reads a line, and that the shell to which the last program above them   *)
(* returns is one that has read a line, not one that a tick suspended      *)
(* before it wrote.                                                        *)
(***************************************************************************)
EXTENDS Console, TLAPS

\* What is assumed of the sizes, as one fact.
Sizes ==
    /\ termsize \in Nat \ {0}
    /\ MAX_SHELL_COUNT \in Nat
    /\ MAXPROCESS \in Nat
    /\ termsize <= MAX_SHELL_COUNT + 2
    /\ MAX_SHELL_COUNT + 2 <= MAXPROCESS
    /\ NoArgument \notin LongArguments

Arguments == {line.arg : line \in Lines} \cup {NoArgument}
ProcessType == [prog : Programs, pc : 1 .. 5, arg : Arguments,
                line : Lines \cup {NotTyped}]

Types ==
    /\ procs \in Seq(ProcessType)
    /\ Count \in 1 .. MAXPROCESS
    /\ terminalID \in [Pids -> Terminals]
    /\ args \in [Pids -> {Stored(arg, t) : arg \in Arguments, t \in Terminals}]
    /\ cur_pcb \in [Terminals -> 0 .. MAXPROCESS - 1]
    /\ cur_terminal \in Terminals /\ execute_terminal \in Terminals
    /\ asked \in Terminals /\ reached \in BOOLEAN
    /\ flag \in [1 .. termsize -> 0 .. 2]
    /\ shell_count \in 0 .. MAX_SHELL_COUNT + 1

\* Every process is inside its program's script.
InScripts == \A i \in 1 .. Count : procs[i].pc <= Len(Script(procs[i].prog))

\* A process that waits is a shell, which goes on with its prompt, or where
\* the tick has suspended it.
WaitingAreShells ==
    \A i \in 1 .. Count : i < Count =>
        procs[i].prog = "shell" /\ procs[i].pc <= 3

\* Until the timer has launched its shells nothing else runs.
Booting ==
    /\ ~Booted => /\ Count = shell_count + 1
                  /\ Top.prog = "shell" /\ Top.pc <= 3
    /\ Booted => Count >= termsize

\* The first processes are shells; their own writes come before they read.
FirstAreShells ==
    \A i \in 1 .. termsize : i <= Count =>
        /\ procs[i].prog = "shell"
        /\ flag[i] = 2 \/ procs[i].pc <= flag[i] + 1

\* A program that is no shell was started from a shell that had read a line.
AboveShells ==
    Count > termsize =>
        flag[termsize] = 2 \/ procs[termsize + 1].prog = "shell"

\* Where writes go, from the execution of a command to the next line.
Answering ==
    reached =>
        /\ Count >= termsize
        /\ Count = termsize => flag[termsize] = 2
        /\ Top.prog = "shell" => Top.pc <= 3
        /\ execute_terminal = asked
        /\ terminalID[cur_pcb[asked] + 1] = asked

ArgumentsKept ==
    \A i \in 1 .. Count :
        procs[i].arg \notin LongArguments => args[i] = <<procs[i].arg>>

PagesKept ==
    /\ DOMAIN page_directory = {"low", "kernel", "program", "screen"}
    /\ ~page_directory.low.user /\ ~page_directory.kernel.user
    /\ page_directory.program.at = Slot(Count - 1)
    /\ page_directory.screen.present => page_directory.screen.at = VIDEO

Control == /\ InScripts /\ WaitingAreShells /\ Booting /\ FirstAreShells
           /\ AboveShells

Inv == /\ Types /\ Control /\ Answering /\ ArgumentsKept /\ PagesKept
       /\ OwnArguments /\ AnswersWhereTyped

USE DEF Count, Top

-----------------------------------------------------------------------------
\* The scripts.

ShellSteps == {"banner", "prompt", "line", "command", "sorry"}
Passing == {"banner", "prompt", "write", "read", "prints", "quiet", "getargs",
            "handlers", "vidmap"}

\* No other program has a step of the shell's, and no script ends with a step
\* after which the program goes on.
LEMMA Places ==
    ASSUME NEW p \in Programs, NEW k \in 1 .. Len(Script(p))
    PROVE  /\ Len(Script(p)) \in 1 .. 5
           /\ p # "shell" => Script(p)[k] \notin ShellSteps
           /\ p = "shell" => /\ k = 1 => Script(p)[k] = "banner"
                             /\ k = 2 => Script(p)[k] = "prompt"
                             /\ k = 3 => Script(p)[k] = "line"
                             /\ k = 4 => Script(p)[k] = "command"
                             /\ k = 5 => Script(p)[k] = "sorry"
           /\ Script(p)[k] \in Passing => k + 1 \in 1 .. 5 /\ k + 1 <= Len(Script(p))
           /\ Script(p)[k] = "again" => 2 <= Len(Script(p))
<1>1. CASE p = "shell"
  <2>1. Script(p) = shell
    BY <1>1 DEF Script
  <2>2. QED BY <1>1, <2>1 DEF shell, ShellSteps, Passing
<1>2. CASE p = "testprint"
  <2>1. Script(p) = testprint
    BY <1>2 DEF Script
  <2>2. QED BY <1>2, <2>1 DEF testprint, ShellSteps, Passing
<1>3. CASE p = "hello"
  <2>1. Script(p) = hello
    BY <1>3 DEF Script
  <2>2. QED BY <1>3, <2>1, SMTT(30) DEF hello, ShellSteps, Passing
<1>4. CASE p = "counter"
  <2>1. Script(p) = counter
    BY <1>4 DEF Script
  <2>2. QED BY <1>4, <2>1 DEF counter, ShellSteps, Passing
<1>5. CASE p = "grep"
  <2>1. Script(p) = grep
    BY <1>5 DEF Script
  <2>2. Len(Script(p)) = 4 /\ k \in {1, 2, 3, 4}
    BY <2>1 DEF grep
  <2>3. CASE k = 1  BY <1>5, <2>1, <2>2, <2>3 DEF grep, ShellSteps, Passing
  <2>4. CASE k = 2  BY <1>5, <2>1, <2>2, <2>4 DEF grep, ShellSteps, Passing
  <2>5. CASE k = 3  BY <1>5, <2>1, <2>2, <2>5 DEF grep, ShellSteps, Passing
  <2>6. CASE k = 4  BY <1>5, <2>1, <2>2, <2>6 DEF grep, ShellSteps, Passing
  <2>7. QED BY <2>2, <2>3, <2>4, <2>5, <2>6
<1>6. CASE p = "sigtest"
  <2>1. Script(p) = sigtest
    BY <1>6 DEF Script
  <2>2. Len(Script(p)) = 5 /\ k \in {1, 2, 3, 4, 5}
    BY <2>1 DEF sigtest
  <2>3. CASE k = 1  BY <1>6, <2>1, <2>2, <2>3 DEF sigtest, ShellSteps, Passing
  <2>4. CASE k = 2  BY <1>6, <2>1, <2>2, <2>4 DEF sigtest, ShellSteps, Passing
  <2>5. CASE k = 3
    <3>1. Script(p)[k] = "write"
      BY <2>1, <2>5 DEF sigtest
    <3>2. QED BY <1>6, <2>2, <2>5, <3>1 DEF ShellSteps, Passing
  <2>6. CASE k = 4  BY <1>6, <2>1, <2>2, <2>6 DEF sigtest, ShellSteps, Passing
  <2>7. CASE k = 5  BY <1>6, <2>1, <2>2, <2>7 DEF sigtest, ShellSteps, Passing
  <2>8. QED BY <2>2, <2>3, <2>4, <2>5, <2>6, <2>7
<1>7. CASE p = "fish"
  <2>1. Script(p) = fish
    BY <1>7 DEF Script
  <2>2. QED BY <1>7, <2>1 DEF fish, ShellSteps, Passing
<1>8. CASE p = "pingpong"
  <2>1. Script(p) = pingpong
    BY <1>8 DEF Script
  <2>2. QED BY <1>8, <2>1 DEF pingpong, ShellSteps, Passing
<1>9. QED BY <1>1, <1>2, <1>3, <1>4, <1>5, <1>6, <1>7, <1>8 DEF Programs

\* Where the running process is.
LEMMA TopPlace ==
    ASSUME Types, InScripts
    PROVE  /\ Top \in ProcessType
           /\ Top.pc \in 1 .. Len(Script(Top.prog))
           /\ \A i \in 1 .. Count : procs[i] \in ProcessType
<1>1. \A i \in 1 .. Count : procs[i] \in ProcessType
  BY DEF Types
<1>2. Top \in ProcessType /\ Top.pc <= Len(Script(Top.prog))
  BY <1>1 DEF Types, InScripts
<1>3. QED BY <1>1, <1>2 DEF ProcessType

\* A step that is none of the shell's is taken above the first processes.
LEMMA NotTheShell ==
    ASSUME Sizes, Types, Control, NEW what, Does(what), what \notin ShellSteps
    PROVE  Top.prog # "shell" /\ Count > termsize /\ Booted
<1>1. Top.prog # "shell"
  <2>1. SUFFICES ASSUME Top.prog = "shell" PROVE FALSE
    OBVIOUS
  <2>2. Top.pc \in 1 .. 5 /\ Top.prog \in Programs
    BY TopPlace DEF Control, ProcessType
  <2>3. QED BY <2>1, <2>2, TopPlace, Places DEF Does, ShellSteps, Control
<1>2. Count > termsize
  BY <1>1, SMTT(30) DEF Control, FirstAreShells, Types, Sizes
<1>3. QED BY <1>1, <1>2 DEF Control, Booting

\* A step of the shell's is at its place.
LEMMA TheShell ==
    ASSUME Types, Control, NEW what \in ShellSteps, Does(what)
    PROVE  /\ Top.prog = "shell"
           /\ what = "banner" => Top.pc = 1
           /\ what = "prompt" => Top.pc = 2
           /\ what = "line" => Top.pc = 3
           /\ what = "command" => Top.pc = 4
           /\ what = "sorry" => Top.pc = 5
<1>1. Top.pc \in 1 .. 5 /\ Top.prog \in Programs
  BY TopPlace DEF Control, ProcessType
<1>2. Top.prog = "shell"
  BY <1>1, TopPlace, Places DEF Does, Control
<1>3. QED BY <1>1, <1>2, TopPlace, Places DEF Does, Control, ShellSteps

-----------------------------------------------------------------------------
\* The running process moves in its script.

\* Only the running process changes, and stays the same program with the same
\* argument.
LEMMA TopMoves ==
    ASSUME Sizes, Types, Control, NEW q \in ProcessType,
           procs' = [procs EXCEPT ![Count] = q],
           q.prog = Top.prog, q.arg = Top.arg, q.pc <= Len(Script(q.prog)),
           flag' \in [1 .. termsize -> 0 .. 2],
           \A i \in 1 .. termsize : flag'[i] >= flag[i],
           Count <= termsize => flag'[Count] = 2 \/ q.pc <= flag'[Count] + 1,
           ~Booted => q.pc <= 3,
           shell_count' = shell_count
    PROVE  /\ procs' \in Seq(ProcessType)
           /\ Count' = Count /\ Top' = q
           /\ \A i \in 1 .. Count : procs'[i].arg = procs[i].arg
           /\ Control'
<1>1. /\ procs' \in Seq(ProcessType) /\ Count' = Count /\ Top' = q
      /\ \A i \in 1 .. Count : i # Count => procs'[i] = procs[i]
      /\ Count \in Nat \ {0}
  BY SMTT(30) DEF Types, Sizes
<1>2. \A i \in 1 .. Count : /\ procs'[i].arg = procs[i].arg
                             /\ procs'[i].prog = procs[i].prog
  BY <1>1, ZenonT(40)
<1>3. InScripts'
  BY <1>1, ZenonT(40) DEF Control, InScripts
<1>4. WaitingAreShells'
  <2>1. WaitingAreShells
    BY SMTT(30) DEF Control
  <2>2. QED BY ONLY <1>1, <2>1 DEF WaitingAreShells, Count
<1>5. Booting'
  BY <1>1 DEF Control, Booting, Booted
<1>6. FirstAreShells'
  <2>1. SUFFICES ASSUME NEW i \in 1 .. termsize, i <= Count
                 PROVE  /\ procs'[i].prog = "shell"
                        /\ flag'[i] = 2 \/ procs'[i].pc <= flag'[i] + 1
    BY <1>1 DEF FirstAreShells
  <2>2. /\ procs[i].prog = "shell"
        /\ flag[i] = 2 \/ procs[i].pc <= flag[i] + 1
        /\ procs[i].pc \in 1 .. 5 /\ flag[i] \in 0 .. 2 /\ flag'[i] \in 0 .. 2
    BY <2>1, TopPlace, SMTT(30) DEF Control, FirstAreShells, Types, ProcessType, Sizes
  <2>3. CASE i = Count
    <3>1. flag'[i] = 2 \/ q.pc <= flag'[i] + 1
      BY <2>1, <2>3
    <3>2. procs'[i] = q /\ q.prog = procs[i].prog
      BY <1>1, <2>3
    <3>3. QED BY ONLY <2>2, <3>1, <3>2
  <2>4. CASE i # Count
    <3>1. i \in 1 .. Count
      BY ONLY <1>1, <2>1, Sizes DEF Sizes
    <3>2. procs'[i] = procs[i]
      BY ONLY <1>1, <2>4, <3>1
    <3>3. flag'[i] >= flag[i]
      OBVIOUS
    <3>4. QED BY ONLY <2>2, <3>2, <3>3
  <2>5. QED BY <2>3, <2>4, SMTT(30)
<1>7. AboveShells'
  <2>1. flag[termsize] \in 0 .. 2 /\ flag'[termsize] \in 0 .. 2
        /\ flag'[termsize] >= flag[termsize]
    BY DEF Types, Sizes
  <2>2. AboveShells /\ termsize \in Nat \ {0}
    BY DEF Control, Sizes
  <2>3. QED BY ONLY <1>1, <1>2, <2>1, <2>2 DEF AboveShells, Count
<1>8. QED BY <1>1, <1>2, <1>3, <1>4, <1>5, <1>6, <1>7 DEF Control

\* Going to a place in the script is such a change.
LEMMA GoToMoves ==
    ASSUME Sizes, Types, Control, NEW k \in 1 .. 5, GoTo(k)
    PROVE  \E q \in ProcessType :
               /\ procs' = [procs EXCEPT ![Count] = q]
               /\ q.prog = Top.prog /\ q.arg = Top.arg /\ q.pc = k
<1> DEFINE q == [Top EXCEPT !.pc = k]
<1>1. Top \in ProcessType
  BY TopPlace DEF Control
<1>2. q \in ProcessType /\ q.prog = Top.prog /\ q.arg = Top.arg /\ q.pc = k
  BY <1>1 DEF ProcessType
<1>3. procs' = [procs EXCEPT ![Count] = q]
  BY DEF GoTo
<1>4. QED BY <1>2, <1>3

\* Where a write goes while a command is being answered.
LEMMA AnswerGoes ==
    ASSUME Sizes, Types, Answering, reached
    PROVE  Target = asked /\ ~OwnFirst
<1>1. ~OwnFirst
  BY DEF Sizes, Types, Answering, OwnFirst
<1>2. QED BY <1>1 DEF Answering, Target

\* A call that moves the running process on and leaves the other processes,
\* the blocks and the terminals as they are.
LEMMA Ordinary ==
    ASSUME Sizes, Inv, NEW k \in 1 .. 5, GoTo(k), k <= Len(Script(Top.prog)),
           flag' \in [1 .. termsize -> 0 .. 2],
           \A i \in 1 .. termsize : flag'[i] >= flag[i],
           Count <= termsize => flag'[Count] = 2 \/ k <= flag'[Count] + 1,
           ~Booted => k <= 3,
           Top.prog = "shell" => k <= 3,
           UNCHANGED <<pcbs, cur_terminal, execute_terminal, shell_count, ghosts>>,
           \/ page_directory' = page_directory
           \/ page_directory' = [page_directory EXCEPT !.screen =
                  [present |-> TRUE, user |-> TRUE, at |-> VIDEO]],
           got' = <<>> \/ got' = getargs,
           out' = -1 \/ out' = Target
    PROVE  Inv'
<1>1. Types /\ Control /\ Answering /\ ArgumentsKept
  BY DEF Inv
<1>2. PICK q \in ProcessType :
         /\ procs' = [procs EXCEPT ![Count] = q]
         /\ q.prog = Top.prog /\ q.arg = Top.arg /\ q.pc = k
  BY <1>1, GoToMoves
<1>3. /\ procs' \in Seq(ProcessType)
      /\ Count' = Count /\ Top' = q
      /\ \A i \in 1 .. Count : procs'[i].arg = procs[i].arg
      /\ Control'
  BY <1>1, <1>2, TopMoves
<1>4. /\ terminalID' = terminalID /\ args' = args /\ cur_pcb' = cur_pcb
      /\ cur_terminal' = cur_terminal /\ execute_terminal' = execute_terminal
      /\ shell_count' = shell_count /\ asked' = asked /\ reached' = reached
  BY DEF pcbs, ghosts
<1>5. Types'
  BY <1>1, <1>3, <1>4 DEF Types
<1>6. Answering'
  <2>1. ASSUME reached PROVE flag'[termsize] = 2 \/ Count # termsize
    <3>1. CASE Count = termsize
      <4>1. /\ flag[termsize] = 2 /\ flag'[termsize] >= flag[termsize]
            /\ flag'[termsize] \in 0 .. 2
        BY <1>1, <2>1, <3>1 DEF Answering, Sizes
      <4>2. QED BY <4>1
    <3>2. QED BY <3>1
  <2>2. Top'.prog = "shell" => Top'.pc <= 3
    BY <1>2, <1>3
  <2>3. Answering
    BY <1>1
  <2>4. Count' = Count
    BY <1>3
  <2>5. reached => /\ Count' >= termsize
                   /\ Count' = termsize => flag'[termsize] = 2
    BY ONLY <2>1, <2>3, <2>4 DEF Answering
  <2>6. reached => execute_terminal' = asked /\ terminalID'[cur_pcb'[asked] + 1] = asked
    BY ONLY <1>4, <2>3 DEF Answering
  <2>7. QED BY ONLY <1>4, <2>2, <2>5, <2>6 DEF Answering
<1>7. ArgumentsKept'
  BY <1>1, <1>3, <1>4 DEF ArgumentsKept
<1>8. PagesKept'
  <2>1. Count' = Count /\ PagesKept
    BY <1>3 DEF Inv
  <2>2. CASE page_directory' = page_directory
    BY ONLY <2>1, <2>2 DEF PagesKept, Slot
  <2>3. CASE page_directory' = [page_directory EXCEPT !.screen =
                  [present |-> TRUE, user |-> TRUE, at |-> VIDEO]]
    <3>1. /\ DOMAIN page_directory' = DOMAIN page_directory
          /\ page_directory'.low = page_directory.low
          /\ page_directory'.kernel = page_directory.kernel
          /\ page_directory'.program = page_directory.program
          /\ page_directory'.screen.at = VIDEO
      BY ONLY <2>1, <2>3 DEF PagesKept
    <3>2. QED BY ONLY <2>1, <3>1 DEF PagesKept, Slot
  <2>4. QED BY <2>2, <2>3
<1>9. OwnArguments'
  <2>1. Count \in 1 .. Count /\ Top.arg = Top'.arg
    <3>1. Count \in Nat \ {0}
      BY <1>1, SMTT(30) DEF Types, Sizes
    <3>2. Top'.arg = Top.arg
      BY ONLY <1>2, <1>3
    <3>3. QED BY ONLY <3>1, <3>2
  <2>2. ASSUME got' = getargs, Top.arg \notin LongArguments
        PROVE  got' = <<Top.arg>>
    BY <1>1, <2>1, <2>2 DEF ArgumentsKept, getargs
  <2>3. QED BY <2>1, <2>2 DEF OwnArguments
<1>10. AnswersWhereTyped'
  <2>1. ASSUME reached, out' = Target PROVE out' = asked
    BY <1>1, <2>1, AnswerGoes
  <2>2. QED BY <1>4, <2>1 DEF AnswersWhereTyped
<1>11. QED BY <1>3, <1>5, <1>6, <1>7, <1>8, <1>9, <1>10 DEF Inv

-----------------------------------------------------------------------------
\* The calls, one by one.

\* What terminal_write does to the flags.
LEMMA FlagsGrow ==
    ASSUME Sizes, Inv, terminal_write
    PROVE  /\ flag' \in [1 .. termsize -> 0 .. 2]
           /\ \A i \in 1 .. termsize : flag'[i] >= flag[i]
           /\ Count <= termsize => flag'[Count] = 2 \/ flag'[Count] = flag[Count] + 1
<1>1. Count \in 1 .. MAXPROCESS /\ flag \in [1 .. termsize -> 0 .. 2]
      /\ termsize \in Nat
  BY DEF Inv, Types, Sizes
<1>2. CASE OwnFirst
  <2>1. Count \in 1 .. termsize /\ flag[Count] \in 0 .. 1
    BY <1>1, <1>2 DEF OwnFirst
  <2>2. flag' = [flag EXCEPT ![Count] = flag[Count] + 1]
    BY <1>2 DEF terminal_write
  <2>3. QED BY ONLY <1>1, <2>1, <2>2
<1>3. CASE ~OwnFirst
  <2>1. flag' = flag
    BY <1>3 DEF terminal_write
  <2>2. Count <= termsize => flag[Count] = 2
    BY <1>1, <1>3 DEF OwnFirst
  <2>3. QED BY ONLY <1>1, <2>1, <2>2
<1>4. QED BY <1>2, <1>3

\* The place and the flag of a process that is a shell of the first.
LEMMA FlagsSoFar ==
    ASSUME Sizes, Inv
    PROVE  /\ Count <= termsize =>
                  Top.prog = "shell" /\ (flag[Count] = 2 \/ Top.pc <= flag[Count] + 1)
           /\ ~Booted => Top.prog = "shell" /\ Top.pc <= 3
           /\ Top.pc \in 1 .. Len(Script(Top.prog)) /\ Top.pc \in 1 .. 5
           /\ Top.prog \in Programs
           /\ Top = procs[Count] /\ Count \in Nat \ {0}
           /\ \A i \in 1 .. termsize : flag[i] \in 0 .. 2
<1>1. Types /\ FirstAreShells /\ Booting /\ InScripts
  BY DEF Inv, Control
<1>2. /\ Top \in ProcessType /\ Top.pc \in 1 .. Len(Script(Top.prog))
      /\ Count \in Nat \ {0}
      /\ \A i \in 1 .. termsize : flag[i] \in 0 .. 2
  BY <1>1, TopPlace DEF Types, Sizes
<1>3. Count <= termsize =>
        Top.prog = "shell" /\ (flag[Count] = 2 \/ Top.pc <= flag[Count] + 1)
  BY <1>1, <1>2 DEF FirstAreShells
<1>4. ~Booted => Top.prog = "shell" /\ Top.pc <= 3
  BY <1>1 DEF Booting
<1>5. QED BY <1>2, <1>3, <1>4 DEF ProcessType

\* A program writes.
LEMMA WriteInv == ASSUME Sizes, Inv, Write PROVE Inv'
<1>1. PICK what \in {"write", "banner", "prompt"} : Does(what)
  BY DEF Write
<1>2. Does(what) => Script(Top.prog)[Top.pc] = what
  BY DEF Does
<1> DEFINE k == Top.pc + 1
<1>3. k \in 1 .. 5 /\ k <= Len(Script(Top.prog))
  <2>1. Script(Top.prog)[Top.pc] \in Passing
    BY <1>1, <1>2 DEF Passing
  <2>2. /\ Top.prog \in Programs /\ Top.pc \in 1 .. 5
        /\ Top.pc \in 1 .. Len(Script(Top.prog))
    BY FlagsSoFar
  <2>3. QED BY ONLY <2>1, <2>2, Places
<1>4. Top.prog = "shell" => k <= 3
  <2>1. CASE what = "write"
    BY <1>1, <2>1, NotTheShell DEF Inv, ShellSteps
  <2>2. CASE what # "write"
    BY <1>1, <2>2, TheShell DEF Inv, ShellSteps
  <2>3. QED BY <2>1, <2>2
<1>5. Count <= termsize => flag'[Count] = 2 \/ k <= flag'[Count] + 1
  BY FlagsSoFar, FlagsGrow DEF Write
<1>6. ~Booted => k <= 3
  BY <1>4, FlagsSoFar
<1>7. QED
  <2>1. GoTo(k) /\ terminal_write
    BY DEF Write, GoOn
  <2>2. /\ UNCHANGED <<pcbs, cur_terminal, execute_terminal, shell_count, ghosts>>
        /\ got' = <<>> /\ out' = Target
        /\ page_directory' = page_directory
    BY <2>1 DEF terminal_write
  <2>3. QED
    BY <1>3, <1>4, <1>5, <1>6, <2>1, <2>2, FlagsGrow, Ordinary

\* The prompt comes back after "no such command".
LEMMA SorryInv == ASSUME Sizes, Inv, Sorry PROVE Inv'
<1>1. /\ Does("sorry") /\ GoTo(2) /\ terminal_write
  BY DEF Sorry
<1>2. Top.prog = "shell" /\ Top.pc = 5
  BY <1>1, TheShell DEF Inv, ShellSteps
<1>3. 2 \in 1 .. 5 /\ 2 <= Len(Script(Top.prog))
  BY <1>2 DEF Script, shell
<1>4. Count <= termsize => flag'[Count] = 2 \/ 2 <= flag'[Count] + 1
  <2>1. ASSUME Count <= termsize PROVE flag[Count] \in 1 .. 2
    BY <1>2, <2>1, FlagsSoFar DEF Sizes
  <2>2. ASSUME Count <= termsize
        PROVE  flag'[Count] \in 0 .. 2 /\ flag'[Count] >= flag[Count]
    BY <1>1, <2>2, FlagsGrow, FlagsSoFar DEF Sizes
  <2>3. QED BY <2>1, <2>2
<1>5. Booted
  BY <1>2, FlagsSoFar
<1>6. /\ UNCHANGED <<pcbs, cur_terminal, execute_terminal, shell_count, ghosts>>
      /\ got' = <<>> /\ out' = Target /\ page_directory' = page_directory
  BY <1>1 DEF terminal_write
<1>7. QED
  BY <1>1, <1>3, <1>4, <1>5, <1>6, FlagsGrow, Ordinary

\* A call of another program than the shell.
LEMMA AboveInv ==
    ASSUME Sizes, Inv, NEW what, Does(what), what \notin ShellSteps,
           NEW k \in 1 .. 5, GoTo(k), k <= Len(Script(Top.prog)),
           flag' = flag \/ terminal_write,
           UNCHANGED <<pcbs, cur_terminal, execute_terminal, shell_count, ghosts>>,
           \/ page_directory' = page_directory
           \/ page_directory' = [page_directory EXCEPT !.screen =
                  [present |-> TRUE, user |-> TRUE, at |-> VIDEO]],
           got' = <<>> \/ got' = getargs,
           out' = -1 \/ out' = Target
    PROVE  Inv'
<1>1. Top.prog # "shell" /\ Booted /\ ~(Count <= termsize)
  BY NotTheShell DEF Inv, Types, Sizes
<1>2. /\ flag' \in [1 .. termsize -> 0 .. 2]
      /\ \A i \in 1 .. termsize : flag'[i] >= flag[i]
  <2>0. /\ flag \in [1 .. termsize -> 0 .. 2]
        /\ \A i \in 1 .. termsize : flag[i] \in Int
    <3>1. flag \in [1 .. termsize -> 0 .. 2]
      BY DEF Inv, Types
    <3>2. QED BY ONLY <3>1
  <2>1. CASE flag' = flag
    BY ONLY <2>0, <2>1
  <2>2. CASE terminal_write
    BY <2>2, FlagsGrow
  <2>3. QED BY <2>1, <2>2
<1>3. QED BY <1>1, <1>2, Ordinary

\* The next place in the script of such a program.
LEMMA NextPlace ==
    ASSUME Sizes, Inv, NEW what \in Passing, Does(what)
    PROVE  Top.pc + 1 \in 1 .. 5 /\ Top.pc + 1 <= Len(Script(Top.prog))
<1>1. Script(Top.prog)[Top.pc] \in Passing
  BY DEF Does
<1>2. Top.prog \in Programs /\ Top.pc \in 1 .. Len(Script(Top.prog))
  BY FlagsSoFar
<1>3. QED BY ONLY <1>1, <1>2, Places

\* A program takes a step that neither writes nor shows.
LEMMA PlainInv ==
    ASSUME Sizes, Inv, NEW what \in Passing \ {"banner", "prompt"}, Does(what),
           PlainStep
    PROVE  Inv'
<1>1. what \notin ShellSteps
  BY DEF Passing, ShellSteps
<1>2. /\ GoTo(Top.pc + 1) /\ flag' = flag
      /\ UNCHANGED <<pcbs, cur_terminal, execute_terminal, shell_count, ghosts>>
      /\ got' = <<>> /\ out' = -1 /\ page_directory' = page_directory
  BY DEF PlainStep, GoOn, Silent
<1>3. QED BY <1>1, <1>2, NextPlace, AboveInv

\* A program writes, and goes on or stays.
LEMMA WritingInv ==
    ASSUME Sizes, Inv, NEW what \in Passing \ {"banner", "prompt"}, Does(what),
           terminal_write, GoOn \/ procs' = procs
    PROVE  Inv'
<1>1. what \notin ShellSteps
  BY DEF Passing, ShellSteps
<1>2. /\ UNCHANGED <<pcbs, cur_terminal, execute_terminal, shell_count, ghosts>>
      /\ got' = <<>> /\ out' = Target /\ page_directory' = page_directory
  BY DEF terminal_write
<1>3. CASE GoOn
  BY <1>1, <1>2, <1>3, NextPlace, AboveInv DEF GoOn
<1>4. CASE procs' = procs
  <2>1. Top \in ProcessType
    BY TopPlace DEF Inv, Control
  <2>2. [Top EXCEPT !.pc = Top.pc] = Top
    BY <2>1 DEF ProcessType
  <2>3. procs = [procs EXCEPT ![Count] = Top]
    BY DEF Inv, Types
  <2>4. GoTo(Top.pc)
    BY <1>4, <2>2, <2>3 DEF GoTo
  <2>5. Top.pc \in 1 .. 5 /\ Top.pc <= Len(Script(Top.prog))
    BY FlagsSoFar
  <2>6. QED BY <1>1, <1>2, <2>4, <2>5, AboveInv
<1>5. QED BY <1>3, <1>4

\* The system calls of programs that are not shells.
LEMMA CallsInv ==
    ASSUME Sizes, Inv, Prints \/ Quiet \/ Again \/ Read \/ Getargs \/ Handlers \/ Vidmap
    PROVE  Inv'
<1>1. CASE Prints
  BY <1>1, PlainInv, WritingInv DEF Prints, Passing
<1>2. CASE Quiet
  BY <1>2, PlainInv DEF Quiet, Passing
<1>3. CASE Again
  <2>1. /\ Does("again") /\ GoTo(2) /\ flag' = flag
        /\ UNCHANGED <<pcbs, cur_terminal, execute_terminal, shell_count, ghosts>>
        /\ got' = <<>> /\ out' = -1 /\ page_directory' = page_directory
    BY <1>3 DEF Again, Silent
  <2>2. 2 \in 1 .. 5 /\ 2 <= Len(Script(Top.prog))
    BY <2>1, FlagsSoFar, Places DEF Does
  <2>3. "again" \notin ShellSteps
    BY DEF ShellSteps
  <2>4. QED BY <2>1, <2>2, <2>3, AboveInv
<1>4. CASE Read
  <2>1. Does("read") /\ PlainStep
    BY <1>4 DEF Read, PlainStep
  <2>2. QED BY <2>1, PlainInv DEF Passing
<1>5. CASE Getargs
  <2>1. /\ Does("getargs") /\ GoTo(Top.pc + 1) /\ flag' = flag
        /\ UNCHANGED <<pcbs, cur_terminal, execute_terminal, shell_count, ghosts>>
        /\ got' = getargs /\ out' = -1 /\ page_directory' = page_directory
    BY <1>5 DEF Getargs, GoOn
  <2>2. "getargs" \in Passing /\ "getargs" \notin ShellSteps
    BY DEF Passing, ShellSteps
  <2>3. QED BY <2>1, <2>2, NextPlace, AboveInv
<1>6. CASE Handlers
  BY <1>6, PlainInv, WritingInv DEF Handlers, Passing
<1>7. CASE Vidmap
  <2>1. /\ Does("vidmap") /\ GoTo(Top.pc + 1) /\ flag' = flag
        /\ UNCHANGED <<pcbs, cur_terminal, execute_terminal, shell_count, ghosts>>
        /\ got' = <<>> /\ out' = -1
        /\ page_directory' = [page_directory EXCEPT !.screen =
               [present |-> TRUE, user |-> TRUE, at |-> VIDEO]]
    BY <1>7 DEF Vidmap, GoOn, Silent
  <2>2. "vidmap" \in Passing /\ "vidmap" \notin ShellSteps
    BY DEF Passing, ShellSteps
  <2>3. QED BY <2>1, <2>2, NextPlace, AboveInv
<1>8. QED BY <1>1, <1>2, <1>3, <1>4, <1>5, <1>6, <1>7

\* Nothing moves but the terminal in front, or the handler of an exception.
LEMMA StillInv ==
    ASSUME Sizes, Inv, Silent,
           UNCHANGED <<procs, pcbs, execute_terminal, flag, shell_count,
                       page_directory, ghosts>>,
           cur_terminal' \in Terminals
    PROVE  Inv'
<1>1. Types' /\ Control' /\ Answering'
  BY DEF Inv, Types, Control, InScripts, WaitingAreShells, Booting, Booted,
         FirstAreShells, AboveShells, Answering, pcbs, ghosts
<1>2. ArgumentsKept' /\ PagesKept'
  BY DEF Inv, ArgumentsKept, PagesKept, Slot, pcbs
<1>3. OwnArguments' /\ AnswersWhereTyped'
  BY DEF OwnArguments, AnswersWhereTyped, Silent
<1>4. QED BY <1>1, <1>2, <1>3 DEF Inv

\* The shell at its place 3 or 4 goes on with a line, or without.
LEMMA LineInv ==
    ASSUME Sizes, Inv, Booted, Top.prog = "shell", Top.pc \in {3, 4},
           NEW line \in Lines \cup {NotTyped}, NEW k \in 1 .. 5,
           procs' = [procs EXCEPT ![Count].line = line, ![Count].pc = k],
           UNCHANGED <<pcbs, cur_terminal, flag, shell_count, page_directory>>,
           execute_terminal' \in Terminals, asked' \in Terminals,
           ~reached', reached' \in BOOLEAN, Silent
    PROVE  Inv'
<1> DEFINE q == [Top EXCEPT !.line = line, !.pc = k]
<1>1. Top \in ProcessType /\ Types /\ Control
  BY TopPlace DEF Inv, Control
<1>2. /\ q \in ProcessType /\ q.prog = Top.prog /\ q.arg = Top.arg /\ q.pc = k
      /\ procs' = [procs EXCEPT ![Count] = q]
  <2>1. /\ q \in ProcessType /\ q.prog = Top.prog /\ q.arg = Top.arg /\ q.pc = k
    BY <1>1 DEF ProcessType
  <2>2. procs' = [procs EXCEPT ![Count] = q]
    BY <1>1 DEF Types, ProcessType
  <2>3. QED BY <2>1, <2>2
<1>3. q.pc <= Len(Script(q.prog))
  BY <1>2 DEF Script, shell
<1>4. Count <= termsize => flag'[Count] = 2 \/ q.pc <= flag'[Count] + 1
  BY FlagsSoFar, SMTT(30) DEF Sizes
<1>5. /\ flag' \in [1 .. termsize -> 0 .. 2]
      /\ \A i \in 1 .. termsize : flag'[i] >= flag[i]
  <2>1. flag' = flag /\ flag \in [1 .. termsize -> 0 .. 2]
    BY <1>1 DEF Types
  <2>2. \A i \in 1 .. termsize : flag[i] \in 0 .. 2
    BY FlagsSoFar
  <2>3. QED BY ONLY <2>1, <2>2
<1>6. /\ procs' \in Seq(ProcessType)
      /\ Count' = Count /\ Top' = q
      /\ \A i \in 1 .. Count : procs'[i].arg = procs[i].arg
      /\ Control'
  <2> HIDE DEF q
  <2>1. QED BY <1>1, <1>2, <1>3, <1>4, <1>5, TopMoves
<1>7. Types'
  BY <1>1, <1>6 DEF Types, pcbs
<1>8. Answering' /\ OwnArguments' /\ AnswersWhereTyped'
  BY DEF Answering, OwnArguments, AnswersWhereTyped, Silent
<1>9. ArgumentsKept'
  BY <1>6 DEF Inv, ArgumentsKept, pcbs
<1>10. PagesKept'
  BY <1>6 DEF Inv, PagesKept, Slot
<1>11. QED BY <1>6, <1>7, <1>8, <1>9, <1>10 DEF Inv

\* A line is entered at a prompt.
LEMMA EnterInv ==
    ASSUME Sizes, Inv, NEW line \in Lines, Enter(line)
    PROVE  Inv'
<1>1. Top.prog = "shell" /\ Top.pc = 3
  BY TheShell DEF Inv, ShellSteps, Enter
<1> DEFINE k == IF line = NotTyped THEN 2 ELSE 4
<1>2. k \in 1 .. 5 /\ line \in Lines \cup {NotTyped}
  OBVIOUS
<1>3. /\ procs' = [procs EXCEPT ![Count].line = line, ![Count].pc = k]
      /\ UNCHANGED <<pcbs, cur_terminal, flag, shell_count, page_directory>>
      /\ execute_terminal' = execute_terminal /\ asked' = cur_terminal
      /\ reached' = FALSE /\ Silent /\ Booted
  BY DEF Enter
<1>4. execute_terminal \in Terminals /\ cur_terminal \in Terminals
  BY DEF Inv, Types
<1> HIDE DEF k
<1>5. QED BY <1>1, <1>2, <1>3, <1>4, LineInv

-----------------------------------------------------------------------------
\* Processes begin and end.

\* Every program has a first step.
LEMMA Begins == ASSUME NEW p \in Programs PROVE 1 <= Len(Script(p))
BY DEF Programs, Script, shell, testprint, hello, counter, grep, sigtest, fish,
       pingpong

\* What execute leaves when it has launched a program.
LEMMA Launched ==
    ASSUME Sizes, Inv, NEW under \in Seq(ProcessType), Len(under) < MAXPROCESS,
           NEW prog \in Programs, NEW arg \in Arguments,
           Launch(under, prog, arg),
           \A i \in 1 .. Len(under) : i <= Count /\ under[i].arg = procs[i].arg
    PROVE  /\ procs' \in Seq(ProcessType)
           /\ Count' = Len(under) + 1 /\ Top' = Process(prog, arg)
           /\ \A i \in 1 .. Len(under) : procs'[i] = under[i]
           /\ terminalID' \in [Pids -> Terminals]
           /\ args' \in [Pids -> {Stored(a, t) : a \in Arguments, t \in Terminals}]
           /\ cur_pcb' \in [Terminals -> 0 .. MAXPROCESS - 1]
           /\ execute_terminal' = cur_terminal
           /\ ArgumentsKept' /\ PagesKept'
           /\ Len(under) >= termsize =>
                  terminalID'[cur_pcb'[cur_terminal] + 1] = cur_terminal
<1> DEFINE n == Len(under) + 1
           t == IF n <= termsize THEN n - 1 ELSE cur_terminal
           new == Process(prog, arg)
<1>1. /\ procs' = Append(under, new)
      /\ page_directory' = execute_paging(page_directory, n - 1)
      /\ terminalID' = [terminalID EXCEPT ![n] = t]
      /\ args' = [args EXCEPT ![n] = Stored(arg, t)]
      /\ cur_pcb' = [cur_pcb EXCEPT ![t] = n - 1]
      /\ execute_terminal' = cur_terminal
  BY DEF Launch
<1>2. Types /\ ArgumentsKept /\ PagesKept
  BY DEF Inv
<1>3. n \in Pids /\ n - 1 \in 0 .. MAXPROCESS - 1 /\ t \in Terminals
  BY <1>2 DEF Types, Sizes, Pids, Terminals
<1>4. new \in ProcessType /\ new.arg = arg
  BY DEF ProcessType, Process
<1>5. /\ procs' \in Seq(ProcessType) /\ Len(procs') = n /\ procs'[n] = new
      /\ \A i \in 1 .. Len(under) : procs'[i] = under[i]
  <2> HIDE DEF new
  <2>1. QED BY <1>1, <1>4
<1>6. terminalID' \in [Pids -> Terminals]
  BY <1>1, <1>2, <1>3 DEF Types
<1>7. args' \in [Pids -> {Stored(a, u) : a \in Arguments, u \in Terminals}]
  <2> DEFINE all == {Stored(a, u) : a \in Arguments, u \in Terminals}
  <2>1. Stored(arg, t) \in all
    BY <1>3
  <2>2. args \in [Pids -> all]
    BY <1>2 DEF Types
  <2> HIDE DEF all
  <2>3. args' \in [Pids -> all]
    BY <1>1, <2>1, <2>2
  <2>4. QED BY <2>3 DEF all
<1>8. cur_pcb' \in [Terminals -> 0 .. MAXPROCESS - 1]
  BY <1>1, <1>2, <1>3 DEF Types
<1>9. ArgumentsKept'
  <2>1. SUFFICES ASSUME NEW i \in 1 .. n, procs'[i].arg \notin LongArguments
                 PROVE  args'[i] = <<procs'[i].arg>>
    BY <1>5 DEF ArgumentsKept
  <2>2. CASE i = n
    <3>1. procs'[i].arg = arg /\ args'[i] = Stored(arg, t)
      BY <1>1, <1>2, <1>3, <1>4, <1>5, <2>2 DEF Types
    <3>2. QED BY <2>1, <3>1 DEF Stored
  <2>3. CASE i # n
    <3>1. i \in 1 .. Len(under) /\ i \in 1 .. Count
      BY <1>2, <2>3 DEF Types, Sizes
    <3>2. procs'[i].arg = procs[i].arg
      BY <1>5, <3>1
    <3>3. args'[i] = args[i]
      BY <1>1, <2>3
    <3>4. QED BY <1>2, <2>1, <3>1, <3>2, <3>3 DEF ArgumentsKept
  <2>4. QED BY <2>2, <2>3
<1>10. PagesKept'
  <2>1. /\ DOMAIN page_directory' = DOMAIN page_directory
        /\ page_directory'.low = page_directory.low
        /\ page_directory'.kernel = page_directory.kernel
        /\ page_directory'.screen = page_directory.screen
        /\ page_directory'.program.at = Slot(n - 1)
    BY <1>1, <1>2 DEF PagesKept, execute_paging
  <2>2. Len(procs') - 1 = n - 1
    BY <1>5
  <2>3. QED BY <1>2, <2>1, <2>2 DEF PagesKept
<1>11. ASSUME Len(under) >= termsize
       PROVE  terminalID'[cur_pcb'[cur_terminal] + 1] = cur_terminal
  <2>1. t = cur_terminal
    BY <1>11 DEF Sizes
  <2>2. cur_pcb'[cur_terminal] = n - 1
    BY <1>1, <1>2, <2>1 DEF Types
  <2>3. terminalID'[n] = cur_terminal
    BY <1>1, <1>2, <1>3, <2>1 DEF Types
  <2>4. QED BY <2>2, <2>3
<1>12. QED BY <1>1, <1>5, <1>6, <1>7, <1>8, <1>9, <1>10, <1>11

\* The timer launches a shell.
LEMMA TickInv == ASSUME Sizes, Inv, Tick PROVE Inv'
<1>1. /\ ~Booted /\ shell_count' = shell_count + 1
      /\ Launch(procs, "shell", NoArgument) /\ Silent /\ reached' = FALSE
      /\ cur_terminal' = cur_terminal /\ flag' = flag /\ asked' = asked
  BY DEF Tick
<1>2. Types /\ Control
  BY DEF Inv
<1>3. /\ Count = shell_count + 1 /\ Top.prog = "shell" /\ Top.pc <= 3
      /\ shell_count <= MAX_SHELL_COUNT /\ shell_count \in Nat
      /\ Count \in Nat \ {0}
  BY <1>1, <1>2 DEF Control, Booting, Booted, Types, Sizes
<1>4. procs \in Seq(ProcessType) /\ Count < MAXPROCESS
  BY <1>2, <1>3 DEF Types, Sizes
<1>5. "shell" \in Programs /\ NoArgument \in Arguments
  BY DEF Programs, Arguments
<1>6. /\ procs' \in Seq(ProcessType)
      /\ Count' = Count + 1 /\ Top' = Process("shell", NoArgument)
      /\ \A i \in 1 .. Count : procs'[i] = procs[i]
      /\ terminalID' \in [Pids -> Terminals]
      /\ args' \in [Pids -> {Stored(a, t) : a \in Arguments, t \in Terminals}]
      /\ cur_pcb' \in [Terminals -> 0 .. MAXPROCESS - 1]
      /\ execute_terminal' = cur_terminal
      /\ ArgumentsKept' /\ PagesKept'
  BY <1>1, <1>4, <1>5, Launched
<1>7. /\ procs'[Count + 1].prog = "shell" /\ procs'[Count + 1].pc = 1
  BY <1>6 DEF Process
<1>8. Types'
  <2>1. Count + 1 \in 1 .. MAXPROCESS /\ shell_count' \in 0 .. MAX_SHELL_COUNT + 1
    BY <1>1, <1>3, <1>4 DEF Sizes
  <2>2. Count' \in 1 .. MAXPROCESS
    BY <1>6, <2>1
  <2>3. /\ cur_terminal' \in Terminals /\ execute_terminal' \in Terminals
        /\ asked' \in Terminals /\ reached' \in BOOLEAN
        /\ flag' \in [1 .. termsize -> 0 .. 2]
    <3>1. /\ cur_terminal \in Terminals /\ asked \in Terminals
          /\ flag \in [1 .. termsize -> 0 .. 2]
      BY ONLY <1>2 DEF Types
    <3>2. execute_terminal' = cur_terminal
      BY <1>6
    <3>3. QED BY ONLY <1>1, <3>1, <3>2
  <2>4. QED BY ONLY <1>6, <2>1, <2>2, <2>3 DEF Types
<1>9. InScripts'
  <2>1. \A i \in 1 .. Count : procs'[i].pc <= Len(Script(procs'[i].prog))
    BY <1>2, <1>6 DEF Control, InScripts
  <2>2. procs'[Count + 1].pc <= Len(Script(procs'[Count + 1].prog))
    BY <1>5, <1>7, Begins
  <2>3. QED BY <1>3, <1>6, <2>1, <2>2 DEF InScripts
<1>10. WaitingAreShells'
  <2>1. \A i \in 1 .. Count : procs[i].prog = "shell" /\ procs[i].pc <= 3
    BY <1>2, <1>3 DEF Control, WaitingAreShells
  <2>2. ASSUME NEW i \in 1 .. Count', i < Count'
        PROVE  procs'[i].prog = "shell" /\ procs'[i].pc <= 3
    <3>1. i \in 1 .. Count
      BY ONLY <1>3, <1>6, <2>2
    <3>2. procs'[i] = procs[i]
      BY <1>6, <3>1
    <3>3. QED BY <2>1, <3>1, <3>2
  <2>3. QED BY ONLY <2>2 DEF WaitingAreShells
<1>11. Booting'
  BY <1>1, <1>3, <1>6, <1>7 DEF Booting, Booted, Sizes
<1>12. FirstAreShells'
  <2>1. SUFFICES ASSUME NEW i \in 1 .. termsize, i <= Count + 1
                 PROVE  /\ procs'[i].prog = "shell"
                        /\ flag[i] = 2 \/ procs'[i].pc <= flag[i] + 1
    BY <1>1, <1>6 DEF FirstAreShells
  <2>2. CASE i = Count + 1
    <3>1. flag[i] \in 0 .. 2
      BY <1>2, SMTT(30) DEF Types
    <3>2. QED BY <1>7, <2>2, <3>1
  <2>3. CASE i # Count + 1
    <3>1. i <= Count /\ i \in 1 .. Count
      BY <1>3, <2>1, <2>3 DEF Sizes
    <3>2. procs'[i] = procs[i]
      BY ONLY <1>6, <3>1
    <3>3. procs[i].prog = "shell" /\ (flag[i] = 2 \/ procs[i].pc <= flag[i] + 1)
      BY ONLY <1>2, <3>1, <2>1 DEF Control, FirstAreShells
    <3>4. QED BY ONLY <3>2, <3>3
  <2>4. QED BY <2>2, <2>3
<1>13. AboveShells'
  <2>1. CASE Count = termsize
    BY <1>6, <1>7, <2>1 DEF AboveShells
  <2>2. CASE Count > termsize
    <3>1. termsize + 1 \in 1 .. Count
      BY <1>3, <2>2 DEF Sizes
    <3>2. flag[termsize] = 2 \/ procs[termsize + 1].prog = "shell"
      BY <1>2, <2>2 DEF Control, AboveShells
    <3>3. procs'[termsize + 1] = procs[termsize + 1] /\ flag' = flag
      BY <1>1, <1>6, <3>1
    <3>4. flag'[termsize] = 2 \/ procs'[termsize + 1].prog = "shell"
      BY ONLY <3>2, <3>3
    <3>5. QED BY ONLY <3>4 DEF AboveShells
  <2>3. CASE Count < termsize
    BY <1>3, <1>6, <2>3 DEF AboveShells, Sizes
  <2>4. QED BY <1>3, <2>1, <2>2, <2>3 DEF Sizes
<1>14. Answering' /\ OwnArguments' /\ AnswersWhereTyped'
  BY <1>1 DEF Answering, OwnArguments, AnswersWhereTyped, Silent
<1>15. QED BY <1>6, <1>8, <1>9, <1>10, <1>11, <1>12, <1>13, <1>14 DEF Inv, Control

\* A program starts when the timer has launched its shells.
LEMMA StartInv ==
    ASSUME Sizes, Inv, Booted, NEW under \in Seq(ProcessType),
           Len(under) < MAXPROCESS, Len(under) >= termsize - 1,
           NEW prog \in Programs, NEW arg \in Arguments,
           Launch(under, prog, arg),
           \A i \in 1 .. Len(under) :
               /\ i <= Count /\ under[i].arg = procs[i].arg
               /\ under[i].prog = "shell" /\ under[i].pc <= 3
               /\ i <= termsize => flag[i] = 2 \/ under[i].pc <= flag[i] + 1,
           prog = "shell" \/ (Len(under) >= termsize /\ flag[termsize] = 2)
                          \/ Len(under) > termsize,
           reached' = FALSE \/ reached' = (cur_terminal = asked /\ Count >= termsize),
           Count >= termsize => reached' = FALSE \/ Len(under) >= termsize,
           Silent, UNCHANGED <<cur_terminal, flag, shell_count, asked>>
    PROVE  Inv'
<1> DEFINE n == Len(under) + 1
<1>1. Types /\ Control
  BY DEF Inv
<1>2. /\ procs' \in Seq(ProcessType)
      /\ Count' = n /\ Top' = Process(prog, arg)
      /\ \A i \in 1 .. Len(under) : procs'[i] = under[i]
      /\ terminalID' \in [Pids -> Terminals]
      /\ args' \in [Pids -> {Stored(a, t) : a \in Arguments, t \in Terminals}]
      /\ cur_pcb' \in [Terminals -> 0 .. MAXPROCESS - 1]
      /\ execute_terminal' = cur_terminal
      /\ ArgumentsKept' /\ PagesKept'
      /\ Len(under) >= termsize =>
             terminalID'[cur_pcb'[cur_terminal] + 1] = cur_terminal
  BY Launched
<1>3. /\ n \in 1 .. MAXPROCESS /\ n >= termsize /\ Len(under) \in Nat
      /\ termsize \in Nat \ {0} /\ Len(under) = n - 1
      /\ \A i \in 1 .. termsize : flag[i] \in 0 .. 2
  BY FlagsSoFar DEF Sizes
<1>4. /\ procs'[n].prog = prog /\ procs'[n].pc = 1
  BY <1>2 DEF Process
<1>5. /\ cur_terminal' = cur_terminal /\ flag' = flag
      /\ shell_count' = shell_count /\ asked' = asked
  OBVIOUS
<1>6. \A i \in 1 .. n - 1 :
        /\ procs'[i].prog = "shell" /\ procs'[i].pc <= 3
        /\ i <= termsize => flag[i] = 2 \/ procs'[i].pc <= flag[i] + 1
  BY ONLY <1>2, <1>3, \A i \in 1 .. Len(under) :
               /\ under[i].prog = "shell" /\ under[i].pc <= 3
               /\ i <= termsize => flag[i] = 2 \/ under[i].pc <= flag[i] + 1
<1>7. Types'
  <2>1. /\ cur_terminal \in Terminals /\ asked \in Terminals
        /\ flag \in [1 .. termsize -> 0 .. 2]
        /\ shell_count \in 0 .. MAX_SHELL_COUNT + 1
    BY <1>1 DEF Types
  <2>2. reached' \in BOOLEAN
    OBVIOUS
  <2>3. n \in 1 .. MAXPROCESS
    BY <1>3
  <2> HIDE DEF n
  <2>4. QED BY ONLY <1>2, <1>5, <2>1, <2>2, <2>3 DEF Types
<1> HIDE DEF n
<1>8. InScripts'
  <2>1. ASSUME NEW i \in 1 .. n PROVE procs'[i].pc <= Len(Script(procs'[i].prog))
    <3>1. CASE i = n
      BY <1>4, <3>1, Begins
    <3>2. CASE i # n
      <4>1. i \in 1 .. n - 1 /\ procs'[i] \in ProcessType
        BY <1>2, <1>3, <3>2
      <4>2. procs'[i].pc <= 3 /\ procs'[i].pc \in 1 .. 5 /\ procs'[i].prog = "shell"
        BY <1>6, <4>1 DEF ProcessType
      <4>3. Len(Script("shell")) = 5
        BY DEF Script, shell
      <4>4. Len(Script(procs'[i].prog)) = 5
        BY <4>2, <4>3
      <4>5. procs'[i].pc <= 5
        BY <4>2
      <4>6. QED BY ONLY <4>4, <4>5
    <3>3. QED BY <3>1, <3>2
  <2>2. QED BY ONLY <1>2, <2>1 DEF InScripts
<1>9. WaitingAreShells'
  <2>1. \A i \in 1 .. n : i < n => i \in 1 .. n - 1
    BY ONLY <1>3
  <2>2. QED BY ONLY <1>2, <1>6, <2>1 DEF WaitingAreShells
<1>10. Booting'
  BY ONLY <1>2, <1>3, <1>5, Booted DEF Booting, Booted
<1>11. FirstAreShells'
  <2>1. SUFFICES ASSUME NEW i \in 1 .. termsize, i <= n
                 PROVE  /\ procs'[i].prog = "shell"
                        /\ flag[i] = 2 \/ procs'[i].pc <= flag[i] + 1
    BY <1>2, <1>5 DEF FirstAreShells
  <2>2. CASE i = n
    <3>1. prog = "shell"
      BY <1>3, <2>1, <2>2
    <3>2. flag[i] \in 0 .. 2
      BY <1>3
    <3>3. QED BY ONLY <1>4, <2>2, <3>1, <3>2
  <2>3. CASE i # n
    <3>1. i \in 1 .. n - 1 /\ i <= termsize
      BY ONLY <1>3, <2>1, <2>3
    <3>2. QED BY ONLY <1>6, <3>1
  <2>4. QED BY <2>2, <2>3
<1>12. AboveShells'
  <2>1. SUFFICES ASSUME n > termsize
                 PROVE  flag[termsize] = 2 \/ procs'[termsize + 1].prog = "shell"
    BY <1>2, <1>5 DEF AboveShells
  <2>2. CASE n = termsize + 1
    BY <1>3, <1>4, <2>2
  <2>3. CASE n # termsize + 1
    <3>1. termsize + 1 \in 1 .. n - 1
      BY ONLY <1>3, <2>1, <2>3
    <3>2. QED BY <1>6, <3>1
  <2>4. QED BY <2>2, <2>3
<1>13. Answering'
  <2>1. SUFFICES ASSUME reached' PROVE Answering'
    BY DEF Answering
  <2>2. cur_terminal = asked /\ Len(under) >= termsize
    BY <2>1
  <2>3. n > termsize
    BY <1>3, <2>2
  <2>4. Top'.pc = 1
    BY <1>2 DEF Process
  <2>5. execute_terminal' = asked' /\ terminalID'[cur_pcb'[asked'] + 1] = asked'
    BY ONLY <1>2, <1>5, <2>2
  <2>6. Count' >= termsize /\ Count' # termsize
    BY ONLY <1>2, <1>3, <2>3
  <2>7. Top'.pc <= 3
    BY <2>4
  <2>8. QED BY ONLY <2>5, <2>6, <2>7 DEF Answering
<1>14. OwnArguments' /\ AnswersWhereTyped'
  BY DEF OwnArguments, AnswersWhereTyped, Silent
<1>15. QED
  BY <1>2, <1>7, <1>8, <1>9, <1>10, <1>11, <1>12, <1>13, <1>14 DEF Inv, Control

\* Only a shell that has read "exit" returns from the first processes.
LEMMA EndsWhere ==
    ASSUME Sizes, Inv, Ends
    PROVE  /\ Booted /\ Count >= termsize /\ Count \in 1 .. MAXPROCESS
           /\ Top.prog = "shell" => Top.pc = 4
<1>1. CASE Does("ends")
  <2>1. Top.prog # "shell" /\ Booted
    BY <1>1, NotTheShell DEF Inv, ShellSteps
  <2>2. QED BY <2>1 DEF Inv, Control, Booting, Types
<1>2. CASE Does("command")
  <2>1. Top.prog = "shell" /\ Top.pc = 4
    BY <1>2, TheShell DEF Inv, ShellSteps
  <2>2. Booted
    BY <2>1, FlagsSoFar
  <2>3. QED BY <2>1, <2>2 DEF Inv, Control, Booting, Types
<1>3. QED BY <1>1, <1>2 DEF Ends

\* All elements of a sequence but the last.
LEMMA Shorter ==
    ASSUME NEW S, NEW s \in Seq(S), NEW n \in 1 .. Len(s)
    PROVE  /\ SubSeq(s, 1, n - 1) \in Seq(S)
           /\ Len(SubSeq(s, 1, n - 1)) = n - 1
           /\ \A i \in 1 .. n - 1 : SubSeq(s, 1, n - 1)[i] = s[i]
<1>1. Len(SubSeq(s, 1, n - 1)) = n - 1
  OBVIOUS
<1>2. SubSeq(s, 1, n - 1) \in Seq(S)
  OBVIOUS
<1>3. \A i \in 1 .. n - 1 : SubSeq(s, 1, n - 1)[i] = s[i]
  OBVIOUS
<1>4. QED BY <1>1, <1>2, <1>3

\* The processes under the running one.
LEMMA UnderIs ==
    ASSUME Sizes, Inv
    PROVE  /\ Under \in Seq(ProcessType) /\ Len(Under) = Count - 1
           /\ \A i \in 1 .. Count - 1 :
                  /\ Under[i] = procs[i]
                  /\ procs[i].prog = "shell" /\ procs[i].pc <= 3
                  /\ procs[i] \in ProcessType
                  /\ i <= termsize => flag[i] = 2 \/ procs[i].pc <= flag[i] + 1
<1>1. procs \in Seq(ProcessType) /\ Count \in Nat \ {0}
  BY DEF Inv, Types, Sizes
<1>2. /\ Under \in Seq(ProcessType) /\ Len(Under) = Count - 1
      /\ \A i \in 1 .. Count - 1 : Under[i] = procs[i] /\ procs[i] \in ProcessType
  <2>1. Count \in 1 .. Len(procs)
    BY <1>1
  <2>2. \A i \in 1 .. Count - 1 : procs[i] \in ProcessType
    BY ONLY <1>1
  <2>3. QED BY ONLY <1>1, <2>1, <2>2, Shorter DEF Under, Count
<1>3. ASSUME NEW i \in 1 .. Count - 1
      PROVE  /\ procs[i].prog = "shell" /\ procs[i].pc <= 3
             /\ i <= termsize => flag[i] = 2 \/ procs[i].pc <= flag[i] + 1
  <2>1. i \in 1 .. Count /\ i < Count /\ i <= Count
    BY <1>1
  <2>2. i <= termsize => i \in 1 .. termsize
    BY DEF Sizes
  <2>3. QED BY <2>1, <2>2 DEF Inv, Control, WaitingAreShells, FirstAreShells
<1>4. QED BY <1>2, <1>3

\* A terminal's shell ends, and another takes its place.
LEMMA HaltShellInv == ASSUME Sizes, Inv, HaltShell PROVE Inv'
<1>1. /\ Ends /\ Count <= termsize /\ Silent
      /\ Launch(Under, "shell", NoArgument) /\ reached' = FALSE
      /\ UNCHANGED <<cur_terminal, flag, shell_count, asked>>
  BY DEF HaltShell
<1>2. Booted /\ Count = termsize /\ Count \in 1 .. MAXPROCESS
  BY <1>1, EndsWhere DEF Sizes
<1>3. /\ Under \in Seq(ProcessType) /\ Len(Under) < MAXPROCESS
      /\ Len(Under) >= termsize - 1
  <2>1. Under \in Seq(ProcessType) /\ Len(Under) = Count - 1
    BY UnderIs
  <2>2. MAXPROCESS \in Nat /\ termsize \in Nat
    BY DEF Sizes
  <2>3. QED BY ONLY <1>2, <2>1, <2>2
<1>4. \A i \in 1 .. Len(Under) :
        /\ i <= Count /\ Under[i].arg = procs[i].arg
        /\ Under[i].prog = "shell" /\ Under[i].pc <= 3
        /\ i <= termsize => flag[i] = 2 \/ Under[i].pc <= flag[i] + 1
  BY <1>2, UnderIs
<1>5. "shell" \in Programs /\ NoArgument \in Arguments
  BY DEF Programs, Arguments
<1>6. QED BY <1>1, <1>2, <1>3, <1>4, <1>5, StartInv

\* Another program ends.
LEMMA HaltChildInv == ASSUME Sizes, Inv, HaltChild PROVE Inv'
<1>1. /\ Ends /\ Count > termsize /\ Silent /\ procs' = Under
      /\ page_directory' = execute_paging(page_directory, Count - 2)
      /\ terminalID' = terminalID /\ args' = args /\ cur_pcb' = cur_pcb
      /\ cur_terminal' = cur_terminal /\ execute_terminal' = execute_terminal
      /\ flag' = flag /\ shell_count' = shell_count
      /\ asked' = asked /\ reached' = reached
  BY DEF HaltChild, pcbs, ghosts
<1>2. /\ Booted /\ Count \in 1 .. MAXPROCESS
      /\ Top.prog = "shell" => Top.pc = 4
  BY <1>1, EndsWhere
<1>3. /\ procs' \in Seq(ProcessType) /\ Count' = Count - 1
      /\ \A i \in 1 .. Count - 1 :
             /\ procs'[i] = procs[i] /\ procs[i] \in ProcessType
             /\ procs[i].prog = "shell" /\ procs[i].pc <= 3
             /\ i <= termsize => flag[i] = 2 \/ procs[i].pc <= flag[i] + 1
  BY <1>1, UnderIs
<1>4. /\ termsize \in Nat \ {0} /\ Count - 1 \in 1 .. MAXPROCESS
      /\ Count - 1 >= termsize /\ Count - 1 \in 1 .. Count - 1
  BY <1>1, <1>2 DEF Sizes
<1>5. Types'
  <2>1. Types
    BY DEF Inv
  <2>2. /\ procs' \in Seq(ProcessType) /\ Count' \in 1 .. MAXPROCESS
    BY <1>3, <1>4
  <2>3. QED BY ONLY <1>1, <2>1, <2>2 DEF Types
<1>6. InScripts'
  <2>1. \A i \in 1 .. Count - 1 : procs[i].pc <= Len(Script(procs[i].prog))
    BY <1>2 DEF Inv, Control, InScripts
  <2>2. QED BY ONLY <1>3, <2>1 DEF InScripts
<1>7. WaitingAreShells'
  BY ONLY <1>3 DEF WaitingAreShells, Count
<1>8. Booting'
  BY ONLY <1>1, <1>2, <1>3, <1>4 DEF Booting, Booted, Count
<1>9. FirstAreShells'
  <2>1. \A i \in 1 .. termsize : i <= Count - 1 => i \in 1 .. Count - 1
    BY ONLY <1>4
  <2>2. QED BY ONLY <1>1, <1>3, <2>1 DEF FirstAreShells, Count
<1>10. AboveShells'
  <2>1. Count - 1 > termsize => termsize + 1 \in 1 .. Count - 1
    BY ONLY <1>4
  <2>2. QED BY ONLY <1>1, <1>3, <2>1 DEF AboveShells, Count
<1>11. Answering'
  <2>1. SUFFICES ASSUME reached PROVE Answering'
    BY <1>1 DEF Answering
  <2>2. Answering /\ AboveShells
    BY DEF Inv, Control
  <2>3. ASSUME Count - 1 = termsize PROVE flag[termsize] = 2
    <3>1. Count = termsize + 1
      BY <1>4, <2>3
    <3>2. Top.prog # "shell"
      BY <1>2, <2>1, <2>2 DEF Answering
    <3>3. QED BY <1>1, <2>2, <3>1, <3>2 DEF AboveShells
  <2>4. Top'.pc <= 3
    BY ONLY <1>3, <1>4 DEF Top, Count
  <2>5. execute_terminal = asked /\ terminalID[cur_pcb[asked] + 1] = asked
    BY ONLY <2>1, <2>2 DEF Answering
  <2>6. QED BY ONLY <1>1, <1>3, <1>4, <2>3, <2>4, <2>5 DEF Answering
<1>12. ArgumentsKept'
  <2>1. ASSUME NEW i \in 1 .. Count - 1, procs[i].arg \notin LongArguments
        PROVE  args[i] = <<procs[i].arg>>
    <3>1. i \in 1 .. Count
      BY <1>2
    <3>2. QED BY <2>1, <3>1 DEF Inv, ArgumentsKept
  <2>2. QED BY ONLY <1>1, <1>3, <2>1 DEF ArgumentsKept, Count
<1>13. PagesKept'
  <2>1. PagesKept
    BY DEF Inv
  <2>2. /\ DOMAIN page_directory' = DOMAIN page_directory
        /\ page_directory'.low = page_directory.low
        /\ page_directory'.kernel = page_directory.kernel
        /\ page_directory'.screen = page_directory.screen
        /\ page_directory'.program.at = Slot(Count - 2)
    BY <1>1, <2>1 DEF PagesKept, execute_paging
  <2>3. Len(procs') - 1 = Count - 2
    BY <1>2, <1>3
  <2>4. QED BY ONLY <2>1, <2>2, <2>3 DEF PagesKept, Slot, Count
<1>14. OwnArguments' /\ AnswersWhereTyped'
  BY <1>1 DEF OwnArguments, AnswersWhereTyped, Silent
<1>15. QED
  BY <1>5, <1>6, <1>7, <1>8, <1>9, <1>10, <1>11, <1>12, <1>13, <1>14 DEF Inv, Control

\* A shell launches the program of its line, or none.
LEMMA CommandInv == ASSUME Sizes, Inv, Command PROVE Inv'
<1>1. /\ Does("command") /\ Silent
      /\ cur_terminal' = cur_terminal /\ flag' = flag
      /\ shell_count' = shell_count /\ asked' = asked
  BY DEF Command
<1>2. Top.prog = "shell" /\ Top.pc = 4
  BY <1>1, TheShell DEF Inv, ShellSteps
<1>3. Booted
  BY <1>2, FlagsSoFar
<1>4. Count >= termsize /\ Types
  BY <1>3 DEF Inv, Control, Booting
<1>5. CASE Count < MAXPROCESS /\ Top.line.name \in Programs
  <2> DEFINE q == [Top EXCEPT !.pc = 2, !.line = NotTyped]
             under == [procs EXCEPT ![Count].pc = 2, ![Count].line = NotTyped]
  <2>1. /\ Launch(under, Top.line.name, Top.line.arg)
        /\ reached' = (cur_terminal = asked /\ Count >= termsize)
    BY <1>5 DEF Command
  <2>2. Top \in ProcessType /\ Top.line # NotTyped
    BY <1>5, TopPlace DEF Inv, Control, NotTyped, Programs
  <2>3. Top.line.arg \in Arguments
    BY <2>2 DEF ProcessType, Arguments
  <2>4. /\ q \in ProcessType /\ q.prog = "shell" /\ q.pc = 2 /\ q.arg = Top.arg
    <3>1. NotTyped \in Lines \cup {NotTyped} /\ 2 \in 1 .. 5
      OBVIOUS
    <3>2. q.prog = "shell" /\ q.pc = 2 /\ q.arg = Top.arg /\ q.line = NotTyped
      BY ONLY <1>2, <2>2 DEF ProcessType
    <3>3. q \in ProcessType
      BY ONLY <2>2, <3>1 DEF ProcessType
    <3>4. QED BY <3>2, <3>3
  <2>5. under = [procs EXCEPT ![Count] = q]
    BY <1>4 DEF Types
  <2>6. procs \in Seq(ProcessType) /\ Count \in Nat \ {0}
    BY <1>4 DEF Types, Sizes
  <2> HIDE DEF q, under
  <2>7. /\ under \in Seq(ProcessType) /\ Len(under) = Count
        /\ \A i \in 1 .. Count : under[i] = IF i = Count THEN q ELSE procs[i]
    BY ONLY <2>4, <2>5, <2>6 DEF Count
  <2>8. Count <= termsize => flag[Count] = 2
    BY <1>2, FlagsSoFar DEF Sizes
  <2>9. ASSUME NEW i \in 1 .. Len(under)
        PROVE  /\ i <= Count /\ under[i].arg = procs[i].arg
               /\ under[i].prog = "shell" /\ under[i].pc <= 3
               /\ i <= termsize => flag[i] = 2 \/ under[i].pc <= flag[i] + 1
    <3>1. CASE i = Count
      BY <2>4, <2>6, <2>7, <2>8, <3>1
    <3>2. CASE i # Count
      <4>1. i \in 1 .. Count - 1 /\ under[i] = procs[i]
        BY ONLY <2>6, <2>7, <2>9, <3>2
      <4>2. i <= Count
        BY ONLY <2>6, <4>1
      <4>3. QED BY <4>1, <4>2, UnderIs
    <3>3. QED BY <3>1, <3>2
  <2>10. Len(under) < MAXPROCESS /\ Len(under) >= termsize - 1
         /\ Len(under) >= termsize
    BY <1>4, <1>5, <2>7 DEF Sizes
  <2>11. \/ Len(under) >= termsize /\ flag[termsize] = 2
         \/ Len(under) > termsize
    BY <1>4, <2>6, <2>7, <2>8 DEF Sizes
  <2>12. reached' = FALSE \/ Len(under) >= termsize
    BY <2>10
  <2>13. QED
    BY <1>1, <1>3, <1>5, <2>1, <2>3, <2>7, <2>9, <2>10, <2>11, StartInv
<1>6. CASE ~(Count < MAXPROCESS /\ Top.line.name \in Programs)
  <2>1. /\ procs' = [procs EXCEPT ![Count].line = NotTyped, ![Count].pc = 5]
        /\ execute_terminal' = cur_terminal /\ reached' = FALSE
        /\ UNCHANGED <<pcbs, page_directory>>
    <3>1. [procs EXCEPT ![Count].pc = 5, ![Count].line = NotTyped]
            = [procs EXCEPT ![Count].line = NotTyped, ![Count].pc = 5]
      <4>1. Top \in ProcessType
        BY TopPlace DEF Inv, Control
      <4>2. [Top EXCEPT !.pc = 5, !.line = NotTyped]
              = [Top EXCEPT !.line = NotTyped, !.pc = 5]
        BY <4>1 DEF ProcessType
      <4>3. QED BY <4>2
    <3>2. QED BY <1>6, <3>1 DEF Command
  <2>2. execute_terminal' \in Terminals /\ asked' \in Terminals
    BY <1>1, <1>4, <2>1 DEF Types
  <2>3. NotTyped \in Lines \cup {NotTyped} /\ 5 \in 1 .. 5
    OBVIOUS
  <2>4. Top.pc \in {3, 4} /\ ~reached' /\ reached' \in BOOLEAN
    BY <1>2, <2>1
  <2>5. UNCHANGED <<pcbs, cur_terminal, flag, shell_count, page_directory>>
    BY ONLY <1>1, <2>1
  <2>6. QED BY <1>1, <1>2, <1>3, <2>1, <2>2, <2>3, <2>4, <2>5, LineInv
<1>7. QED BY <1>5, <1>6

-----------------------------------------------------------------------------
\* No process at first.
LEMMA InitInv == Sizes /\ Init => Inv
<1> SUFFICES ASSUME Sizes, Init PROVE Inv
  OBVIOUS
<1> DEFINE first == Process("shell", NoArgument)
<1>1. first \in ProcessType /\ first.prog = "shell" /\ first.pc = 1 /\ first.arg = NoArgument
  BY DEF Process, ProcessType, Programs, Arguments
<1>2. procs = <<first>>
  BY DEF Init
<1> HIDE DEF first
<1>3. procs \in Seq(ProcessType) /\ Count = 1 /\ procs[1] = first
  BY <1>1, <1>2
<1>4. 0 \in Terminals
  BY DEF Sizes, Terminals
<1>5. args \in [Pids -> {Stored(a, t) : a \in Arguments, t \in Terminals}]
  <2> DEFINE all == {Stored(a, t) : a \in Arguments, t \in Terminals}
  <2>1. Stored(NoArgument, 0) = <<NoArgument>>
    BY DEF Stored, Sizes
  <2>2. Stored(NoArgument, 0) \in all
    BY <1>4 DEF Arguments
  <2>3. <<NoArgument>> \in all
    BY <2>1, <2>2
  <2>4. args = [n \in Pids |-> <<NoArgument>>]
    BY DEF Init
  <2> HIDE DEF all
  <2>5. args \in [Pids -> all]
    BY <2>3, <2>4
  <2>6. QED BY <2>5 DEF all
<1>6. Types
  <2>1. /\ terminalID \in [Pids -> Terminals]
        /\ cur_pcb \in [Terminals -> 0 .. MAXPROCESS - 1]
        /\ flag \in [1 .. termsize -> 0 .. 2]
        /\ shell_count \in 0 .. MAX_SHELL_COUNT + 1
    BY <1>4 DEF Init, Sizes
  <2>2. Count \in 1 .. MAXPROCESS
    BY <1>3 DEF Sizes
  <2>3. /\ cur_terminal \in Terminals /\ execute_terminal \in Terminals
        /\ asked \in Terminals /\ reached \in BOOLEAN
    BY <1>4 DEF Init
  <2>4. QED BY <1>3, <1>5, <2>1, <2>2, <2>3 DEF Types
<1>7. Control
  <2>1. InScripts
    BY <1>1, <1>3, Begins DEF InScripts, Programs
  <2>2. WaitingAreShells
    BY <1>3 DEF WaitingAreShells
  <2>3. Booting
    BY <1>1, <1>3 DEF Booting, Booted, Init, Sizes
  <2>4. FirstAreShells
    BY <1>1, <1>3 DEF FirstAreShells, Init, Sizes
  <2>5. AboveShells
    BY <1>3 DEF AboveShells, Sizes
  <2>6. QED BY <2>1, <2>2, <2>3, <2>4, <2>5 DEF Control
<1>8. ArgumentsKept
  <2>1. args[1] = <<NoArgument>>
    BY DEF Init, Pids, Sizes
  <2>2. QED BY <1>1, <1>3, <2>1 DEF ArgumentsKept
<1>9. PagesKept
  <2>1. page_directory = execute_paging(paging_init, 0)
    BY DEF Init
  <2>2. page_directory.program.at = Slot(Count - 1)
    <3>1. Count - 1 = 0
      BY ONLY <1>3
    <3>2. page_directory.program.at = Slot(0)
      BY ONLY <2>1 DEF execute_paging, paging_init
    <3>3. QED BY ONLY <3>1, <3>2 DEF Slot
  <2>3. QED BY <2>1, <2>2 DEF PagesKept, execute_paging, paging_init
<1>10. Answering /\ OwnArguments /\ AnswersWhereTyped
  BY DEF Init, Answering, OwnArguments, AnswersWhereTyped
<1>11. QED BY <1>6, <1>7, <1>8, <1>9, <1>10 DEF Inv

\* Every step keeps the invariant.
LEMMA NextInv == Sizes /\ Inv /\ [Next]_cvars => Inv'
<1> SUFFICES ASSUME Sizes, Inv, [Next]_cvars PROVE Inv'
  OBVIOUS
<1>1. CASE Tick
  BY <1>1, TickInv
<1>2. ASSUME NEW t \in Terminals, Switch(t) PROVE Inv'
  BY <1>2, StillInv DEF Switch
<1>3. CASE Write
  BY <1>3, WriteInv
<1>4. CASE Sorry
  BY <1>4, SorryInv
<1>5. CASE Prints \/ Quiet \/ Again \/ Read \/ Getargs \/ Handlers \/ Vidmap
  BY <1>5, CallsInv
<1>6. CASE Command
  BY <1>6, CommandInv
<1>7. ASSUME NEW line \in Lines, Enter(line) PROVE Inv'
  BY <1>7, EnterInv
<1>8. CASE HaltChild
  BY <1>8, HaltChildInv
<1>9. CASE HaltShell
  BY <1>9, HaltShellInv
<1>10. CASE Fault
  <2>1. cur_terminal' = cur_terminal /\ cur_terminal \in Terminals
    BY <1>10 DEF Fault, Exception, Inv, Types
  <2>2. QED BY <1>10, <2>1, StillInv DEF Fault, Exception
<1>11. CASE UNCHANGED cvars
  <2>1. Types' /\ Control'
    BY ONLY Inv, <1>11 DEF cvars, Inv, Types, Control, InScripts,
         WaitingAreShells, Booting, Booted, FirstAreShells, AboveShells,
         Count, Top, OwnFirst
  <2>2. Answering' /\ ArgumentsKept' /\ PagesKept'
    BY ONLY Inv, <1>11 DEF cvars, Inv, Answering, ArgumentsKept, PagesKept,
         Count, Top, Slot, Booted, OwnFirst
  <2>3. OwnArguments' /\ AnswersWhereTyped'
    BY ONLY Inv, <1>11 DEF cvars, Inv, OwnArguments, AnswersWhereTyped,
         Count, Top
  <2>4. QED BY <2>1, <2>2, <2>3 DEF Inv
<1>12. QED
  BY <1>1, <1>2, <1>3, <1>4, <1>5, <1>6, <1>7, <1>8, <1>9, <1>10, <1>11 DEF Next

\* The invariant holds at every moment.
LEMMA InvCorrect == Spec => []Inv
<1>1. Sizes
  BY SizesAssumption, TerminalsAssumption DEF Sizes
<1>2. Init => Inv
  BY <1>1, InitInv
<1>3. Inv /\ [Next]_cvars => Inv'
  BY <1>1, NextInv
<1>4. QED BY <1>2, <1>3, PTL DEF Spec

\* getargs gives a program the argument that was typed behind its name: no
\* execute, halt or failed command in between touches the block of a process
\* that is running or waits.
THEOREM ArgumentsCorrect == Spec => []OwnArguments
<1>1. Inv => OwnArguments
  BY DEF Inv
<1>2. QED BY <1>1, InvCorrect, PTL

\* terminal_write sends what a command writes, and the prompt after it, to the
\* terminal where the command was typed, wherever the user looks meanwhile.
THEOREM AnswersCorrect == Spec => []AnswersWhereTyped
<1>1. Inv => AnswersWhereTyped
  BY DEF Inv
<1>2. QED BY <1>1, InvCorrect, PTL

\* execute_paging and vidmap map no page for users but the four megabytes of
\* the running process and the screen.
THEOREM PagesCorrect == Spec => []UserSeesOwnPages
<1>1. Inv => UserSeesOwnPages
  BY DEF Inv, PagesKept, UserSeesOwnPages
<1>2. QED BY <1>1, InvCorrect, PTL
=============================================================================
