------------------------------ MODULE MCParts ------------------------------
(***************************************************************************)
(* The parts of the system that share no state with each other, checked    *)
(* side by side: a behaviour is one of the parts named in Parts, the       *)
(* others rest in a state of their own.  The parts that are proved about   *)
(* are here by name (EXTENDS), the others as instances; here are their     *)
(* bounds.                                                                 *)
(***************************************************************************)
EXTENDS Integers, Sequences, Console, Keys, Boot, Emulation, Blink,
        FilePrograms

CONSTANT Parts   \* of "files", "list", "keys", "syserr", "console", "library",
                 \* "boot", "host"

VARIABLES
    part,
    opened, script, failed, opens,                                     \* syserr
    call, result                                                       \* library

Upto(n, chars) == UNION {[1 .. k -> chars] : k \in 0 .. n}

\* A buffer of three bytes: lines that end before, at and after its end, and
\* that take one, two and three reads.
Names == <<".", "first", "rtc", "second">>
Written == Upto(3, {"a", "n"})
             \cup {<<"a", "z", "b">>, <<"b", "a", "n", "b", "a">>,
                   <<"a", "n", "a", "a", "n">>, <<"a", "a", "b", "n", "a", "b">>}
Drawings == Upto(2, {"a", "n", "s"})
              \cup {<<"a", "n", "a">>, <<"n", "n", "a">>, <<"s", "a", "a">>,
                    <<"a", "n", "n", "a">>}
Searches == {<<>>, <<"a">>, <<"a", "a">>}

\* Two structures on three places, words of three bits: times from the shortest
\* to the longest that count down as signed words.
Blinking(place, on, off, on_length, off_length) ==
    [location |-> place, on_char |-> on, off_char |-> off,
     on_length |-> on_length, off_length |-> off_length]
Asked == {Blinking(1, "a", "b", 2, 1), Blinking(2, "c", "d", 4, 3),
          Blinking(9, "c", "d", 1, 1)}

S == INSTANCE SystemCalls WITH
       SEV <- 7, FDSTART <- 2, Existing <- {".", "shell", "hello"},
       LARGE <- 1073741823, cnt <- opens

\* What is typed at the prompts of Console.
Line(name, argument) == [name |-> name, arg |-> argument]
TypedLines ==
    {Line(name, "") : name \in {"nothing", "exit", "bogus", "shell", "counter",
                                "sigtest", "fish", "pingpong"}}
      \cup {Line("grep", "x"), Line("grep", "long")}

\* Registers of eight bits, every alignment, lengths over two double words.
Printed(letters, values) ==
    {[text |-> <<"%">> \o letters, with |-> <<value>>] : value \in values}
Values == {0, 1, 9, 10, 15, 16, 127, 128, 129, 255}
L == INSTANCE Library WITH
       MEMORY <- 11, LENGTH <- 3, DIGITS <- 2, NAMELEN <- 2, COMMAND <- 5,
       Bytes <- {0, 1, 200}, LineBytes <- {" ", "a", "\n"},
       Pieces <- UNION {Printed(letters, Values) :
                          letters \in {<<"x">>, <<"#", "x">>, <<"u">>, <<"d">>}}
                 \cup Printed(<<"c">>, {"z"})
                 \cup Printed(<<"s">>, {<<"y", "%", "d">>, <<>>})
                 \cup {[text |-> <<"%", "%">>, with |-> <<>>],
                       [text |-> <<"b">>, with |-> <<>>]}

\* The kernel at the start of its page, across a boundary of 64 KB, and near
\* the end of the page.
LinkedAt == {4194304, 4259580, 8386000}
Loaded == {<<>>, <<"first">>, <<"first", "second">>}

\* With four descriptors to give, two directories fit, or one with files beside it.
Listed == <<".", "shell">>

callVars == <<opened, script, failed, opens>>
\* Console and Keys are in separate behaviours: each moves cur_terminal
\* and leaves the rest of the other alone.
keysOnly == <<down, flags, typed, carried, right>>
consoleOnly == <<procs, pcbs, execute_terminal, flag, shell_count,
                 page_directory, panic, out, got, ghosts>>
libraryVars == <<call, result>>
alone == <<part, libraryVars, bootVars, hostVars>>
vars == <<fileVars, listVars, kvars, callVars, cvars, alone>>

\* The parts that start in one state rest there; the others rest here.
FilesRest ==
    /\ prog = "none" /\ arg = "none" /\ text = <<>> /\ stage = "rests" /\ pos = 1
    /\ rest = <<>> /\ fname = "none" /\ data = <<>> /\ spare = "none"
    /\ last = 0 /\ cnt = 0 /\ line_start = 0 /\ c = <<>> /\ eof = <<>>
    /\ row = 0 /\ col = 0 /\ shown = <<>> /\ status = -1
CallsRest ==
    /\ opened = [fd \in 0 .. 7 |-> fd < 2] /\ script = <<>>
    /\ failed = {} /\ opens = 0
LibraryRests == call = <<>> /\ result = <<>>
BootRests ==
    /\ pc = "rests" /\ magic = 0 /\ mbi = <<>> /\ memory_address = "garbage"
    /\ mod_count = 0 /\ interrupts = FALSE /\ saved = FALSE /\ pics = <<>>
    /\ gdt = <<>> /\ ldtr = 0 /\ tr = 0 /\ tss = <<>> /\ gates = <<>>
    /\ boot = "garbage" /\ ready = {} /\ linked = 0

PartsInit ==
    /\ part \in Parts
    /\ IF part = "files" THEN FilesInit ELSE FilesRest
    /\ ListInit
    /\ KeysInit
    /\ IF part = "syserr" THEN S!Init ELSE CallsRest
    /\ Init
    /\ IF part = "library" THEN L!Init ELSE LibraryRests
    /\ IF part = "boot" THEN BootInit ELSE BootRests
    /\ HostInit

FilesStep ==
    /\ part = "files" /\ FilesNext
    /\ UNCHANGED <<listVars, kvars, callVars, cvars, alone>>
ListStep ==
    /\ part = "list" /\ ListNext
    /\ UNCHANGED <<fileVars, kvars, callVars, cvars, alone>>
KeysStep ==
    /\ part = "keys" /\ KeysNext
    /\ UNCHANGED <<fileVars, listVars, callVars, consoleOnly, alone>>
CallsStep ==
    /\ part = "syserr" /\ S!Next
    /\ UNCHANGED <<fileVars, listVars, kvars, cvars, alone>>
ConsoleStep ==
    /\ part = "console" /\ Next
    /\ UNCHANGED <<fileVars, listVars, keysOnly, callVars, alone>>

\* What stands for the code that runs without the parts above.
others == <<part, fileVars, listVars, kvars, callVars, cvars>>
LibraryStep ==
    part = "library" /\ L!Next /\ UNCHANGED <<others, bootVars, hostVars>>
BootStep ==
    part = "boot" /\ BootNext /\ UNCHANGED <<others, libraryVars, hostVars>>
HostStep ==
    part = "host" /\ HostNext /\ UNCHANGED <<others, libraryVars, bootVars>>

PartsNext ==
    \/ FilesStep \/ ListStep \/ KeysStep \/ CallsStep \/ ConsoleStep \/ LibraryStep
    \/ BootStep \/ HostStep

\* A process that alone runs goes on: the scheduler takes no turn from it.
PartsSpec == PartsInit /\ [][PartsNext]_vars /\ WF_vars(FilesStep)

-----------------------------------------------------------------------------
\* The programs that read files come to their end.
ProgramsEnd == part = "files" => Halts
\* The tests of syserr all pass.
SyserrPasses == S!SyserrPasses
\* The library's routines do what they are called for.
LibraryKeepsPromises == L!LibraryKeepsPromises
=============================================================================
