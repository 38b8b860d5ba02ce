# A verification model of the ECE 391 kernel

TLA+ modules about the x86 kernel in `src/student-distrib` and the user programs
in `src/syscalls` and `src/fish`: what is modelled, what TLC checks on small
instances, what TLAPS proves for every value of the constants, and what is left.
Line numbers are those of the sources.

The kernel is small, runs on one CPU, and has no scheduler: a process runs until
it halts, and the one that launched it waits inside `execute`. (The repository's
`README.md` announces round-robin scheduling; `scheduling.c` has a timer whose
handler launches three shells and then does nothing.) What makes it hard is
this: *every gate in the IDT is a trap gate* (`idt.c` 21-91), so that system calls
run with interrupts enabled and handlers start with them enabled. The timer
may therefore run `execute` in the middle of another `execute`, of `halt` or of
another handler; keys edit a line while `terminal_read` copies it; and a
handler that a launch preempts stays suspended as long as the shell lives.

## 1. Inventory

| Component | State it keeps | Operations | Meets the others through |
|---|---|---|---|
| Process control (`system_call.c` 48-132, 139-319; `scheduling.c`; `idt_assembly_linkage.S`) | `process_count`, `curr_processes`, `shell_count`, PCBs and kernel stacks below 8 MB, `tss.esp0`, `page_directory[32]`, the global `file_name` and `ret_value` | `execute`, `halt`, the timer's launches, the boot shell | `cur_pcb`, `execute_terminal`, the descriptor tables in PCBs |
| Line input (`keyboard.c`, `terminal.c` 110-150) | per terminal `keyboard_buffer`, `buffer_index`, `enter_flag`; `cur_terminal` | keys, `terminal_read`, control-L, switching | the cursor decides about wrapping and scrolling; `vertical_scroll` and `terminal_write` change `enter_flag` |
| Screens (`lib.c` 40-110, 274-307; `terminal.c`) | video memory, a page per terminal, `screen_x/y`, the hardware cursor | `putc`, scrolling, `clear`, backspace, echo, switching, `terminal_write` | `execute_terminal`, `cur_terminal` |
| Descriptors (`system_call.c` 325-450) | `fdArr` in each PCB | `open`, `close`, `read`, `write` | PCB reuse by `execute` and `halt`; jump tables |
| File system (`filesys.c`) | a read-only image | look-up by name, `read_data`, the file and directory handlers | `execute` reads programs from it |
| Interrupts and devices (`i8259.c`, `rtc.c`, `keyboard.c` 38-104, `scheduling.c`) | masks, requests and in-service bits of the controllers, the clock's registers, `interrupt_occurred` | initialisation, three handlers, `rtc_read`, `rtc_write` | the timer's handler calls `execute` |
| Modifier keys (`keyboard.c` 66-104 and `handle_key`) | `shift_pressed`, `cntrl_pressed` per terminal, `caps_pressed`, `alt_pressed` | presses, releases, repeats, function keys | the terminal in front when a key moves |
| Programs at their terminals (`system_call.c` 139-319, 457-540; `terminal.c` 59-104; `paging.c`; `idt.c`; `src/syscalls`) | `args` and `terminalID` of PCBs, `cur_pcb`, `execute_terminal`, `flag1` to `flag3`, the page directory | the calls of the shell and of seven other programs, `getargs`, `vidmap`, exceptions | PCBs are used again by number; output follows the last `execute` |
| Dispatch and refusals (`idt_assembly_linkage.S`, `system_call.c` 325-540) | descriptor flags | the range of call numbers, early returns | `syserr` drives them (`ece391syserr.c`) |
| Programs that read files (`ece391cat.c`, `ece391ls.c`, `ece391grep.c`, `fish.c` 78-148) | buffers, positions | `open` and `read` until a file ends | files and the directory |
| Blinking characters (`blink.S`, `fish.c` 150-200) | `blink_array`, `mp1_list_head`, the screen | add, remove, sync, find, the tasklet | `fish` allocates the structures the list links |
| Library (`lib.c` 116-640, `ece391support.c`, parsing in `execute`, parts of `ece391emulate.c`) | none | memory, strings, numbers, `printf`, words of a line | everything calls it |
| Boot (`boot.S`, `kernel.c`, `x86_desc.h`, `multiboot.h`, `idt.c` 21-91, `i8259.c` 20-68) | descriptors, `tss`, gates, the controllers' words, the interrupt flag, `memory_address` | `entry` up to the first shell | what the three handlers use once their line is unmasked |
| Emulation on Linux (`ece391emulate.c`) | `dir`, `dir_fd`, `mem_fd`, Linux's table | `open`, `read`, `close`, `vidmap`, `execute`, `getargs` | the same user programs |
| Tests, tools | see section 8 | | |

What is hard, and the properties that make each component correct:

* **Process control.** Interleaving of `execute` and `halt` with launches; saved
  stack pointers into stacks that are reused; a limit tested long before the
  count moves; restarting shells on top of a call that never returns. Correct:
  programs find the machine set up for them, parents wait on intact stacks,
  the limit holds, stacks stay shallow, processes form a stack whose bottom
  is the terminals' shells, every exit is followed up.
* **Line input.** Flag, index and buffer are read afresh, and for the terminal
  in front at the moment, at every step of a loop that keys change under.
  Correct: a completed line is given once, whole and unchanged, and fits what was
  asked for; unfinished lines survive switching; reads return.
* **Screens.** A program writes in the foreground or the background while the
  user types and switches. Correct: each terminal has a screen of its own.
* **Descriptors and files.** Tables are reused by later processes and cleared
  elsewhere than they are filled; arithmetic at block and file ends. Correct:
  descriptors are independent streams, born closed, and reads are exact.
* **Devices.** Acknowledgement in two places, shared register select, handlers
  preempted by launches. Correct: every interrupt is acknowledged, `rtc_read`
  waits and returns, keys are read, the clock runs at the rate asked for.
* **Modifier keys.** Presses and releases seen by different terminals, codes that repeat.
  Correct: a key types what the keys held at that moment ask for.
* **Programs at their terminals.** Arguments, pages and the choice of a terminal live in
  places that later processes use again while the user switches. Correct: an
  argument is the one typed behind the program's own name, answers come out where the
  command was typed, and a program reaches its own pages only.
* **Programs that read files.** Lines across buffer ends, frames of unequal length.
  Correct: exactly what is in the files is printed, and the programs end.
* **Blinking characters.** Links through memory that is found free by another field,
  countdowns in signed words. Correct: a list whose blinks change after the ticks they asked for.
* **Boot.** Interrupts come on in the middle of it, with the clock's initialisation.
  Correct: a line that can interrupt has its gate, its stack and what its handler uses.
* **Emulation.** One directory is remembered by a number that Linux gives away again.
  Correct: a descriptor gives what was opened by its name.
* **Dispatch, library.** Boundaries, alignment, overlap, cut strings. Correct:
  bad calls are refused and leave nothing behind; each routine does what it is for.

`PROJECT.json` lists 40 such hazards at their lines, each with the properties
that would catch it or, for five, a note why none does. A note also says which part of a
hazard its properties leave out.

## 2. Modules

| Module | Models | Abstract specification | Instance for TLC | Proofs |
|---|---|---|---|---|
| `Processes` | process control | `ProcessStack` | `MCProcesses` | `ProcessesProof` |
| `LineDiscipline` | line input | `LineEditor` | `MCLineDiscipline` | `LineDisciplineProof` |
| `FileSystem`, `FileDescriptors` | image; descriptor tables and calls | `FileStreams` | `MCFileDescriptors` | `FileDescriptorsProof` |
| `Devices` | controllers, devices, handlers, clock calls | `InterruptWait` | `MCDevices` | `DevicesProof` |
| `Screens` | what is on the terminals | `OwnScreens` | `MCScreens` | `ScreensProof` |
| `FilePrograms` | `cat`, `ls`, `grep`, `fish` reading its frames | reference definitions in it: `Matching`, `Overlay` | `MCParts` | `ProgramsProof` |
| `Blink` | the list of blinking characters | `BlinkList` | `MCParts` | `ProgramsProof` |
| `Front` | the terminals and the one in front, as `Keys` and `Console` share them | | | |
| `Keys` | modifier keys | `ShouldType` in it | `MCParts` | `PartsProof` |
| `SystemCalls` | dispatch and refusals, `syserr` | the tests' own expectations | `MCParts` | |
| `Console` | programs at their terminals | ghosts `asked`, `got` | `MCParts` | `ConsoleProof` |
| `Library` | routines without state | reference definitions in it | `MCParts` | |
| `Boot` | `entry`: the checks of what the loader gives, descriptors, gates, controllers | `Uses`, `StackFound` in it | `MCParts` | `PartsProof` |
| `Emulation` | the programs' calls on a Linux host | ghosts `open_on`, `owed` | `MCParts` | `ProgramsProof` |

Definitions keep the source's names where they can. In each module an action
whose comment begins "Mutant of" is a wrong version of another action; nothing
uses it. It records the mistake a property guards against.

### Processes

State and code correspond as follows. `stk[r]` is kernel stack *r* as it lies in
memory below 8 MB - *r* x 8 KB: the sequence of activations of `execute` and `halt`
on it. A trap from user mode starts at the top of the stack that `esp0` selects and
overwrites what was there, as the CPU does; an interrupt of kernel code pushes.
`Awaits` says whether a saved stack pointer still finds the activation it was
saved for; at `Jump`, where `halt` loads it (121-125), the model stops if it does
not, since what the machine does then is undefined. `image` has two halves per
4 MB program slot because the copy loop (238-251) may be interrupted and then
continues into whatever is mapped.

One action is the code between two points where an interrupt makes a difference:
`Parse` (141-190), `Lookup` (193-212), `Find` (215-219), `Mark` (226), `Map`
(230), `Copy` (238-251), `FillPcb` (253-264), `Count` (269), `SaveContext`
(272-296), `Iret` (297-311), `ExecuteLabel` (312-318); `HaltShell`, `HaltChild`
(55-119, under `cli`, hence one action) and `Jump` (121-125); `Linkage`, `SyscallReturn`,
`PitReturn`; `Tick`, `SyscallExecute`, `SyscallHalt`. A tick is taken from
`pit_handler`'s `cli` on: between its end of interrupt (48) and `cli` (49) no
second tick can come, as the period is 20 ms.

### LineDiscipline

A key is one action, since `keyboard_handler` runs under `cli`; `terminal_read`
is a step per access to shared state. `nbytes` is what is cleared of the caller's buffer
(`CallRead`, at most `MAX_CHAR`; a request for nothing is refused, `ReadNothing`); the loop of
line 130 does not look at it. `buffer_index - 1` is compared as an unsigned number, as in line 131. The cell past the end of `keyboard_buffer` is
the low byte of `buffer_index` itself (`Backspace`). `Hard` names what the
environment may do: type ahead, reach the last column, reach the last row.

### FileSystem and FileDescriptors

The image never changes, so it is constants; `read_data` translates the loop
with its begin and end offsets, `% UNSIGNED` where `uint32_t` wraps. A call is one action: an
interrupt may launch a shell in the middle of it, but that shell has a PCB of its
own, and the call goes on only when that shell is gone.
`ReadDirectory` gives whole names: programs ask for the 32 bytes a name has, and the cut to `nbytes` and
by `strlen` (`filesys.c` 207-213) is left out, as is what lies behind the last of 63 entries.

### Devices

From the return of `i8259_init` on (`kernel.c` 161). Controllers, CPU
and clock chip are external and modelled from how the code uses them: requests
are latched, the lowest number goes first, an interrupt in service blocks those
less urgent, the slave's need its line unmasked, the clock raises nothing until register
C is read, a port access goes to the register selected last. `ctx` is the stack
of handlers, each at the instruction that matters next; a handler "launched"
has a shell above it. Interrupts come on with the `sti` of `rtc_init`, because `i8259_init`
restores flags in which they were off. Programs do not reach `rtc_open`: `open` (`system_call.c`
380-413) never calls the table's open routine.

The boot shell and three launched by the timer make four. `halt` restarts
the first three when they end; the fourth, if it ends, returns into
`pit_handler` (`ShellExit`).

### Screens

Memory is video memory and a page per terminal; `Location` is where a terminal's
text is at the moment. A call of `putc` is one action (`Store`, `LineFeed` or `Scroll`), a key is
one action, and keys and switches may come between any two calls of `putc`, those of `execute`'s
messages included. `terminal_write` writes to the terminal of `curr_pcb` (65-85, 95), which
`CallWrite` leaves open, so that it may be any; its choice is in `Console`. The
test of line 99 is about `execute_terminal`: `astray` records that text has come out in
front while that was another one.

### FilePrograms

An action is one system call with the code up to the next, one line of `grep`'s search, or
one column of `fish`'s frames. An open file is what is left to read of it, which is what
`FileStreams` promises of a descriptor. `grep`'s buffer is kept with what it held
before (`spare`): the code relies on bytes past `last` here and there, and copies lines down
inside it (`StrCpy`).

### Blink and BlinkList

`Blink` keeps the structures, links, words and the free test (location 0) of the code;
`BlinkList` is a sequence of blinks with the ticks each has left. The refinement maps the
walk from `mp1_list_head` to the sequence: `List` is the sequence of slots that the links lead
through (`Leads`). `BlinkList` counts ticks and knows no words. A countdown is
compared as a signed word, so that a length of 0, or of more than half a word's range,
is over after one tick: `Lengths` excludes both from what may be asked for.

### Keys

A scan code is one action, since the handler runs under `cli`. `down` is what the user holds,
the flags are what the handler believes; three character keys stand for the kinds of key the
table has (letters, the letter control makes special, digits), and tab for the one that
becomes three spaces.

### SystemCalls

Each call of `syserr` is one action of `Step`, which goes through `Dispatch` and through the
conditions and early returns of the call it reaches. `script` is what `syserr` has
still to call; its tests run alone or one after the other.

### Console

The programs are scripts of the calls they make (`Script`), each call one action: `shell`,
`hello`, `counter`, `testprint`, `grep`, `sigtest`, `fish` and `pingpong`. `Launch` is what
`execute` does to PCBs, terminals and pages, `HaltChild` and `HaltShell` are `halt`, `Target` is
the choice of `terminal_write`. That ticks and calls run inside each other is the subject of
`Processes`; here they follow each other. `Fault` is an exception: the handler prints
and spins with interrupts on, so that only switching goes on (`Stopped`).
Ghosts record where the command was typed (`asked`), what `getargs` gave (`got`) and where
the last output went (`written`).

### Library

One behaviour is one call (`Init` chooses it, `Return` gives its result). Loops over data are
recursive functions and keep the code's order of steps where it shows: `memset`
and `memcpy` in bytes and double words by alignment, `memmove` forwards or backwards, `printf` as
a walk over its format.

### Boot

A call of `entry` is one action and `Order` their order; `CheckMagic`, `Module` and `CheckBits`
are the tests of what the loader hands over. Descriptors and gates are kept in the pieces the
macros cut addresses into, and put together as the processor does (`Base`, `Limit`, `Offset`). A
controller is what its last words made of it: `outb` tells a control word from a mask by
what has come before. `Deliverable` says which lines can interrupt at the moment; `Uses` what
a line's handler reads that `entry` sets up. `Devices` goes on from there, with the handlers.

### Emulation

Linux's table maps descriptors to what they are open on and gives the lowest that is
free. `open(".")` takes two of them, one for the stream of the C library (`stream`) and one of
`/dev/null` (`dir_fd`); `Gives` is what the next read of a descriptor returns. The program reads and
closes what it has opened. `write` changes no state: it is passed on, or refused for a directory.

## 3. Runs

Twelve runs; a "violation" run shows a disagreement of the code with what
its comments say (section 5).

| Run | Bounds | Shows |
|---|---|---|
| `processes` | the code's own: 6 processes, 3 launches by the timer; two programs, two statuses | `TypeOK`, `ProcessLimit`, `RunsAsItself`, `ParentsWait`, `KernelStackBounded`, `IsProcessStack` (refinement), `ShellsComeUp`, `ExitIsFollowedUp` |
| `halt_window` | 4 processes; programs also end during the launches | violation |
| `execute_status` | as `processes` | violation |
| `lines` | 2 terminals, 4 cells, 2 characters, requests for 0 to 6 bytes; keys at a prompt | `FlagMeansLine`, `LineFitsRequest`, `IsLineEditor` (refinement), `LineIsTaken` |
| `lines_all` | 2 terminals, 2 cells; keys at any moment, any column and row | `TypeOK`, `ReadFinishes` |
| `phantom_line` | 3 cells, last row | violation |
| `files` | 2 processes, 4 descriptors, files of 0 to 5 bytes in blocks of 2 | `TypeOK`, `DeadTablesClosed`, `CallsAreSet`, `ReadDataReads`, `AreStreams` (refinement) |
| `devices` | the code's 3 launches, 5 frequencies | `TypeOK`, `NoneLeftInService`, `RateIsSet`, `IsInterruptWait` (refinement), `RtcReadReturns`, `KeysAreTaken` |
| `rtc_lost` | the same, and the clock may interrupt during the launches | violation |
| `screens` | 2 terminals of 2 x 2 cells, one character and blank | `TypeOK`, `CursorShown`, `AreOwnScreens` (refinement) |
| `background_scroll` | the same, and terminals in the background scroll | violation |
| `parts` | eight parts side by side, see below | `GrepPrintsMatches`, `FilesArePrinted`, `ProgramsEnd`, `IsBlinkList` (refinement), `KeysTypeAsHeld`, `SyserrPasses`, `OwnArguments`, `AnswersWhereTyped`, `UserSeesOwnPages`, `LibraryKeepsPromises`, `ReadyForInterrupts`, `DirectoryIsRead` |

Why the bounds are enough:

* *Processes*: the limit and the launches are those of the code. A shell and one
  other program tell apart everything `execute` tells apart. `EarlyInput = FALSE`
  means that no program makes a call before the timer has launched its shells,
  that is in the first 60 ms. With `TRUE` (`halt_window`), 4 processes are the three
  shells and one that returns to a parent; `CHECK_DEADLOCK FALSE` goes with it, since there
  the model really stops where the outcome of `Jump` is undefined. What is proved
  (section 6) holds with either value.
* *Lines*: a step concerns at most the terminal in front, the one of the last
  `execute` and the one switched to; the third kind is covered as the roles
  coincide. Four cells hold an empty line, lines of one to three characters and a full
  buffer; two characters show a mix-up; requests are none, short ones, and those of the
  buffer's size less one and more. `lines` excludes typing while no program waits, because
  `terminal_write` then forgets a completed line by design of line 104; `lines_all`
  excludes nothing and claims only bounds and progress.
* *Files*: the file that is opened has two blocks in reversed order on the disk
  and ends within one; `ReadDataReads` covers every offset and length on files
  that end within a block, at its end, and are empty. Two processes are one that is
  restarted and one that is not.
* *Devices*: frequencies are the lowest, the highest, one between, and two that are
  refused. No second interrupt of a device is raised while the handler of
  its first is on the stack: handlers take microseconds, the fastest device
  (1024 Hz) nearly a millisecond. `EarlyIrqs` is the exclusion of keys and clock
  interrupts in the first 60 ms; `rtc_lost` shows why it is needed.
* *Screens*: in 2 x 2 cells text wraps, scrolls and reaches every corner. In the
  passing run only the terminal that is both in the foreground and the
  program's scrolls (`ScrollElsewhere`); `background_scroll` shows why. Keys come
  between calls of `putc`, not within the microseconds of one: the check-then-write
  of line 276 is listed as a hazard that no property covers.
* *Parts*: `MCParts` extends the six modules proved about, and has instances of two others; a behaviour
  is one of the eight, the others rest, so that one run's states are the sum and not the
  product of theirs. `CHECK_DEADLOCK FALSE`: programs end, and a library call is one step.
  * Files: a buffer of three bytes, so that lines end before, at and after its end and take up to
    three reads; every text up to three characters of a letter and a newline, and
    longer ones; what the stack held before is a NUL, a letter or a newline. Frames differ in
    length and number of lines.
  * Blinks: two structures and three blinks, one outside the screen, so that the array
    fills and structures are used again; words of three bits reach every sign, with times
    from 1 to 4, the longest that is allowed.
  * Keys: two terminals, so that each press and release may fall into the same or
    different ones.
  * Console: two terminals with their shells (`MAX_SHELL_COUNT = 1`) and two processes
    above them, so that a program returns to a shell and to a program; six of the programs,
    which between them make every kind of call (`hello` and `testprint` make those of
    `counter`), a name that does not exist, `exit`, an argument, and one too long for its field.
  * Library: 11 bytes of memory reach every alignment with lengths over two double words;
    strings of up to two characters, signed and unsigned; registers of eight bits with values at
    each boundary of digits and sign; names of two characters, commands of five.
  * Boot: every choice of the loader's flags 3, 4 and 5, no, one or two modules, both magic
    numbers, interrupts on or off at the start; the tables at the start of the kernel's page, across a
    boundary of 64 KB, where the macros cut addresses, and near the end of the page.
  * Emulation: four descriptors besides the terminal's, so that Linux runs out of them
    with every mixture of directories, files and `/dev/mem`; a directory of two names.

Every property of a passing run has a mutant in `PROJECT.json`: a
definition changed the way a plausible mistake would change it, under which TLC
finds the property violated.

## 4. Fairness

* `Processes`: weak fairness of `Kernel` (the CPU runs on), strong fairness of
  `Tick`: the timer is periodic and the controller keeps its request until
  interrupts are enabled, which they are again and again. Programs need not do anything.
* `LineDiscipline`: weak fairness of `Read`. `ReadFinishes` holds without any
  assumption on the user, `LineIsTaken` because a line only completes at a prompt.
* `Devices`: weak fairness of the two periodic devices; strong fairness of
  accepting a request, of each handler and of the program. Interrupts disable
  these again and again, but their periods are much longer than their handlers. Nothing
  is assumed of keys, and no program is assumed to make a call or to end.
* `MCParts`: weak fairness of `FilesStep`. Nothing takes the processor from a program
  but interrupts, which return, and shells that the timer launches in the first 60 ms.

## 5. What disagrees

* `halt_window`: `halt` enables interrupts (119) before it leaves its stack
  (121). A launch in between takes over the PCB and the stack that is being
  given back. It needs a program that ends in the first 60 ms.
* `execute_status`: `execute` ends with `return 0` (318), though its header (137)
  promises the child's status and the shell tests for it.
* `phantom_line`: `vertical_scroll` sets `enter_flag` of `execute_terminal`
  (`lib.c` 87). Enter on the last row of one terminal makes `terminal_read`
  return 129 bytes nobody typed on another.
* `rtc_lost`: the handlers' entries are open to interrupts. A tick there that launches
  a shell leaves the clock's interrupt in service; `rtc_read` then
  spins for ever.
* `background_scroll`: `vertical_scroll` copies rows from the foreground whatever
  terminal it scrolls (`lib.c` 81).

Seen, without a run: the search for a free index in `execute` (215-226) may end
one past the array, in a byte of padding (`TypeOK` of `Processes` bounds it); `handle_enter`
may store one byte past `keyboard_buffer` (`keyboard.c` 214, 263; `TypeOK` of
`LineDiscipline` bounds it); `putc` wraps to the same row, not the
next (`lib.c` 303-305: the column is reduced before it is divided). `SHIFT_UNPRESS_R`
is 0x36, the code of the press (`keyboard.h` 16), so that the release of the right shift key is
never noticed (`ReleaseShift` of `Keys`). A row that wrapped takes two places of the
buffer, of which erasing back over its end removes one (`keyboard.c` 180, 263): the
program reads a character that the screen has lost. `sync` tests the status and then uses a
conditional move whose condition never holds (`blink.S` 281-282): it always shows the
character of the off time. `terminal_read` copies a line of up to 126
characters and counts one more, whatever it is asked for (`terminal.c` 130): a request for fewer bytes than that is exceeded by a longer line, as
that of `sigtest`'s signal handler is, which asks for one byte into a `char` (`ece391sigtest.c` 62). The other programs ask for
127 (`syserr`) or 1023 and are safe (`LineFitsRequest`). `terminal_write` decides by the terminal of the last `execute` whether to
move the hardware's cursor (99), but writes to that of `curr_pcb` (84, 95): where the second is in front and not the first, the cursor
stays behind (`CursorShown` excludes it, `astray`). A blink whose length is 0 or more than 32768, which the
`unsigned short` of `blink.h` holds, changes after one tick, because the tasklet compares signed words (`blink.S` 65-66).
The headers of `memset_word` and `memset_dword` call `n` a number of bytes (`lib.c` 423, 443), the code sets `n` words and
double words; `LibraryKeepsPromises` follows the code, and nothing calls the two. `memmove` leaves the direction flag set when it
copies from the back (521), which no routine of `lib.c` minds and nothing calls either. `printf` reads past the end of a format that ends within a
conversion, as a lone `%` (252); no format of the kernel does. `open` does not call the open routine of the table it
installs, so that opening the clock does not set its base rate, as `rtc_open` would (`rtc.c` 79-89). A shell's answer to a command that `execute` refuses, or one started
while the user switches between Enter and `execute`, may come out in another terminal
(`AnswersWhereTyped` says what is left). `grep` reads the byte after a full buffer before
anything has been written there (`ece391grep.c` 34); it matters only if that byte
happens to be a newline. Should the emulation get no descriptor for `/dev/null` after `opendir`
has succeeded, the stream stays open, and a read of descriptor -1 gives the directory's names
(`ece391emulate.c` 119-121, 187). The kernel has no file system if the loader gives no module: `memory_address`
is then whatever the stack held (`kernel.c` 30, 172). An argument of 96 characters or more comes back cut. Scan codes above
the table's row (0x3E and up) take their characters from the rows behind it.

## 6. Proofs

Proofs hold for every value of the constants that the assumptions named in the modules
allow: `ConstantsAssumption` (in `Processes`, `Screens` and `Devices`), `SizeAssumption` and
`LineAssumption` (`LineDiscipline`), `FileSystemAssumption`, `DescriptorAssumption`,
`TerminalsAssumption` (`Front`), `SizesAssumption` (`Console`), `BootAssumption`, `NamesAssumption`
(`Emulation`), `BlinksAssumption` and `TextsAssumption` (`FilePrograms`). TLC evaluates each in the
runs. They say that sizes are positive, that special values differ from the others, and where
tables are sized for each other, that they are (the code's processes are enough for its
shells); that the linker puts the kernel's tables into the kernel's page (`BootAssumption`); that no file
has the name of a directory (`NamesAssumption`); and that nothing is to blink at place 0 or for 0 or more than half a word's range of ticks, as `fish`
never asks for (`BlinksAssumption`); that arguments hold no NUL, as strings of C, that a newline is no NUL and not the
`'0'` with which `fish` begins, and that no line of a frame is wider than the screen (`TextsAssumption`): two places of
such a line would have the same location. Some results have a hypothesis besides (last column), an environment that keeps away from a window
the code leaves open; the run named with it shows what happens in the window. No
proof needs fairness.

| Property of a run | Theorem | For every | Hypothesis |
|---|---|---|---|
| `TypeOK`, `ProcessLimit`, `KernelStackBounded` | `ProcessesProof`: `TypeCorrect`, `LimitKept`, `StacksBounded` | limit of processes and of launches, programs | |
| `RunsAsItself`, `ParentsWait`, `IsProcessStack` | `ProcessesProof`: `RunsCorrect`, `ParentsCorrect`, `StackCorrect` | limit of processes, programs | `EarlyInput = FALSE` (`halt_window`); the code's limit of launches |
| `TypeOK` | `LineDisciplineProof`: `TypeCorrect` | terminals, buffer size, typing | |
| `FlagMeansLine`, `LineFitsRequest`, `IsLineEditor` | `LineDisciplineProof`: `FlagsCorrect`, `RequestsFit`, `EditorCorrect` | terminals, buffer size, requests | `Hard = {}` (`phantom_line`) |
| `TypeOK`, `DeadTablesClosed`, `CallsAreSet`, `ReadDataReads`, `AreStreams` | `FileDescriptorsProof`: `TypeCorrect`, `NoInheritedFiles`, `NoNullCall`, `ReadDataCorrect`, `StreamsCorrect` | image, block size, processes, descriptors | |
| `TypeOK`, `RateIsSet`, `IsInterruptWait` | `DevicesProof`: `TypeCorrect`, `RateCorrect`, `WaitCorrect` | launches, frequencies, early interrupts | |
| `NoneLeftInService` | `DevicesProof`: `LaunchesCorrect` | launches, frequencies | `EarlyIrqs = {}` (`rtc_lost`) |
| `CursorShown` | `ScreensProof`: `CursorCorrect` | terminals, rows, columns, characters | |
| `TypeOK`, `AreOwnScreens` | `ScreensProof`: `TypeCorrect`, `ScreensCorrect` | the same | `ScrollElsewhere = FALSE` (`background_scroll`) |
| `KeysTypeAsHeld` (without the right shift key, and nothing held across a switch) | `PartsProof`: `TypedAsHeld` | terminals | |
| `ReadyForInterrupts` | `PartsProof`: `BootCorrect` | places of the tables, lists of modules | |
| `DirectoryIsRead` | `ProgramsProof`: `DirectoryCorrect` | size of Linux's table, directories, files | |
| `IsBlinkList` | `ProgramsProof`: `ListRefined` | structures, places, blinks, width of a word | lengths in `Lengths` |
| `FilesArePrinted` | `ProgramsProof`: `FilesCorrect` | buffer size, directory, texts, size of the screen | |
| `GrepPrintsMatches` | `ProgramsProof`: `GrepCorrect` | buffer size, directory, texts, patterns | |
| `OwnArguments`, `AnswersWhereTyped`, `UserSeesOwnPages` | `ConsoleProof`: `ArgumentsCorrect`, `AnswersCorrect`, `PagesCorrect` | terminals, processes, launches, lines typed | |

**`ProcessesProof`**, with early input allowed. The limit is not inductive: `execute` tests
`process_count` at 154 and increments it at 269, and launches may come in between. That it holds
nevertheless is due to the nesting of activations: when control comes
back to one, the count is what it was when control left. The proof makes this a
definition: a kernel stack *has levels* if each activation can be given
the count it last saw, such that one in the window between test and increment has seen
less than the limit, one past the increment has raised it by one, and each level is what
lies beneath the next activation. Lemmas say that pushing, popping and moving on preserve
levels. The invariant `Inv` is type correctness, bounds on every id that selects a PCB, page
or stack (`IdsCorrect`), levels for every kernel stack, the running activation's level being
`process_count`, and at least one process while a user program runs.

For the stacks, the invariant `Heights` says that the height of each is at most one,
plus the launches counted so far, plus one if `halt` restarted a shell on it, and that
the activation a trap begins lies at the bottom. The second part is what makes the
first inductive: `halt` is only called by programs, hence at the bottom of a stack, so that
restarts never pile up on one another, however often a shell exits.

Its second part is about `ProcessStack`. What a program finds when it runs depends on what
`execute` and `halt` did at ten places, so the invariant, `Ordered`, says of each place what the
call at the top of the stack has done by then (`Progress`), that image and PCB of every process are
complete (`AllSetUp`), and that each process above the shells has a launcher that waits alone on
its stack with the pointer in the PCB leading to it (`AllWait`). A launch by the timer then only adds
an entry, because the stacks beneath stay as they were. The refinement of `ProcessStack` is proved from the same
invariant. Two hypotheses: no program makes a call before the launches are over, without which
`halt_window` refutes it; and `MAX_SHELL_COUNT = 2`, since `halt` does not ask for that
name but for `currID <= 2` (line 64): with another limit it would take shells for
programs, or the reverse.

**`LineDisciplineProof`**. For the bounds the invariant adds `ReadBounds`: the bytes
stored are as many as the counter, which stays within the limit, also between the test and the
store. That a line fits its request (`LineFits`) needs both sides: the loop stops before the index less
one, and the keyboard handler never moves the index past the buffer's size less one, `'\n'` included. For the refinement, `LineInv` says which part of a line has been copied at each step of
`terminal_read`, that a flag is set only in the terminal in front, and that no key changes what has
been copied: a terminal with a completed line takes keys only when its reader has returned. The steps of `terminal_read` that clear a line
already given are not seen by `LineEditor`; lemmas about `SubSeq` (`LineTyped`, `LineErased`,
`LineCopied`) relate the buffer's cells to a line.

**`FileDescriptorsProof`**. `DeadTablesClosed` and `CallsAreSet` need each other: a new process has its
table set only because tables of processes that are gone are closed. `ReadDataGives` proves the
loop of `read_data` without induction over the data: the model gives each round's
bytes, and the bytes of a file are a function of their offset, so that lemmas about one
block (`InBlock`, `PartIsSubSeq`, `RoundCopies`) suffice for the whole. With the types of what a
call gives (`GivenTyped`), each call is shown to be one step of
`FileStreams`. `PositionsCorrect` is the fact about positions that this rests on: none
passes the end of its file, where the size minus the position would wrap.

**`DevicesProof`**. `Inv` says that no device has two handlers on the stack, that no program is in
a call while a launch is going on, that register A keeps its upper bits, and that the
rate in it is that of `asked` outside of `rtc_write`'s section. With `EarlyIrqs = {}`, `LaunchInv` says that only
ticks are on the stack while shells are launched, that every handler below a launched shell has sent its end of
interrupt, and that what is in service is so for a handler on the stack that has not. `IsInterruptWait` needs that
`interrupt_occurred` is reset before a read spins and set by the handler only.

**`ScreensProof`**. Where the terminal in front is that of the last `execute`, `terminal_write` moves the
cursor itself when it returns (99-101). Elsewhere it does not, and `CursorKept` says that the cursor is right already, since keys and
switches move it, unless text has come out in front (`astray`). The types, and with them the screens, need that a
row is never left off the screen: `Scroll` puts the cursor of `execute_terminal` back, which is the terminal that
scrolls only if `ScrollElsewhere = FALSE`. Each step then maps to one step of `OwnScreens`, in which
`Location` is gone: what a terminal shows is its page, or video memory while it is in front.

**`PartsProof`** is about two parts of the kernel that share no state.

*Keys.* Flags of terminals in the background are stale by nature, since a
release goes to the terminal in front; `FlagsAsHeld` says which flags agree with the keys
held down, and that is just enough for what the next key types.

*Boot.* `BootInv` has a line for each stretch of `entry`: which descriptors, gates and data are behind, what the
controllers expect next and what they mask. Interrupts come on early, so that what holds a line back is its
mask; `MasterUnmasks` and `SlaveUnmasks` say which lines a change of a mask lets through. That an address cut into
three fields is put together again by the processor is arithmetic (`Cut`, `SegmentHolds`, `GateLeads`).

**`ProgramsProof`** is about the user programs' side.

*Emulation.* `HostInv` says who owns which descriptor: what a program has open is open for Linux too,
a directory as `/dev/null` (`Owned`); the pair is an open stream and an open directory (`PairIsOpen`); and
with one directory at a time the pair is that directory's, with as much left as it owes (`OneDirectory`). A
number that is given away was free, hence none of these.

*Blink.* `SlotsInv`: some sequence without repetition is led through by the links, its slots are those in use, and
words and characters have their types. One sequence at most fits the links (`OneWalk`), so
that `List` is that sequence, and each operation is shown to lead through the sequence that it should: with
one in front, with one left out, or the same. `BlinkList` draws a place once with the oldest blink that
changes, the code in the order of the list; that both give the same screen is an induction
over the rounds of the tasklet's loop. The library's induction rules take an operator as a parameter, which
the provers cannot instantiate. The proof uses its least elements of well-founded sets instead, which take a
set: `UpFromZero` is induction over the set of numbers that have the property, and `Rounds` shows that a
function with the recursive definition of `Drawn` exists.

*Programs that read files.* `FilesInv` says for each program what it has shown between two calls. `cat` has shown what
is visible of the part it has read (`CatInv`), `ls` the names before its position (`LsInv`). For `grep`, `Searching(p, from)` says that
the first `p` characters of the file are searched and what they hold is shown, that the characters behind them lie in the buffer from
`from` to `last`, and that the rest is not read; `p` is where a line begins or the text ends (`Edge`). A read adds to the buffer,
a cut line moves to its front, and a line that ends is one line of the reference definition (`FoundLine`): a cut line is shorter than the
buffer because lines fit (`FillsBuffer`), so that each read after it finds room, and a read that finds nothing means that the text is over. `fish`
has each frame at the place of the screen it draws, or at the end of the line or the text before it (`FrameIs`), and the blinks are
the picture so far (`Pictured`); the order of the places (`PlacesGrow`) makes a new blink differ from those before. That joining
sequences can be cut anywhere (`UpToSplit`) is induction in the form of `UpFromZero`. The reference definitions
use positions in the text only and no buffer: where a character's line opens, and the row and column it is in.

**`ConsoleProof`**. `Control` places every program of the stack of processes: in its script, waiting
in `execute` where that has a place, shells below. `ArgumentsKept` relates PCBs to what was
typed for the process that has them now, `PagesKept` the page directory to the program that runs, and
`Answering` the terminal of the last `execute` to the one where the running program's command was
typed, for as long as `AnswersWhereTyped` claims it.

Only model-checked:

* all liveness (`ShellsComeUp`, `ExitIsFollowedUp`, `LineIsTaken`, `ReadFinishes`, `RtcReadReturns`,
  `KeysAreTaken`, `ProgramsEnd`): out of reach of the prover, as is ENABLED;
* `LibraryKeepsPromises`: what the loops of its routines compute. Induction over the data is possible in the form of
  `UpFromZero`, but each of these loops is such an induction of its own;
* `SyserrPasses`: it follows a fixed script of calls, which TLC covers entirely.

## 7. Plan

Done: the modules of section 2, in their order there, and the proofs of section 6. Next:

1. The parts of `LibraryKeepsPromises` for every length: the memory routines first, whose loops by double
   words are sums of intervals.
2. `enter_index` and the column backspace returns to, with a screen and a buffer in one
   model; the steps of `putc` with keys between them; directories that are full.
3. `halt`'s test of `currID` for other limits of shells, with the constant the code would need.

New questions replace runs whose answers a stronger run subsumes.

## 8. Not modelled

* *Printing of the multiboot information* in `entry`, and the tables of `x86_desc.S`, which are the
  initial contents of what `Boot` fills. The entries of the page directory are in `Console`;
  single pages of its two tables are not told apart.
* *`disable_irq`* is never called (its mask would be wrong, `i8259.c` 74-92), nor is
  `read_dentry_by_index`, nor `test_interrupts`.
* *`enter_index`*, the column to which backspace returns in the row above: `Screens` leaves
  it open. *Scan codes beyond the key table* read whatever lies behind its rows.
* *Kernel tests* (`tests.c`): `launch_tests` calls none of them, all its calls are comments.
* *Host binaries and documents*; files named `... 2.*` are copies that are not built.
