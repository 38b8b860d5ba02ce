--------------------------- MODULE LineDiscipline ---------------------------
(***************************************************************************)
(* Line input: the keyboard interrupt (keyboard.c) edits the line buffer   *)
(* of the terminal in the foreground, and the running program takes lines  *)
(* with terminal_read (terminal.c).  Both work on the global terminal[]    *)
(* and on the globals cur_terminal and execute_terminal.                   *)
(*                                                                         *)
(* keyboard_handler runs under cli, so that a key is one action.  System   *)
(* calls run with interrupts on, so that a key may fall between any two    *)
(* steps of terminal_read, which reads cur_terminal afresh at every one.   *)
(*                                                                         *)
(* The screen is not modelled here.  Two facts about the cursor matter and *)
(* are left open, since programs may have written any text before a key is *)
(* pressed: whether it is in the last column, where a character is         *)
(* followed by handle_enter(0), and whether it is in the last row, where   *)
(* handle_enter scrolls.                                                   *)
(***************************************************************************)
EXTENDS Integers, Sequences, FiniteSets

CONSTANTS
    Terminals,   \* the three terminals
    First,       \* the one in the foreground at boot
    MAX_CHAR,    \* size of keyboard_buffer: 128
    Chars,       \* characters with no special meaning
    Null,        \* the byte 0
    Newline,     \* the byte '\n'
    Requests,    \* numbers of bytes a program asks terminal_read for
    Hard         \* what the user and the cursor may do besides pressing keys
                 \* at a prompt, on short lines, above the last row

Cells == Chars \cup {Null, Newline}

ASSUME SizeAssumption == MAX_CHAR \in Nat /\ MAX_CHAR > 1

ASSUME LineAssumption ==
    /\ First \in Terminals
    /\ Null \notin Chars /\ Newline \notin Chars /\ Null # Newline
    /\ Requests \subseteq Nat
    /\ Hard \subseteq {"type ahead", "last column", "last row"}

VARIABLES
    cur_terminal,      \* the terminal in the foreground
    execute_terminal,  \* the one in the foreground at the last execute
    keyboard_buffer,   \* per terminal, indexed from 0
    buffer_index,      \* per terminal
    enter_flag,        \* per terminal
    pc,                \* where the running program is
    i,                 \* the local i of terminal_read
    buffer,            \* the bytes terminal_read has stored for the program
    nbytes,            \* those it was asked for, and has cleared before
    ret                \* what the last terminal_read returned

keyVars == <<keyboard_buffer, buffer_index, enter_flag>>
readVars == <<pc, i, buffer, nbytes, ret>>
vars == <<cur_terminal, execute_terminal, keyVars, readVars>>

Index == 0 .. MAX_CHAR - 1

\* A store outside of keyboard_buffer hits another field of terminal_t, none
\* that is modelled here (see Backspace for the one that is).
Put(line, k, c) == IF k \in Index THEN [line EXCEPT ![k] = c] ELSE line

Empty == [k \in Index |-> Null]

\* terminal_init, before the first execute
Init ==
    /\ cur_terminal = First
    /\ execute_terminal = First
    /\ keyboard_buffer = [t \in Terminals |-> Empty]
    /\ buffer_index = [t \in Terminals |-> 0]
    /\ enter_flag = [t \in Terminals |-> 0]
    /\ pc = "run"
    /\ i = 0
    /\ buffer = <<>>
    /\ nbytes = 0
    /\ ret = 0

-----------------------------------------------------------------------------
\* Keys; a tab is three spaces.  Without type-ahead the user presses one only
\* while a program waits for input and no line is complete.
MayPress ==
    "type ahead" \in Hard \/ (pc = "wait" /\ enter_flag[cur_terminal] = 0)

CursorAt(place) == IF place \in Hard THEN BOOLEAN ELSE {FALSE}

\* handle_enter: '\n' goes to the buffer, flag to enter_flag.  On the last
\* row vertical_scroll comes first, and sets enter_flag of execute_terminal.
\* line and index are those before the call.
HandleEnter(flag, scrolls, line, index) ==
    /\ keyboard_buffer' = [keyboard_buffer EXCEPT ![cur_terminal] =
                             Put(line, index, Newline)]
    /\ buffer_index' = [buffer_index EXCEPT ![cur_terminal] = index + 1]
    /\ enter_flag' = [t \in Terminals |->
                        CASE t = cur_terminal -> flag
                          [] t # cur_terminal /\ scrolls /\ t = execute_terminal -> 1
                          [] OTHER -> enter_flag[t]]

\* Mutant of HasRoom: the '\n' of Enter may be given the last cell.
HasRoomToLast == buffer_index[cur_terminal] < MAX_CHAR

\* Room for a character or for Enter: keyboard.c 199 and 207.
HasRoom == buffer_index[cur_terminal] < MAX_CHAR - 1

\* 207-217
Character(c) ==
    /\ MayPress /\ HasRoom
    /\ LET index == buffer_index[cur_terminal]
           line == Put(keyboard_buffer[cur_terminal], index, c)
       IN  \E wraps \in CursorAt("last column"), scrolls \in CursorAt("last row") :
             IF wraps THEN HandleEnter(0, scrolls, line, index + 1)
             ELSE /\ keyboard_buffer' =
                        [keyboard_buffer EXCEPT ![cur_terminal] = line]
                  /\ buffer_index' =
                        [buffer_index EXCEPT ![cur_terminal] = index + 1]
                  /\ UNCHANGED enter_flag
    /\ UNCHANGED <<cur_terminal, execute_terminal, readVars>>

\* 198-203
EnterKey ==
    /\ MayPress /\ HasRoom
    /\ \E scrolls \in CursorAt("last row") :
          HandleEnter(1, scrolls, keyboard_buffer[cur_terminal],
                      buffer_index[cur_terminal])
    /\ UNCHANGED <<cur_terminal, execute_terminal, readVars>>

\* Mutant of Backspace: the test of line 173 is missing.
BackspaceAlways ==
    /\ MayPress
    /\ keyboard_buffer' = [keyboard_buffer EXCEPT ![cur_terminal] =
                             Put(@, buffer_index[cur_terminal], Null)]
    /\ buffer_index' = [buffer_index EXCEPT ![cur_terminal] = @ - 1]
    /\ UNCHANGED <<cur_terminal, execute_terminal, enter_flag, readVars>>

\* 172-186.  The cell cleared is the one after the last character.  Past the
\* end of keyboard_buffer lies the low byte of buffer_index itself.
Backspace ==
    /\ MayPress
    /\ LET index == buffer_index[cur_terminal] IN
         /\ index > 0
         /\ IF index < MAX_CHAR
            THEN /\ keyboard_buffer' =
                        [keyboard_buffer EXCEPT ![cur_terminal][index] = Null]
                 /\ buffer_index' =
                        [buffer_index EXCEPT ![cur_terminal] = index - 1]
            ELSE /\ buffer_index' = [buffer_index EXCEPT ![cur_terminal] = -1]
                 /\ UNCHANGED keyboard_buffer
    /\ UNCHANGED <<cur_terminal, execute_terminal, enter_flag, readVars>>

\* 156-168: control-L drops the line, but not enter_flag.
ControlL ==
    /\ MayPress
    /\ keyboard_buffer' = [keyboard_buffer EXCEPT ![cur_terminal] = Empty]
    /\ buffer_index' = [buffer_index EXCEPT ![cur_terminal] = 0]
    /\ UNCHANGED <<cur_terminal, execute_terminal, enter_flag, readVars>>

\* switch_terminal (terminal.c 153-218), from Alt with F1 to F3
SwitchTerminal(t) ==
    /\ MayPress
    /\ t # cur_terminal
    /\ cur_terminal' = t
    /\ UNCHANGED <<execute_terminal, keyVars, readVars>>

Key == \/ \E c \in Chars : Character(c)
       \/ EnterKey \/ Backspace \/ ControlL
       \/ \E t \in Terminals : SwitchTerminal(t)

-----------------------------------------------------------------------------
\* The running program.

\* execute (system_call.c 141), also when it then fails.
CallExecute ==
    /\ pc = "run"
    /\ execute_terminal' = cur_terminal
    /\ UNCHANGED <<cur_terminal, keyVars, readVars>>

\* terminal_write clears enter_flag of execute_terminal (104).  All programs
\* of the file system write a prompt before they read the keyboard.
Write ==
    /\ pc = "run"
    /\ enter_flag' = [enter_flag EXCEPT ![execute_terminal] = 0]
    /\ pc' = "prompted"
    /\ UNCHANGED <<cur_terminal, execute_terminal, keyboard_buffer,
                   buffer_index, i, buffer, nbytes, ret>>

\* 115: a request for no bytes
ReadNothing ==
    /\ pc = "prompted" /\ 0 \in Requests
    /\ nbytes' = 0
    /\ ret' = -1
    /\ pc' = "run"
    /\ UNCHANGED <<cur_terminal, execute_terminal, keyVars, i, buffer>>

\* 118, and the memset and i = 0 after the wait, which nothing meets before:
\* n bytes of the program's buffer are cleared, but no more than MAX_CHAR.
CallRead(n) ==
    /\ pc = "prompted" /\ n > 0
    /\ nbytes' = IF n > MAX_CHAR THEN MAX_CHAR ELSE n
    /\ buffer' = <<>>
    /\ i' = 0
    /\ pc' = "wait"
    /\ UNCHANGED <<cur_terminal, execute_terminal, keyVars, ret>>

\* Mutant of ReadWait: the terminal of the last execute is watched.
ReadWaitElsewhere ==
    /\ pc = "wait"
    /\ enter_flag[execute_terminal] # 0
    /\ pc' = "test"
    /\ UNCHANGED <<cur_terminal, execute_terminal, keyVars, i, buffer, nbytes,
                   ret>>

\* 122-128: until the foreground terminal of the moment has enter_flag set
ReadWait ==
    /\ pc = "wait"
    /\ enter_flag[cur_terminal] # 0
    /\ pc' = "test"
    /\ UNCHANGED <<cur_terminal, execute_terminal, keyVars, i, buffer, nbytes,
                   ret>>

\* Mutant of MoreToCopy: the '\n' of Enter counts as part of the line.
MoreToCopyWithNewline == i < MAX_CHAR /\ i < buffer_index[cur_terminal]

\* 131: i < buffer_index - 1, compared as unsigned numbers
MoreToCopy == LET last == buffer_index[cur_terminal] - 1
              IN  i < MAX_CHAR /\ (last < 0 \/ i < last)

\* Mutant of ReadTest: the line ends in '\n', as tests.c (137) has it.
ReadTestKeepsNewline ==
    /\ pc = "test"
    /\ pc' = IF MoreToCopy THEN "store" ELSE "clear"
    /\ buffer' = IF MoreToCopy THEN buffer ELSE Append(buffer, Newline)
    /\ UNCHANGED <<cur_terminal, execute_terminal, keyVars, i, nbytes, ret>>

ReadTest ==
    /\ pc = "test"
    /\ pc' = IF MoreToCopy THEN "store" ELSE "clear"
    /\ UNCHANGED <<cur_terminal, execute_terminal, keyVars, i, buffer, nbytes,
                   ret>>

\* 132
ReadStore ==
    /\ pc = "store"
    /\ buffer' = Append(buffer, keyboard_buffer[cur_terminal][i])
    /\ i' = i + 1
    /\ pc' = "test"
    /\ UNCHANGED <<cur_terminal, execute_terminal, keyVars, nbytes, ret>>

\* Mutant of ReadClear: an empty line is skipped.
ReadClearSkipsEmpty ==
    /\ pc = "clear"
    /\ keyboard_buffer' = [keyboard_buffer EXCEPT ![cur_terminal] = Empty]
    /\ pc' = IF i = 0 THEN "wait" ELSE "reset"
    /\ UNCHANGED <<cur_terminal, execute_terminal, buffer_index, enter_flag, i,
                   buffer, nbytes, ret>>

\* 142-145, in three steps
ReadClear ==
    /\ pc = "clear"
    /\ keyboard_buffer' = [keyboard_buffer EXCEPT ![cur_terminal] = Empty]
    /\ pc' = "reset"
    /\ UNCHANGED <<cur_terminal, execute_terminal, buffer_index, enter_flag, i,
                   buffer, nbytes, ret>>

ReadReset ==
    /\ pc = "reset"
    /\ buffer_index' = [buffer_index EXCEPT ![cur_terminal] = 0]
    /\ pc' = "return"
    /\ UNCHANGED <<cur_terminal, execute_terminal, keyboard_buffer, enter_flag,
                   i, buffer, nbytes, ret>>

\* Mutant of ReadReturn: line 144 is missing.
ReadReturnKeepsFlag ==
    /\ pc = "return"
    /\ ret' = i + 1
    /\ pc' = "run"
    /\ UNCHANGED <<cur_terminal, execute_terminal, keyVars, i, buffer, nbytes>>

ReadReturn ==
    /\ pc = "return"
    /\ enter_flag' = [enter_flag EXCEPT ![cur_terminal] = 0]
    /\ ret' = i + 1
    /\ pc' = "run"
    /\ UNCHANGED <<cur_terminal, execute_terminal, keyboard_buffer,
                   buffer_index, i, buffer, nbytes>>

Read == \/ ReadNothing \/ \E n \in Requests : CallRead(n)
        \/ ReadWait \/ ReadTest \/ ReadStore
        \/ ReadClear \/ ReadReset \/ ReadReturn

Program == CallExecute \/ Write \/ Read

Next == Key \/ Program

Spec == Init /\ [][Next]_vars

\* The CPU executes terminal_read when no interrupt is pending.
FairSpec == Spec /\ WF_vars(Read)

-----------------------------------------------------------------------------
\* However the user types, the index stays next to the bounds of the buffer.
TypeOK ==
    /\ cur_terminal \in Terminals
    /\ execute_terminal \in Terminals
    /\ keyboard_buffer \in [Terminals -> [Index -> Cells]]
    /\ buffer_index \in [Terminals -> -1 .. MAX_CHAR]
    /\ enter_flag \in [Terminals -> 0 .. 1]
    /\ pc \in {"run", "prompted", "wait", "test", "store", "clear", "reset",
              "return"}
    /\ i \in Nat
    /\ buffer \in Seq(Cells)
    /\ nbytes \in 0 .. MAX_CHAR
    /\ ret \in Nat \cup {-1}

\* A program that asks for 127 bytes or more, as each does that reads a line,
\* gets a line that fits its request with a cleared byte after it.  The loop of
\* terminal_read, which runs to MAX_CHAR whatever nbytes is (130), does not see
\* to that: the keyboard handler does, which keeps room for '\n'.  A shorter
\* request is exceeded: sigtest's handler asks for one byte (sigtest.c 62).
LineFitsRequest ==
    nbytes >= MAX_CHAR - 1 => Len(buffer) < nbytes /\ ret <= nbytes

\* terminal_read returns the number of bytes read, and takes 128 as the most
\* it may read (terminal.c 112 and 119).
ReadsAtMostBuffer == ret <= MAX_CHAR

\* enter_flag of a terminal means what terminal_read takes it to mean: its
\* buffer holds a line with '\n' at its end, and the program that waits is
\* about to take it.
FlagMeansLine ==
    \A t \in Terminals : enter_flag[t] = 1 =>
        /\ t = cur_terminal
        /\ pc \notin {"run", "prompted"}
        /\ pc \in {"wait", "test", "store", "clear"} =>
              /\ buffer_index[t] > 0
              /\ keyboard_buffer[t][buffer_index[t] - 1] = Newline

\* The buffer of terminal t up to its index, without the '\n' of Enter.
LineOf(t) ==
    [k \in 1 .. buffer_index[t] - enter_flag[t] |-> keyboard_buffer[t][k - 1]]

\* Three terminals, one reader, the state spread over buffers, indices, flags
\* and the reader's locals: together they are lines that are edited, completed
\* and given to the program, none lost, mixed up or changed.
Editor == INSTANCE LineEditor WITH
    MaxLine <- MAX_CHAR - 1,
    front <- cur_terminal,
    line <- [t \in Terminals |->
               IF t = cur_terminal /\ pc \in {"reset", "return"} THEN buffer
               ELSE LineOf(t)],
    complete <- [t \in Terminals |-> enter_flag[t] = 1],
    given <- IF pc \in {"run", "prompted"} THEN buffer ELSE <<>>

IsLineEditor == Editor!EditorSpec

\* A line completed in the foreground is given to the program that waits.
LineIsTaken == (\E t \in Terminals : enter_flag[t] = 1) ~> pc = "run"

\* Once terminal_read has seen enter_flag it returns, although the index it
\* compares with is another one after every switch of terminals or key.
ReadFinishes == pc \notin {"run", "prompted", "wait"} ~> pc = "run"

=============================================================================
