------------------------------ MODULE Screens ------------------------------
(***************************************************************************)
(* The screens of the terminals: putc, vertical_scroll, clear and          *)
(* handle_backspace (lib.c), switch_terminal and the loop of               *)
(* terminal_write (terminal.c), what keys do to the screen (keyboard.c)    *)
(* and printf in execute (system_call.c).                                  *)
(*                                                                         *)
(* The terminal in the foreground, cur_terminal, lives in video memory,    *)
(* the others in a page each; switching copies video memory out and the    *)
(* other page in.  A program goes on writing to the terminal its process   *)
(* belongs to, wherever that one is at the moment.  The page of the        *)
(* terminal in the foreground holds what was there when it came to the     *)
(* front; nobody reads it before the next switch overwrites it, so that it *)
(* counts as blank here.                                                   *)
(*                                                                         *)
(* keyboard_handler runs under cli, so that a key is one action.  The      *)
(* kernel writes with interrupts enabled, so that a key may come between   *)
(* any two characters of what a program or execute writes.  One call of    *)
(* putc is one action: the code lets a key come within its microseconds    *)
(* too, between the choice of location and the store (lib.c 276-301), the  *)
(* model does not.                                                         *)
(*                                                                         *)
(* Not here: the line buffer (LineDiscipline); how terminal_write finds    *)
(* the process that writes (Console), so that any terminal may turn out to *)
(* be its terminal; attributes, which are all the same.                    *)
(***************************************************************************)
EXTENDS Integers

CONSTANTS
    Terminals,   \* the three terminals
    First,       \* the one in the foreground at boot
    NUM_ROWS,    \* 25
    NUM_COLS,    \* 80
    Chars,       \* characters that are shown
    Blank,       \* ' '
    Newline,     \* '\n'
    VIDEO,       \* video memory, beside the terminals' own pages
    ScrollElsewhere  \* may a terminal scroll that is not both in the
                     \* foreground and the program's?

Rows == 0 .. NUM_ROWS - 1
Cols == 0 .. NUM_COLS - 1

ASSUME ConstantsAssumption ==
    /\ First \in Terminals /\ VIDEO \notin Terminals
    /\ NUM_ROWS \in Nat \ {0} /\ NUM_COLS \in Nat \ {0}
    /\ Blank \notin Chars /\ Newline \notin Chars \cup {Blank}
    /\ ScrollElsewhere \in BOOLEAN

VARIABLES
    mem,               \* video memory and the terminals' pages
    x, y,              \* screen_x and screen_y of each terminal
    cursor,            \* where the hardware shows the cursor
    cur_terminal,      \* the terminal in the foreground
    execute_terminal,  \* the one in the foreground at the last execute
    pc,                \* is the program between calls, in execute or writing?
    writer,            \* terminal of curr_pcb, the local of terminal_write
    astray             \* not in the code: has text come out on the terminal
                       \* in front, while another one was that of the last
                       \* execute, since the hardware's cursor was placed?

vars == <<mem, x, y, cursor, cur_terminal, execute_terminal, pc, writer, astray>>

BlankScreen == [cell \in Rows \X Cols |-> Blank]

\* One row up, the last one blank.
ScrolledUp(screen) ==
    [cell \in Rows \X Cols |-> IF cell[1] = NUM_ROWS - 1 THEN Blank
                               ELSE screen[<<cell[1] + 1, cell[2]>>]]

ScreensOf(texts) == [Rows \X Cols -> texts]

\* clear() in kernel.c, then terminal_init.  Nobody clears the pages.
Init ==
    /\ mem \in [Terminals \cup {VIDEO} -> ScreensOf(Chars \cup {Blank})]
    /\ mem[VIDEO] = BlankScreen /\ mem[First] = BlankScreen
    /\ x = [u \in Terminals |-> 0] /\ y = [u \in Terminals |-> 0]
    /\ cursor = <<0, 0>>
    /\ cur_terminal = First
    /\ execute_terminal = First
    /\ pc = "run" /\ writer = First
    /\ astray = FALSE

-----------------------------------------------------------------------------
\* Where the text of terminal u is.
Location(u) == IF u = cur_terminal THEN VIDEO ELSE u

\* May terminal u scroll?  (A bound of the model, not a test in the code.)
MayScroll(u) ==
    ScrollElsewhere \/ (u = cur_terminal /\ u = execute_terminal)

\* vertical_scroll, lib.c 57-84: the text comes from video_mem in any case.
Scrolled(u) == mem' = [mem EXCEPT ![Location(u)] = ScrolledUp(mem[VIDEO])]

\* move_cursor to the cursor of u, after a step.
MoveCursor(u) == cursor' = <<y'[u], x'[u]>> /\ astray' = FALSE

\* Text on terminal u moves that one's own cursor only.
Passes(u) == astray' = (astray \/ (u = cur_terminal /\ u # execute_terminal))

-----------------------------------------------------------------------------
\* putc(ch, u), lib.c 274-307.

\* 301-305: past the last column comes the first one of the same row, for
\* screen_x / NUM_COLS is 0 after the modulo, and the row is on the screen.
Store(ch, u) ==
    /\ mem' = [mem EXCEPT ![Location(u)][<<y[u], x[u]>>] = ch]
    /\ x' = [x EXCEPT ![u] = (@ + 1) % NUM_COLS]
    /\ Passes(u)
    /\ UNCHANGED <<y, cursor>>

\* Mutant of LineFeed: the test of line 293 is off by one.
LineFeedLate(u) ==
    /\ y[u] + 1 <= NUM_ROWS
    /\ y' = [y EXCEPT ![u] = @ + 1]
    /\ x' = [x EXCEPT ![u] = 0]
    /\ Passes(u)
    /\ UNCHANGED <<mem, cursor>>

\* 290-293
LineFeed(u) ==
    /\ y[u] + 1 < NUM_ROWS
    /\ y' = [y EXCEPT ![u] = @ + 1]
    /\ x' = [x EXCEPT ![u] = 0]
    /\ Passes(u)
    /\ UNCHANGED <<mem, cursor>>

\* 290-298: vertical_scroll brings back the cursor of execute_terminal (85-86),
\* not that of u.
Scroll(u) ==
    /\ y[u] + 1 >= NUM_ROWS
    /\ MayScroll(u)
    /\ Scrolled(u)
    /\ y' = [y EXCEPT ![u] = @ + 1, ![execute_terminal] = NUM_ROWS - 1]
    /\ x' = [x EXCEPT ![u] = 0, ![execute_terminal] = 0]
    /\ IF cur_terminal = u THEN MoveCursor(u) ELSE UNCHANGED <<cursor, astray>>

Putc(ch, u) ==
    /\ \/ ch # Newline /\ Store(ch, u)
       \/ ch = Newline /\ (LineFeed(u) \/ Scroll(u))
    /\ UNCHANGED <<cur_terminal, execute_terminal, pc, writer>>

-----------------------------------------------------------------------------
\* The program that runs.

\* execute, system_call.c 141; a command that fails prints a message, each
\* character to the terminal in the foreground (lib.c 143-261).
Execute ==
    /\ pc = "run"
    /\ execute_terminal' = cur_terminal
    /\ pc' = "execute"
    /\ UNCHANGED <<mem, x, y, cursor, cur_terminal, writer, astray>>

Printf(ch) == pc = "execute" /\ Putc(ch, cur_terminal)

ExecuteReturn ==
    /\ pc = "execute"
    /\ pc' = "run"
    /\ UNCHANGED <<mem, x, y, cursor, cur_terminal, execute_terminal, writer, astray>>

\* terminal_write, terminal.c 63-108.  curr_pcb is a process of terminal u: of
\* the n-th terminal while n shells start, then what execute_terminal's cur_pcb
\* leads to (65-85), which need not belong to execute_terminal.
CallWrite(u) ==
    /\ pc = "run"
    /\ writer' = u
    /\ pc' = "write"
    /\ UNCHANGED <<mem, x, y, cursor, cur_terminal, execute_terminal, astray>>

\* 95
WriteChar(ch) == pc = "write" /\ Putc(ch, writer)

\* Mutant of WriteReturn: the test of line 99 is missing.
WriteReturnAlways ==
    /\ pc = "write"
    /\ UNCHANGED <<mem, x, y, cur_terminal, execute_terminal>>
    /\ MoveCursor(execute_terminal)
    /\ pc' = "run" /\ writer' = First

\* 99-108: where the text has gone does not matter here.
WriteReturn ==
    /\ pc = "write"
    /\ UNCHANGED <<mem, x, y, cur_terminal, execute_terminal>>
    /\ IF cur_terminal = execute_terminal THEN MoveCursor(execute_terminal)
       ELSE UNCHANGED <<cursor, astray>>
    /\ pc' = "run" /\ writer' = First          \* a local no more

Program ==
    \/ Execute \/ ExecuteReturn \/ WriteReturn
    \/ \E u \in Terminals : CallWrite(u)
    \/ \E ch \in Chars \cup {Newline} : Printf(ch) \/ WriteChar(ch)

-----------------------------------------------------------------------------
\* Keys.

Here == cur_terminal

\* A step of handle_key ends with the cursor at (row, col) of terminal Here.
PlaceCursor(row, col) ==
    /\ y' = [y EXCEPT ![Here] = row]
    /\ x' = [x EXCEPT ![Here] = col]
    /\ cursor' = <<row, col>> /\ astray' = FALSE
    /\ UNCHANGED <<cur_terminal, execute_terminal, pc, writer>>

\* handle_enter (keyboard.c 227-263): scroll in the last row, else putc of a
\* newline; shown is video memory before it.
HandleEnter(shown) ==
    IF y[Here] = NUM_ROWS - 1
    THEN /\ MayScroll(Here)
         /\ mem' = [mem EXCEPT ![VIDEO] = ScrolledUp(shown)]
         /\ y' = [y EXCEPT ![execute_terminal] = NUM_ROWS - 1,
                           ![Here] = NUM_ROWS - 1]
         /\ x' = [x EXCEPT ![execute_terminal] = 0, ![Here] = 0]
         /\ cursor' = <<NUM_ROWS - 1, 0>> /\ astray' = FALSE
         /\ UNCHANGED <<cur_terminal, execute_terminal, pc, writer>>
    ELSE /\ mem' = [mem EXCEPT ![VIDEO] = shown]
         /\ PlaceCursor(y[Here] + 1, 0)

\* 205-219: a character is echoed; in the last column a new line follows.
Character(ch) ==
    /\ LET shown == [mem[VIDEO] EXCEPT ![<<y[Here], x[Here]>>] = ch] IN
         IF x[Here] = NUM_COLS - 1
         THEN HandleEnter(shown)
         ELSE /\ mem' = [mem EXCEPT ![VIDEO] = shown]
              /\ PlaceCursor(y[Here], x[Here] + 1)

EnterKey == HandleEnter(mem[VIDEO])

\* 172-184: one column back, or to the row above, where enter_index says (any
\* column); then that cell is cleared (lib.c 49-52).
Backspace ==
    /\ \/ x[Here] > 0 /\ PlaceCursor(y[Here], x[Here] - 1)
       \/ x[Here] = 0 /\ y[Here] # 0
          /\ \E col \in Cols : PlaceCursor(y[Here] - 1, col)
       \/ x[Here] = 0 /\ y[Here] = 0 /\ PlaceCursor(0, 0)
    /\ mem' = [mem EXCEPT ![VIDEO][cursor'] = Blank]

\* 156-162 and clear
ControlL ==
    /\ mem' = [mem EXCEPT ![VIDEO] = BlankScreen]
    /\ PlaceCursor(0, 0)

\* Mutant of switch_terminal: cur_terminal moves before the copy out.
switch_terminal_early(id) ==
    /\ id # cur_terminal
    /\ cur_terminal' = id
    /\ mem' = [mem EXCEPT ![id] = BlankScreen]
    /\ UNCHANGED <<x, y, execute_terminal, pc, writer>>
    /\ MoveCursor(id)

\* terminal.c 153-218: copy video memory out and the page of id in, which
\* counts for nothing from then on.
switch_terminal(id) ==
    /\ id # cur_terminal
    /\ cur_terminal' = id
    /\ mem' = [mem EXCEPT ![cur_terminal] = mem[VIDEO], ![VIDEO] = mem[id],
                          ![id] = BlankScreen]
    /\ UNCHANGED <<x, y, execute_terminal, pc, writer>>
    /\ MoveCursor(id)

Key == \/ \E ch \in Chars : Character(ch)
       \/ EnterKey \/ Backspace \/ ControlL
       \/ \E id \in Terminals : switch_terminal(id)

Next == Program \/ Key

Spec == Init /\ [][Next]_vars

-----------------------------------------------------------------------------
\* The type invariant, where no terminal scrolls elsewhere: a row is never
\* off the screen between two calls of putc.
TypeOK ==
    /\ mem \in [Terminals \cup {VIDEO} -> ScreensOf(Chars \cup {Blank})]
    /\ x \in [Terminals -> Cols]
    /\ y \in [Terminals -> Rows]
    /\ cursor \in Rows \X Cols
    /\ cur_terminal \in Terminals /\ execute_terminal \in Terminals
    /\ pc \in {"run", "execute", "write"}
    /\ writer \in Terminals
    /\ astray \in BOOLEAN

\* What each terminal shows, or would show in the foreground.
Shown == [u \in Terminals |-> mem[Location(u)]]

\* Each terminal has a screen of its own: whatever is written in the
\* foreground or the background, and however the user switches between two
\* calls of putc, a screen changes only by what is typed and printed on that
\* terminal.
Own == INSTANCE OwnScreens WITH cells <- Shown, row <- y, col <- x

AreOwnScreens == Own!ScreensSpec

\* When terminal_write returns, the hardware's cursor is that of the terminal
\* in front, though programs and keys move both and the user switches between
\* any two characters.  There is one way for it to be elsewhere: text has come
\* out in front, and the terminal of the last execute, by which terminal_write
\* decides (99), is another one.
CursorShown ==
    [][WriteReturn =>
         astray' \/ cursor' = <<y[cur_terminal], x[cur_terminal]>>]_vars

\* vertical_scroll "takes in a terminal id so that it knows which terminal to
\* scroll in" (lib.c 55): no text of a terminal comes from another one, and no
\* other cursor moves.
ScrollsOne ==
    [][\A u \in Terminals :
         Scroll(u) =>
           /\ mem'[Location(u)] = ScrolledUp(mem[Location(u)])
           /\ \A v \in Terminals \ {u} : x'[v] = x[v] /\ y'[v] = y[v]]_vars

=============================================================================
