---------------------------- MODULE ScreensProof ----------------------------
(***************************************************************************)
(* For any number of terminals, rows, columns and characters: the cursor   *)
(* is where it should be when a program has written (CursorShown); and, as *)
(* long as only the terminal in front scrolls for its own program, Screens *)
(* has the types of TypeOK, and the terminals are screens of their own     *)
(* (AreOwnScreens).                                                        *)
(***************************************************************************)
EXTENDS Screens, TLAPS

-----------------------------------------------------------------------------
(* The invariant behind the cursor.                                        *)

\* As long as the terminal in front is not that of the last execute, it is
\* keys and text that have come out on it that can move the cursor of the
\* terminal in front, and the hardware's follows the keys.
CursorKept ==
    cur_terminal # execute_terminal /\ ~astray
        => cursor = <<y[cur_terminal], x[cur_terminal]>>

CursorInv ==
    /\ DOMAIN x = Terminals /\ DOMAIN y = Terminals
    /\ cur_terminal \in Terminals /\ execute_terminal \in Terminals
    /\ writer \in Terminals
    /\ astray \in BOOLEAN
    /\ CursorKept

-----------------------------------------------------------------------------
(* Screens as functions of cells.                                          *)

Texts == Chars \cup {Blank}

\* A screen that scrolls is a screen.
LEMMA ScrolledIsScreen ==
  ASSUME NEW screen \in ScreensOf(Texts)
  PROVE  ScrolledUp(screen) \in ScreensOf(Texts)
<1>1. SUFFICES ASSUME NEW cell \in Rows \X Cols
               PROVE  (IF cell[1] = NUM_ROWS - 1 THEN Blank
                       ELSE screen[<<cell[1] + 1, cell[2]>>]) \in Texts
  BY DEF ScrolledUp, ScreensOf
<1>2. cell[1] \in Rows /\ cell[2] \in Cols
  OBVIOUS
<1>3. CASE cell[1] = NUM_ROWS - 1
  BY <1>3 DEF Texts
<1>4. CASE cell[1] # NUM_ROWS - 1
  <2>1. cell[1] + 1 \in Rows
    BY <1>2, <1>4, ConstantsAssumption DEF Rows
  <2>2. <<cell[1] + 1, cell[2]>> \in Rows \X Cols
    BY <1>2, <2>1
  <2> QED
    BY <1>4, <2>2 DEF ScreensOf
<1> QED
  BY <1>3, <1>4

\* A screen with another text in one cell is a screen.
LEMMA MarkedIsScreen ==
  ASSUME NEW screen \in ScreensOf(Texts), NEW cell \in Rows \X Cols,
         NEW ch \in Texts
  PROVE  [screen EXCEPT ![cell] = ch] \in ScreensOf(Texts)
BY DEF ScreensOf

\* So is one that is cleared.
LEMMA BlankIsScreen == BlankScreen \in ScreensOf(Texts)
BY DEF BlankScreen, ScreensOf, Texts

\* Memory stays memory when one screen of it is replaced.
LEMMA StoredIsMemory ==
  ASSUME NEW m \in [Terminals \cup {VIDEO} -> ScreensOf(Texts)],
         NEW place \in Terminals \cup {VIDEO},
         NEW screen \in ScreensOf(Texts)
  PROVE  [m EXCEPT ![place] = screen]
             \in [Terminals \cup {VIDEO} -> ScreensOf(Texts)]
OBVIOUS

\* Two terminals' texts are never in the same place.
LEMMA PlacesDiffer ==
  ASSUME NEW u \in Terminals, NEW v \in Terminals, u # v
  PROVE  Location(u) # Location(v)
BY ConstantsAssumption DEF Location

-----------------------------------------------------------------------------
(* Type correctness.                                                       *)

\* The types hold at first.
LEMMA InitTypes == Init => TypeOK
<1>1. 0 \in Rows /\ 0 \in Cols
  BY ConstantsAssumption DEF Rows, Cols
<1>2. SUFFICES ASSUME Init PROVE TypeOK
  OBVIOUS
<1>3. x \in [Terminals -> Cols] /\ y \in [Terminals -> Rows]
      /\ cursor \in Rows \X Cols
  BY <1>1, <1>2 DEF Init
<1>4. /\ mem \in [Terminals \cup {VIDEO} -> ScreensOf(Chars \cup {Blank})]
      /\ cur_terminal \in Terminals /\ execute_terminal \in Terminals
      /\ writer \in Terminals /\ pc = "run" /\ astray = FALSE
  BY <1>2, ConstantsAssumption DEF Init
<1> QED
  BY <1>3, <1>4 DEF TypeOK

\* Every cursor is on its screen.
LEMMA CursorsInside ==
  ASSUME TypeOK, NEW u \in Terminals
  PROVE  /\ x[u] \in Cols /\ y[u] \in Rows
         /\ Location(u) \in Terminals \cup {VIDEO}
         /\ mem[Location(u)] \in ScreensOf(Texts)
         /\ mem[VIDEO] \in ScreensOf(Texts)
         /\ mem \in [Terminals \cup {VIDEO} -> ScreensOf(Texts)]
<1>1. Location(u) \in Terminals \cup {VIDEO}
  BY DEF Location
<1> QED
  BY <1>1 DEF TypeOK, Texts

\* A step that moves cursors on the screen keeps the types.
LEMMA MovedTypes ==
  ASSUME TypeOK,
         mem' \in [Terminals \cup {VIDEO} -> ScreensOf(Texts)],
         x' \in [Terminals -> Cols], y' \in [Terminals -> Rows],
         cursor' \in Rows \X Cols, astray' \in BOOLEAN,
         cur_terminal' \in Terminals,
         UNCHANGED <<execute_terminal, pc, writer>>
  PROVE  TypeOK'
BY DEF TypeOK, Texts

\* A character is stored inside the screen it belongs to.
LEMMA StoreTypes ==
  ASSUME TypeOK, NEW ch \in Chars, NEW u \in Terminals, Store(ch, u),
         UNCHANGED <<cur_terminal, execute_terminal, pc, writer>>
  PROVE  TypeOK'
<1>1. (x[u] + 1) % NUM_COLS \in Cols
  BY CursorsInside, ConstantsAssumption DEF Cols
<1>2. [mem[Location(u)] EXCEPT ![<<y[u], x[u]>>] = ch] \in ScreensOf(Texts)
  BY CursorsInside, MarkedIsScreen DEF Texts
<1>3. mem' = [mem EXCEPT ![Location(u)] =
                  [mem[Location(u)] EXCEPT ![<<y[u], x[u]>>] = ch]]
  BY DEF Store
<1>4. mem' \in [Terminals \cup {VIDEO} -> ScreensOf(Texts)]
  BY <1>2, <1>3, CursorsInside, StoredIsMemory
<1>5. x' \in [Terminals -> Cols] /\ y' \in [Terminals -> Rows]
  BY <1>1 DEF TypeOK, Store
<1>6. cursor' \in Rows \X Cols /\ astray' \in BOOLEAN
  BY DEF TypeOK, Store, Passes
<1>7. cur_terminal' \in Terminals
  BY DEF TypeOK
<1> QED
  BY <1>4, <1>5, <1>6, <1>7, MovedTypes

\* A line feed stays on the screen, since the last row scrolls.
LEMMA LineFeedTypes ==
  ASSUME TypeOK, NEW u \in Terminals, LineFeed(u),
         UNCHANGED <<cur_terminal, execute_terminal, pc, writer>>
  PROVE  TypeOK'
<1>1. y[u] + 1 \in Rows /\ 0 \in Cols
  BY CursorsInside, ConstantsAssumption DEF LineFeed, Rows, Cols
<1>2. x' \in [Terminals -> Cols] /\ y' \in [Terminals -> Rows]
  BY <1>1 DEF TypeOK, LineFeed
<1>3. cursor' \in Rows \X Cols /\ astray' \in BOOLEAN
  BY DEF TypeOK, LineFeed, Passes
<1>4. mem' \in [Terminals \cup {VIDEO} -> ScreensOf(Texts)]
      /\ cur_terminal' \in Terminals
  BY CursorsInside DEF TypeOK, LineFeed
<1> QED
  BY <1>2, <1>3, <1>4, MovedTypes

\* A scroll brings the row back on the screen: u is the terminal of the last
\* execute, whose cursor vertical_scroll moves.
LEMMA ScrollTypes ==
  ASSUME TypeOK, ScrollElsewhere = FALSE, NEW u \in Terminals, Scroll(u),
         UNCHANGED <<cur_terminal, execute_terminal, pc, writer>>
  PROVE  TypeOK'
<1>1. u = execute_terminal /\ u = cur_terminal
  BY DEF Scroll, MayScroll
<1>2. NUM_ROWS - 1 \in Rows /\ 0 \in Cols
  BY ConstantsAssumption DEF Rows, Cols
<1>3. /\ y' = [y EXCEPT ![u] = NUM_ROWS - 1] /\ x' = [x EXCEPT ![u] = 0]
      /\ cursor' = <<y'[u], x'[u]>> /\ astray' = FALSE
      /\ mem' = [mem EXCEPT ![Location(u)] = ScrolledUp(mem[VIDEO])]
  BY <1>1 DEF Scroll, Scrolled, MoveCursor, TypeOK
<1>4. x' \in [Terminals -> Cols] /\ y' \in [Terminals -> Rows]
  BY <1>2, <1>3 DEF TypeOK
<1>5. cursor' \in Rows \X Cols /\ astray' \in BOOLEAN
  BY <1>3, <1>4
<1>6. mem' \in [Terminals \cup {VIDEO} -> ScreensOf(Texts)]
  BY <1>3, CursorsInside, ScrolledIsScreen, StoredIsMemory
<1>7. cur_terminal' \in Terminals
  BY DEF TypeOK
<1> QED
  BY <1>4, <1>5, <1>6, <1>7, MovedTypes

\* putc keeps the types, whatever terminal it is called for.
LEMMA PutcTypes ==
  ASSUME TypeOK, ScrollElsewhere = FALSE, NEW u \in Terminals,
         NEW ch \in Chars \cup {Newline}, Putc(ch, u)
  PROVE  TypeOK'
<1>1. UNCHANGED <<cur_terminal, execute_terminal, pc, writer>>
  BY DEF Putc
<1>2. CASE ch # Newline /\ Store(ch, u)
  BY <1>1, <1>2, StoreTypes
<1>3. CASE LineFeed(u)
  BY <1>1, <1>3, LineFeedTypes
<1>4. CASE Scroll(u)
  BY <1>1, <1>4, ScrollTypes
<1> QED
  BY <1>2, <1>3, <1>4 DEF Putc

\* The calls of the program between two characters keep the types.
LEMMA CallsTypes ==
  ASSUME TypeOK, \/ Execute \/ ExecuteReturn \/ WriteReturn
                 \/ \E u \in Terminals : CallWrite(u)
  PROVE  TypeOK'
<1>1. CASE Execute \/ ExecuteReturn
  BY <1>1 DEF TypeOK, Execute, ExecuteReturn
<1>2. CASE \E u \in Terminals : CallWrite(u)
  BY <1>2 DEF TypeOK, CallWrite
<1>3. CASE WriteReturn
  <2>1. cursor' \in Rows \X Cols /\ astray' \in BOOLEAN
    <3>1. /\ execute_terminal \in Terminals /\ UNCHANGED <<x, y>>
          /\ y[execute_terminal] \in Rows /\ x[execute_terminal] \in Cols
          /\ cursor \in Rows \X Cols /\ astray \in BOOLEAN
      BY <1>3 DEF TypeOK, WriteReturn
    <3>2. \/ cursor' = <<y'[execute_terminal], x'[execute_terminal]>> /\ astray' = FALSE
          \/ UNCHANGED <<cursor, astray>>
      BY <1>3 DEF WriteReturn, MoveCursor
    <3>3. y'[execute_terminal] \in Rows /\ x'[execute_terminal] \in Cols
      BY <3>1
    <3>4. <<y'[execute_terminal], x'[execute_terminal]>> \in Rows \X Cols
      BY <3>3
    <3>5. CASE UNCHANGED <<cursor, astray>>
      BY <3>1, <3>5
    <3>6. CASE cursor' = <<y'[execute_terminal], x'[execute_terminal]>> /\ astray' = FALSE
      BY <3>4, <3>6, Zenon
    <3> QED
      BY <3>2, <3>5, <3>6
  <2>2. First \in Terminals
    BY ConstantsAssumption
  <2> QED
    BY <1>3, <2>1, <2>2 DEF TypeOK, WriteReturn
<1> QED
  BY <1>1, <1>2, <1>3

\* A step of the running program keeps the types.
LEMMA ProgramTypes ==
  ASSUME TypeOK, ScrollElsewhere = FALSE, Program
  PROVE  TypeOK'
<1>1. ASSUME NEW ch \in Chars \cup {Newline}, Printf(ch) \/ WriteChar(ch)
      PROVE  TypeOK'
  <2>1. cur_terminal \in Terminals /\ writer \in Terminals
    BY DEF TypeOK
  <2> QED
    BY <1>1, <2>1, PutcTypes DEF Printf, WriteChar
<1> QED
  BY <1>1, CallsTypes DEF Program

-----------------------------------------------------------------------------
(* Keys.                                                                   *)

\* A key that leaves the cursor of the terminal in front at (row, col) of the
\* screen keeps the types.
LEMMA PlaceCursorTypes ==
  ASSUME TypeOK, NEW row \in Rows, NEW col \in Cols, PlaceCursor(row, col),
         NEW screen \in ScreensOf(Texts), mem' = [mem EXCEPT ![VIDEO] = screen]
  PROVE  TypeOK'
<1>1. mem' \in [Terminals \cup {VIDEO} -> ScreensOf(Texts)]
  BY StoredIsMemory DEF TypeOK, Texts
<1>2. x' \in [Terminals -> Cols] /\ y' \in [Terminals -> Rows]
  BY DEF TypeOK, PlaceCursor
<1>3. /\ cursor' \in Rows \X Cols /\ astray' \in BOOLEAN
      /\ cur_terminal' \in Terminals
      /\ UNCHANGED <<execute_terminal, pc, writer>>
  BY DEF TypeOK, PlaceCursor
<1> QED
  BY <1>1, <1>2, <1>3, MovedTypes

\* handle_enter scrolls or goes to the next row.
LEMMA HandleEnterTypes ==
  ASSUME TypeOK, NEW shown \in ScreensOf(Texts), HandleEnter(shown)
  PROVE  TypeOK'
<1>1. 0 \in Cols /\ NUM_ROWS - 1 \in Rows
  BY ConstantsAssumption DEF Cols, Rows
<1>2. Here \in Terminals /\ y[Here] \in Rows
  BY CursorsInside DEF TypeOK, Here
<1>3. CASE y[Here] = NUM_ROWS - 1
  <2>1. mem' \in [Terminals \cup {VIDEO} -> ScreensOf(Texts)]
    BY <1>3, ScrolledIsScreen, StoredIsMemory DEF HandleEnter, TypeOK, Texts
  <2>2. x' \in [Terminals -> Cols] /\ y' \in [Terminals -> Rows]
    BY <1>1, <1>3 DEF HandleEnter, TypeOK
  <2>3. /\ cursor' \in Rows \X Cols /\ astray' \in BOOLEAN
        /\ cur_terminal' \in Terminals
        /\ UNCHANGED <<execute_terminal, pc, writer>>
    <3>1. /\ cursor' = <<NUM_ROWS - 1, 0>> /\ astray' = FALSE
          /\ UNCHANGED <<cur_terminal, execute_terminal, pc, writer>>
      BY <1>3 DEF HandleEnter
    <3> QED
      BY <1>1, <3>1 DEF TypeOK
  <2> QED
    BY <2>1, <2>2, <2>3, MovedTypes
<1>4. CASE y[Here] # NUM_ROWS - 1
  <2>1. mem' = [mem EXCEPT ![VIDEO] = shown] /\ PlaceCursor(y[Here] + 1, 0)
    BY <1>4 DEF HandleEnter
  <2>2. y[Here] + 1 \in Rows
    BY <1>2, <1>4, ConstantsAssumption DEF Rows
  <2> QED
    BY <1>1, <2>1, <2>2, PlaceCursorTypes
<1> QED
  BY <1>3, <1>4

\* A character that is echoed, and the new line after the last column.
LEMMA CharacterTypes == ASSUME TypeOK, NEW ch \in Chars, Character(ch) PROVE TypeOK'
<1> DEFINE shown == [mem[VIDEO] EXCEPT ![<<y[Here], x[Here]>>] = ch]
<1>1. /\ Here \in Terminals /\ y[Here] \in Rows /\ x[Here] \in Cols
      /\ mem[VIDEO] \in ScreensOf(Texts)
  BY CursorsInside DEF TypeOK, Here
<1>2. shown \in ScreensOf(Texts)
  BY <1>1, MarkedIsScreen DEF Texts
<1>3. CASE x[Here] = NUM_COLS - 1
  <2>1. HandleEnter(shown)
    BY <1>3 DEF Character
  <2> HIDE DEF shown
  <2> QED
    BY <1>2, <2>1, HandleEnterTypes
<1>4. CASE x[Here] # NUM_COLS - 1
  <2>1. mem' = [mem EXCEPT ![VIDEO] = shown] /\ PlaceCursor(y[Here], x[Here] + 1)
    BY <1>4 DEF Character
  <2>2. x[Here] + 1 \in Cols
    BY <1>1, <1>4, ConstantsAssumption DEF Cols
  <2> HIDE DEF shown
  <2>3. PICK col \in Cols : col = x[Here] + 1
    BY <2>2
  <2> QED
    BY <1>1, <1>2, <2>1, <2>3, PlaceCursorTypes
<1> QED
  BY <1>3, <1>4

\* Backspace goes to a cell of the screen, and clears it.
LEMMA BackspaceTo ==
  ASSUME TypeOK, Backspace
  PROVE  \E r \in Rows, k \in Cols :
           /\ PlaceCursor(r, k)
           /\ mem' = [mem EXCEPT ![VIDEO] = [mem[VIDEO] EXCEPT ![<<r, k>>] = Blank]]
           /\ \/ x[Here] > 0 /\ r = y[Here] /\ k = x[Here] - 1
              \/ x[Here] = 0 /\ y[Here] # 0 /\ r = y[Here] - 1
              \/ x[Here] = 0 /\ y[Here] = 0 /\ r = 0 /\ k = 0
<1> USE ConstantsAssumption
<1>1. mem' = [mem EXCEPT ![VIDEO] = [mem[VIDEO] EXCEPT ![cursor'] = Blank]]
  BY DEF Backspace
<1>2. x[Here] \in Cols /\ y[Here] \in Rows /\ 0 \in Rows /\ 0 \in Cols
  BY CursorsInside DEF TypeOK, Here, Rows, Cols
<1>3. \A r, k : PlaceCursor(r, k) => cursor' = <<r, k>>
  BY DEF PlaceCursor
<1>4. CASE x[Here] > 0 /\ PlaceCursor(y[Here], x[Here] - 1)
  <2>1. x[Here] - 1 \in Cols
    BY <1>2, <1>4 DEF Cols
  <2> QED
    BY <1>1, <1>2, <1>3, <1>4, <2>1
<1>5. CASE x[Here] = 0 /\ y[Here] # 0
           /\ \E col \in Cols : PlaceCursor(y[Here] - 1, col)
  <2>1. y[Here] - 1 \in Rows
    BY <1>2, <1>5 DEF Rows
  <2>2. PICK col \in Cols : PlaceCursor(y[Here] - 1, col)
    BY <1>5
  <2> QED
    BY <1>1, <1>3, <1>5, <2>1, <2>2
<1>6. CASE x[Here] = 0 /\ y[Here] = 0 /\ PlaceCursor(0, 0)
  BY <1>1, <1>2, <1>3, <1>6
<1> QED
  BY <1>4, <1>5, <1>6 DEF Backspace

\* Control-L and Backspace keep the types.
LEMMA ErasingTypes == ASSUME TypeOK, Backspace \/ ControlL PROVE TypeOK'
<1>1. CASE Backspace
  <2>1. PICK r \in Rows, k \in Cols :
          /\ PlaceCursor(r, k)
          /\ mem' = [mem EXCEPT ![VIDEO] = [mem[VIDEO] EXCEPT ![<<r, k>>] = Blank]]
    BY <1>1, BackspaceTo
  <2>2. [mem[VIDEO] EXCEPT ![<<r, k>>] = Blank] \in ScreensOf(Texts)
    BY MarkedIsScreen DEF TypeOK, Texts
  <2> QED
    BY <2>1, <2>2, PlaceCursorTypes
<1>2. CASE ControlL
  <2>1. 0 \in Rows /\ 0 \in Cols
    BY ConstantsAssumption DEF Rows, Cols
  <2> QED
    BY <1>2, <2>1, BlankIsScreen, PlaceCursorTypes DEF ControlL
<1> QED
  BY <1>1, <1>2

\* Switching moves the cursor to where the other terminal has it.
LEMMA SwitchTypes ==
  ASSUME TypeOK, NEW id \in Terminals, switch_terminal(id)
  PROVE  TypeOK'
<1>1. mem' \in [Terminals \cup {VIDEO} -> ScreensOf(Texts)]
  BY BlankIsScreen DEF TypeOK, switch_terminal, Texts
<1>2. /\ x' \in [Terminals -> Cols] /\ y' \in [Terminals -> Rows]
      /\ cursor' \in Rows \X Cols /\ astray' \in BOOLEAN
      /\ cur_terminal' \in Terminals
      /\ UNCHANGED <<execute_terminal, pc, writer>>
  BY DEF TypeOK, switch_terminal, MoveCursor
<1> QED
  BY <1>1, <1>2, MovedTypes

\* Every step keeps the types.
LEMMA NextTypes == ScrollElsewhere = FALSE /\ TypeOK /\ [Next]_vars => TypeOK'
<1> SUFFICES ASSUME ScrollElsewhere = FALSE, TypeOK, [Next]_vars PROVE TypeOK'
  OBVIOUS
<1>1. CASE Program
  BY <1>1, ProgramTypes
<1>2. CASE Key
  <2>1. CASE EnterKey
    BY <2>1, HandleEnterTypes DEF EnterKey, TypeOK, Texts
  <2> QED
    BY <1>2, <2>1, CharacterTypes, ErasingTypes, SwitchTypes DEF Key
<1>3. CASE UNCHANGED vars
  BY <1>3 DEF vars, TypeOK
<1> QED
  BY <1>1, <1>2, <1>3 DEF Next

\* As long as only the terminal in front scrolls for its own program, memory,
\* rows, columns and the hardware's cursor keep their types: no call of putc
\* leaves a row off the screen.
THEOREM TypeCorrect == ASSUME ScrollElsewhere = FALSE PROVE Spec => []TypeOK
<1>1. TypeOK /\ [Next]_vars => TypeOK'
  BY NextTypes
<1> QED
  BY <1>1, InitTypes, PTL DEF Spec

-----------------------------------------------------------------------------
(* The cursor, wherever terminals scroll.                                  *)

\* The invariant holds at first.
LEMMA InitCursor == Init => CursorInv
BY ConstantsAssumption DEF Init, CursorInv, CursorKept

\* A character, a line feed or a scroll of the terminal in front either moves
\* the hardware's cursor or is noted as astray; other terminals' do not matter.
LEMMA PutcCursor ==
  ASSUME CursorInv, NEW ch, NEW u \in Terminals, Putc(ch, u)
  PROVE  CursorInv'
<1>1. UNCHANGED <<cur_terminal, execute_terminal, writer>>
  BY DEF Putc
<1>2. CASE Store(ch, u) \/ LineFeed(u)
  <2>1. /\ DOMAIN x' = Terminals /\ DOMAIN y' = Terminals /\ cursor' = cursor
        /\ astray' = (astray \/ (u = cur_terminal /\ u # execute_terminal))
    BY <1>2 DEF CursorInv, Store, LineFeed, Passes
  <2>2. u # cur_terminal =>
          x'[cur_terminal] = x[cur_terminal] /\ y'[cur_terminal] = y[cur_terminal]
    BY <1>2 DEF CursorInv, Store, LineFeed
  <2>3. astray' \in BOOLEAN
    BY <2>1
  <2>4. CursorKept'
    BY <1>1, <2>1, <2>2 DEF CursorInv, CursorKept
  <2> QED
    BY <1>1, <2>1, <2>3, <2>4 DEF CursorInv
<1>3. CASE Scroll(u)
  <2>1. DOMAIN x' = Terminals /\ DOMAIN y' = Terminals
    BY <1>3 DEF CursorInv, Scroll
  <2>2. CASE cur_terminal = u
    <3>1. cursor' = <<y'[u], x'[u]>> /\ astray' = FALSE
      BY <1>3, <2>2 DEF Scroll, MoveCursor
    <3> QED
      BY <1>1, <2>1, <2>2, <3>1 DEF CursorInv, CursorKept
  <2>3. CASE cur_terminal # u
    <3>1. UNCHANGED <<cursor, astray>>
      BY <1>3, <2>3 DEF Scroll
    <3>2. cur_terminal # execute_terminal =>
            x'[cur_terminal] = x[cur_terminal] /\ y'[cur_terminal] = y[cur_terminal]
      BY <1>3, <2>3 DEF CursorInv, Scroll
    <3>3. CursorKept'
      BY <1>1, <3>1, <3>2 DEF CursorInv, CursorKept
    <3> QED
      BY <1>1, <2>1, <3>1, <3>3 DEF CursorInv
  <2> QED
    BY <2>2, <2>3
<1> QED
  BY <1>2, <1>3 DEF Putc

\* At the end of terminal_write the cursor is that of the terminal in front: it
\* is moved there, or it was there already.
LEMMA WriteReturnCursor ==
  ASSUME CursorInv, WriteReturn
  PROVE  /\ CursorInv'
         /\ astray' \/ cursor' = <<y[cur_terminal], x[cur_terminal]>>
<1>1. UNCHANGED <<x, y, cur_terminal, execute_terminal>> /\ writer' \in Terminals
  BY ConstantsAssumption DEF WriteReturn
<1>2. CASE cur_terminal = execute_terminal
  <2>1. cursor' = <<y[cur_terminal], x[cur_terminal]>> /\ astray' = FALSE
    BY <1>1, <1>2 DEF WriteReturn, MoveCursor
  <2> QED
    BY <1>1, <1>2, <2>1 DEF CursorInv, CursorKept
<1>3. CASE cur_terminal # execute_terminal
  <2>1. UNCHANGED <<cursor, astray>>
    BY <1>3 DEF WriteReturn
  <2> QED
    BY <1>1, <1>3, <2>1 DEF CursorInv, CursorKept
<1> QED
  BY <1>2, <1>3

\* The other calls do not move cursors; execute makes the terminal in front its
\* own.
LEMMA CallsCursor ==
  ASSUME CursorInv, Execute \/ ExecuteReturn \/ \E u \in Terminals : CallWrite(u)
  PROVE  CursorInv'
<1>1. UNCHANGED <<x, y, cursor, cur_terminal, astray>>
  BY DEF Execute, ExecuteReturn, CallWrite
<1>3. writer' \in Terminals
  BY DEF Execute, ExecuteReturn, CallWrite, CursorInv
<1>2. execute_terminal' \in {execute_terminal, cur_terminal}
  BY DEF Execute, ExecuteReturn, CallWrite
<1> QED
  BY <1>1, <1>2, <1>3 DEF CursorInv, CursorKept

\* Every key places the hardware's cursor.
LEMMA KeyCursor == ASSUME CursorInv, Key PROVE CursorInv'
<1>1. ASSUME NEW r, NEW k, PlaceCursor(r, k) PROVE CursorInv'
  BY <1>1 DEF PlaceCursor, Here, CursorInv, CursorKept
<1>2. ASSUME NEW shown, HandleEnter(shown) PROVE CursorInv'
  <2>1. CASE y[Here] = NUM_ROWS - 1
    <3>1. /\ DOMAIN x' = Terminals /\ DOMAIN y' = Terminals
          /\ y'[cur_terminal] = NUM_ROWS - 1 /\ x'[cur_terminal] = 0
      BY <1>2, <2>1 DEF HandleEnter, Here, CursorInv
    <3>2. /\ cursor' = <<NUM_ROWS - 1, 0>> /\ astray' = FALSE
          /\ UNCHANGED <<cur_terminal, execute_terminal, writer>>
      BY <1>2, <2>1 DEF HandleEnter
    <3> QED
      BY <3>1, <3>2 DEF CursorInv, CursorKept
  <2>2. CASE y[Here] # NUM_ROWS - 1
    BY <1>1, <1>2, <2>2 DEF HandleEnter
  <2> QED
    BY <2>1, <2>2
<1>3. ASSUME NEW ch \in Chars, Character(ch) PROVE CursorInv'
  BY <1>1, <1>2, <1>3 DEF Character
<1>4. CASE EnterKey
  BY <1>2, <1>4 DEF EnterKey
<1>5. CASE Backspace \/ ControlL
  BY <1>1, <1>5 DEF Backspace, ControlL
<1>6. ASSUME NEW id \in Terminals, switch_terminal(id) PROVE CursorInv'
  BY <1>6 DEF switch_terminal, MoveCursor, CursorInv, CursorKept
<1> QED
  BY <1>3, <1>4, <1>5, <1>6 DEF Key

\* Every step keeps the invariant.
LEMMA NextCursor == CursorInv /\ [Next]_vars => CursorInv'
<1> SUFFICES ASSUME CursorInv, [Next]_vars PROVE CursorInv'
  OBVIOUS
<1>1. ASSUME Program PROVE CursorInv'
  <2>1. ASSUME NEW ch, Printf(ch) PROVE CursorInv'
    BY <2>1, PutcCursor DEF Printf, CursorInv
  <2>2. ASSUME NEW ch, WriteChar(ch) PROVE CursorInv'
    BY <2>2, PutcCursor DEF WriteChar, CursorInv
  <2> QED
    BY <1>1, <2>1, <2>2, CallsCursor, WriteReturnCursor DEF Program
<1>2. CASE UNCHANGED vars
  BY <1>2 DEF vars, CursorInv, CursorKept
<1> QED
  BY <1>1, <1>2, KeyCursor DEF Next

\* When terminal_write returns, the hardware's cursor is that of the terminal in
\* front, whatever was typed, printed, scrolled and switched before, unless text
\* has come out in front while another terminal was that of the last execute.
THEOREM CursorCorrect == Spec => CursorShown
<1>1. CursorInv /\ [Next]_vars =>
        [WriteReturn =>
           astray' \/ cursor' = <<y[cur_terminal], x[cur_terminal]>>]_vars
  BY WriteReturnCursor
<1> QED
  BY <1>1, InitCursor, NextCursor, PTL DEF Spec, CursorShown

-----------------------------------------------------------------------------
(* The refinement.                                                         *)

\* Screen u has become screen, with its cursor at (r, k); the others are as
\* they were.
Changed(u, screen, r, k) ==
    /\ Shown' = [Shown EXCEPT ![u] = screen]
    /\ y' = [y EXCEPT ![u] = r]
    /\ x' = [x EXCEPT ![u] = k]

\* Memory changes only where terminal u is shown: so does what is shown.
LEMMA ChangedIs ==
  ASSUME TypeOK, NEW u \in Terminals, NEW screen, NEW r, NEW k,
         UNCHANGED cur_terminal,
         mem' = [mem EXCEPT ![Location(u)] = screen],
         y' = [y EXCEPT ![u] = r], x' = [x EXCEPT ![u] = k]
  PROVE  Changed(u, screen, r, k)
<1>1. \A v \in Terminals : Location(v)' = Location(v)
                           /\ Location(v) \in Terminals \cup {VIDEO}
  BY DEF Location
<1>2. DOMAIN mem = Terminals \cup {VIDEO}
  BY DEF TypeOK
<1>3. ASSUME NEW v \in Terminals
      PROVE  mem'[Location(v)'] = IF v = u THEN screen ELSE mem[Location(v)]
  <2>1. v # u => Location(v) # Location(u)
    BY PlacesDiffer
  <2> QED
    BY <1>1, <1>2, <2>1
<1>4. Shown' = [Shown EXCEPT ![u] = screen]
  BY <1>3 DEF Shown
<1> QED
  BY <1>4 DEF Changed

\* What terminal u shows before the step.
LEMMA Shows ==
  ASSUME TypeOK, NEW u \in Terminals
  PROVE  /\ Shown[u] = mem[Location(u)] /\ Shown[u] \in ScreensOf(Texts)
         /\ y[u] \in Rows /\ x[u] \in Cols
BY CursorsInside DEF Shown

\* In the last row a new line scrolls, elsewhere it leaves the text alone.
LEMMA BelowIs ==
  ASSUME NEW screen \in ScreensOf(Texts), NEW r \in Rows
  PROVE  Own!Below(screen, r) =
           IF r = NUM_ROWS - 1 THEN ScrolledUp(screen) ELSE screen
<1> USE ConstantsAssumption
<1>1. CASE r = NUM_ROWS - 1
  <2>1. ~(r < NUM_ROWS - 1)
    BY <1>1
  <2>2. ASSUME NEW cell \in Rows \X Cols
        PROVE  (cell[1] < r) = (cell[1] # NUM_ROWS - 1)
    <3>1. cell[1] \in Rows
      OBVIOUS
    <3> QED
      BY <1>1, <3>1 DEF Rows
  <2> QED
    BY <1>1, <2>1, <2>2 DEF Own!Below, Own!Grid, ScrolledUp, Rows, Cols
<1>2. CASE r # NUM_ROWS - 1
  <2>1. r < NUM_ROWS - 1
    BY <1>2 DEF Rows
  <2> QED
    BY <1>2, <2>1 DEF Own!Below, Own!Grid, ScreensOf, Rows, Cols
<1> QED
  BY <1>1, <1>2

\* Storing the character shows as PutChar.
LEMMA StoreShows ==
  ASSUME TypeOK, NEW ch \in Chars, NEW u \in Terminals, Store(ch, u),
         UNCHANGED cur_terminal
  PROVE  Own!Next
<1>1. mem' = [mem EXCEPT ![Location(u)] =
                  [mem[Location(u)] EXCEPT ![<<y[u], x[u]>>] = ch]]
  BY DEF Store
<1>2. y' = [y EXCEPT ![u] = y[u]] /\ x' = [x EXCEPT ![u] = (x[u] + 1) % NUM_COLS]
  BY DEF Store, TypeOK
<1>3. Changed(u, [mem[Location(u)] EXCEPT ![<<y[u], x[u]>>] = ch], y[u],
              (x[u] + 1) % NUM_COLS)
  BY <1>1, <1>2, ChangedIs
<1>4. Own!PutChar(u, ch)
  BY <1>3, Shows DEF Own!PutChar, Own!Update, Own!Marked, Changed
<1> QED
  BY <1>4 DEF Own!Next

\* A line feed shows as NewLine.
LEMMA LineFeedShows ==
  ASSUME TypeOK, NEW u \in Terminals, LineFeed(u), UNCHANGED cur_terminal
  PROVE  Own!Next
<1>1. /\ y[u] \in Rows /\ y[u] + 1 < NUM_ROWS
      /\ Shown[u] = mem[Location(u)] /\ Shown[u] \in ScreensOf(Texts)
  BY Shows DEF LineFeed
<1>2. mem' = [mem EXCEPT ![Location(u)] = Shown[u]]
  BY <1>1 DEF LineFeed, TypeOK
<1>3. y' = [y EXCEPT ![u] = y[u] + 1] /\ x' = [x EXCEPT ![u] = 0]
  BY DEF LineFeed
<1>4. Changed(u, Shown[u], y[u] + 1, 0)
  BY <1>2, <1>3, ChangedIs
<1>5. Own!Below(Shown[u], y[u]) = Shown[u] /\ Own!NextRow(y[u]) = y[u] + 1
  <2>1. y[u] # NUM_ROWS - 1 /\ y[u] < NUM_ROWS - 1
    BY <1>1, ConstantsAssumption DEF Rows
  <2> QED
    BY <1>1, <2>1, BelowIs DEF Own!NextRow
<1>6. Own!NewLine(u)
  BY <1>4, <1>5 DEF Own!NewLine, Own!Update, Changed
<1> QED
  BY <1>6 DEF Own!Next

\* So does a scroll: that the text comes from video memory does no harm where
\* the terminal is in front.
LEMMA ScrollShows ==
  ASSUME TypeOK, ScrollElsewhere = FALSE, NEW u \in Terminals, Scroll(u),
         UNCHANGED cur_terminal
  PROVE  Own!Next
<1>1. u = execute_terminal /\ u = cur_terminal
  BY DEF Scroll, MayScroll
<1>2. /\ y[u] \in Rows /\ y[u] = NUM_ROWS - 1
      /\ Shown[u] = mem[VIDEO] /\ Shown[u] \in ScreensOf(Texts)
  <2>1. y[u] \in Rows /\ y[u] + 1 >= NUM_ROWS
    BY Shows DEF Scroll
  <2>2. y[u] = NUM_ROWS - 1
    BY <2>1, ConstantsAssumption DEF Rows
  <2> QED
    BY <1>1, <2>1, <2>2, Shows DEF Location
<1>3. mem' = [mem EXCEPT ![Location(u)] = ScrolledUp(Shown[u])]
  BY <1>2 DEF Scroll, Scrolled
<1>4. y' = [y EXCEPT ![u] = NUM_ROWS - 1] /\ x' = [x EXCEPT ![u] = 0]
  BY <1>1 DEF Scroll, TypeOK
<1>5. Changed(u, ScrolledUp(Shown[u]), NUM_ROWS - 1, 0)
  BY <1>3, <1>4, ChangedIs
<1>6. Own!Below(Shown[u], y[u]) = ScrolledUp(Shown[u])
      /\ Own!NextRow(y[u]) = NUM_ROWS - 1
  BY <1>2, BelowIs, ConstantsAssumption DEF Own!NextRow
<1>7. Own!NewLine(u)
  BY <1>5, <1>6 DEF Own!NewLine, Own!Update, Changed
<1> QED
  BY <1>7 DEF Own!Next

\* putc shows as one of these, on the terminal it is called for.
LEMMA PutcShows ==
  ASSUME TypeOK, ScrollElsewhere = FALSE, NEW u \in Terminals,
         NEW ch \in Chars \cup {Newline}, Putc(ch, u)
  PROVE  Own!Next
<1>1. UNCHANGED cur_terminal
  BY DEF Putc
<1>2. CASE ch # Newline /\ Store(ch, u)
  BY <1>1, <1>2, StoreShows
<1>3. CASE LineFeed(u)
  BY <1>1, <1>3, LineFeedShows
<1>4. CASE Scroll(u)
  BY <1>1, <1>4, ScrollShows
<1> QED
  BY <1>2, <1>3, <1>4 DEF Putc

\* Nothing else the program does shows.
LEMMA ProgramShows ==
  ASSUME TypeOK, ScrollElsewhere = FALSE, Program
  PROVE  Own!Next \/ UNCHANGED Own!screenVars
<1>1. ASSUME NEW ch \in Chars \cup {Newline}, Printf(ch) \/ WriteChar(ch)
      PROVE  Own!Next
  <2>1. cur_terminal \in Terminals /\ writer \in Terminals
    BY DEF TypeOK
  <2> QED
    BY <1>1, <2>1, PutcShows DEF Printf, WriteChar
<1>2. CASE \/ Execute \/ ExecuteReturn \/ WriteReturn
           \/ \E u \in Terminals : CallWrite(u)
  <2>1. UNCHANGED <<mem, x, y, cur_terminal>>
    BY <1>2 DEF Execute, ExecuteReturn, CallWrite, WriteReturn
  <2> QED
    BY <2>1 DEF Own!screenVars, Shown, Location
<1> QED
  BY <1>1, <1>2 DEF Program

\* What a key does to the terminal in front, u, which is in video memory.
LEMMA KeyShows ==
  ASSUME TypeOK, NEW u \in Terminals, u = cur_terminal,
         NEW screen, NEW r, NEW k,
         mem' = [mem EXCEPT ![VIDEO] = screen],
         y' = [y EXCEPT ![u] = r], x' = [x EXCEPT ![u] = k],
         UNCHANGED cur_terminal
  PROVE  Changed(u, screen, r, k)
<1>1. Location(u) = VIDEO
  BY DEF Location
<1> QED
  BY <1>1, ChangedIs

\* What it shows before the key.
LEMMA FrontShows ==
  ASSUME TypeOK, NEW u \in Terminals, u = cur_terminal
  PROVE  /\ Shown[u] = mem[VIDEO] /\ mem[VIDEO] \in ScreensOf(Texts)
         /\ y[u] \in Rows /\ x[u] \in Cols
BY Shows DEF Location

\* handle_enter on the text shown, which may have a character more.
LEMMA EnterShows ==
  ASSUME TypeOK, ScrollElsewhere = FALSE,
         NEW u \in Terminals, u = cur_terminal,
         NEW shown \in ScreensOf(Texts), HandleEnter(shown)
  PROVE  Changed(u, Own!Below(shown, y[u]), Own!NextRow(y[u]), 0)
<1> USE ConstantsAssumption
<1>1. /\ y[u] \in Rows
      /\ y \in [Terminals -> Rows] /\ x \in [Terminals -> Cols]
  BY CursorsInside DEF TypeOK
<1>2. Own!Below(shown, y[u]) =
        IF y[u] = NUM_ROWS - 1 THEN ScrolledUp(shown) ELSE shown
  BY <1>1, BelowIs
<1>3. Own!NextRow(y[u]) = IF y[u] = NUM_ROWS - 1 THEN NUM_ROWS - 1 ELSE y[u] + 1
  BY <1>1 DEF Own!NextRow, Rows
<1>4. CASE y[u] = NUM_ROWS - 1
  <2>1. execute_terminal = u
    BY <1>4 DEF HandleEnter, MayScroll, Here
  <2>2. /\ mem' = [mem EXCEPT ![VIDEO] = ScrolledUp(shown)]
        /\ y' = [y EXCEPT ![u] = NUM_ROWS - 1] /\ x' = [x EXCEPT ![u] = 0]
        /\ UNCHANGED cur_terminal
    BY <1>1, <1>4, <2>1 DEF HandleEnter, Here
  <2>3. Changed(u, ScrolledUp(shown), NUM_ROWS - 1, 0)
    BY <2>2, KeyShows
  <2> QED
    BY <1>2, <1>3, <1>4, <2>3
<1>5. CASE y[u] # NUM_ROWS - 1
  <2>1. /\ mem' = [mem EXCEPT ![VIDEO] = shown]
        /\ y' = [y EXCEPT ![u] = y[u] + 1] /\ x' = [x EXCEPT ![u] = 0]
        /\ UNCHANGED cur_terminal
    BY <1>5 DEF HandleEnter, PlaceCursor, Here
  <2>2. Changed(u, shown, y[u] + 1, 0)
    BY <2>1, KeyShows
  <2> QED
    BY <1>2, <1>3, <1>5, <2>2
<1> QED
  BY <1>4, <1>5

\* Enter shows as NewLine.
LEMMA EnterKeyShows ==
  ASSUME TypeOK, ScrollElsewhere = FALSE, EnterKey
  PROVE  Own!Next
<1>1. PICK u \in Terminals : u = cur_terminal
  BY DEF TypeOK
<1>2. HandleEnter(mem[VIDEO])
  BY DEF EnterKey
<1>3. /\ Shown[u] = mem[VIDEO]
      /\ mem[VIDEO] \in ScreensOf(Texts)
  BY <1>1, <1>2, FrontShows
<1>4. Changed(u, Own!Below(mem[VIDEO], y[u]), Own!NextRow(y[u]), 0)
  BY <1>1, <1>2, <1>3, EnterShows
<1>5. Own!NewLine(u)
  BY <1>3, <1>4 DEF Own!NewLine, Own!Update, Changed
<1> QED
  BY <1>5 DEF Own!Next

\* A character shows as Type.
LEMMA CharacterShows ==
  ASSUME TypeOK, ScrollElsewhere = FALSE, NEW ch \in Chars, Character(ch)
  PROVE  Own!Next
<1> DEFINE shown == [mem[VIDEO] EXCEPT ![<<y[Here], x[Here]>>] = ch]
<1>1. PICK u \in Terminals : u = cur_terminal
  BY DEF TypeOK
<1>3. /\ Shown[u] = mem[VIDEO]
      /\ mem[VIDEO] \in ScreensOf(Texts) /\ y[u] \in Rows /\ x[u] \in Cols
  BY <1>1, FrontShows
<1>4. shown \in ScreensOf(Texts) /\ shown = Own!Marked(u, ch)
  <2>1. shown = [mem[VIDEO] EXCEPT ![<<y[u], x[u]>>] = ch]
    BY <1>1 DEF Here
  <2>2. ch \in Texts
    BY DEF Texts
  <2> QED
    BY <1>3, <2>1, <2>2, MarkedIsScreen DEF Own!Marked
<1>5. CASE x[u] = NUM_COLS - 1
  <2>1. HandleEnter(shown)
    BY <1>1, <1>5 DEF Character, Here
  <2> HIDE DEF shown
  <2>2. Changed(u, Own!Below(shown, y[u]), Own!NextRow(y[u]), 0)
    BY <1>1, <1>4, <2>1, EnterShows
  <2>3. ~(x[u] < NUM_COLS - 1)
    BY <1>3, <1>5, ConstantsAssumption
  <2> QED
    BY <1>3, <1>4, <2>2, <2>3 DEF Own!Next, Own!Type, Own!Update, Changed
<1>6. CASE x[u] # NUM_COLS - 1
  <2>1. /\ mem' = [mem EXCEPT ![VIDEO] = shown]
        /\ y' = [y EXCEPT ![u] = y[u]] /\ x' = [x EXCEPT ![u] = x[u] + 1]
        /\ UNCHANGED cur_terminal
    BY <1>1, <1>6 DEF Character, PlaceCursor, Here
  <2> HIDE DEF shown
  <2>2. Changed(u, shown, y[u], x[u] + 1)
    BY <1>1, <2>1, KeyShows
  <2>3. x[u] < NUM_COLS - 1
    BY <1>3, <1>6, ConstantsAssumption DEF Cols
  <2> QED
    BY <1>3, <1>4, <2>2, <2>3 DEF Own!Next, Own!Type, Own!Update, Changed
<1> QED
  BY <1>5, <1>6

\* Backspace shows as Erase.
LEMMA BackspaceShows == ASSUME TypeOK, Backspace PROVE Own!Next
<1> USE ConstantsAssumption
<1>1. PICK u \in Terminals : u = cur_terminal
  BY DEF TypeOK
<1>3. /\ Shown[u] = mem[VIDEO]
      /\ y[u] \in Rows /\ x[u] \in Cols
  BY <1>1, FrontShows
<1>4. PICK r \in Rows, k \in Cols :
        /\ PlaceCursor(r, k)
        /\ mem' = [mem EXCEPT ![VIDEO] = [mem[VIDEO] EXCEPT ![<<r, k>>] = Blank]]
        /\ \/ x[u] > 0 /\ r = y[u] /\ k = x[u] - 1
           \/ x[u] = 0 /\ y[u] # 0 /\ r = y[u] - 1
           \/ x[u] = 0 /\ y[u] = 0 /\ r = 0 /\ k = 0
  BY <1>1, BackspaceTo DEF Here
<1>5. /\ y' = [y EXCEPT ![u] = r] /\ x' = [x EXCEPT ![u] = k]
      /\ UNCHANGED cur_terminal
  BY <1>1, <1>4 DEF PlaceCursor, Here
<1>6. Changed(u, [mem[VIDEO] EXCEPT ![<<r, k>>] = Blank], r, k)
  BY <1>1, <1>4, <1>5, KeyShows
<1>7. r \in 0 .. y[u] /\ k \in 0 .. NUM_COLS - 1
  BY <1>3, <1>4 DEF Rows, Cols
<1>8. (CASE x[u] > 0 -> r = y[u] /\ k = x[u] - 1
         [] x[u] = 0 /\ y[u] > 0 -> r = y[u] - 1
         [] OTHER -> r = 0 /\ k = 0)
  BY <1>3, <1>4 DEF Rows, Cols
<1>9. Own!Erase(u)
  BY <1>3, <1>6, <1>7, <1>8 DEF Own!Erase, Own!Update, Changed
<1> QED
  BY <1>9 DEF Own!Next

\* Control-L shows as Clear.
LEMMA ControlLShows == ASSUME TypeOK, ControlL PROVE Own!Next
<1>1. PICK u \in Terminals : u = cur_terminal
  BY DEF TypeOK
<1>2. /\ mem' = [mem EXCEPT ![VIDEO] = BlankScreen]
      /\ y' = [y EXCEPT ![u] = 0] /\ x' = [x EXCEPT ![u] = 0]
      /\ UNCHANGED cur_terminal
  BY <1>1 DEF ControlL, PlaceCursor, Here
<1>3. Changed(u, BlankScreen, 0, 0)
  BY <1>1, <1>2, KeyShows
<1>4. Own!Clear(u)
  BY <1>3 DEF Own!Clear, Own!Update, Own!Grid, Changed, BlankScreen, Rows, Cols
<1> QED
  BY <1>4 DEF Own!Next

\* Switching does not show: what was in video memory is in the page now, and
\* the other way round.
LEMMA SwitchShows ==
  ASSUME TypeOK, NEW id \in Terminals, switch_terminal(id)
  PROVE  UNCHANGED Own!screenVars
<1> USE ConstantsAssumption
<1>1. /\ cur_terminal \in Terminals /\ cur_terminal # id /\ cur_terminal' = id
      /\ mem' = [mem EXCEPT ![cur_terminal] = mem[VIDEO], ![VIDEO] = mem[id],
                            ![id] = BlankScreen]
      /\ UNCHANGED <<x, y>>
      /\ DOMAIN mem = Terminals \cup {VIDEO}
  BY DEF switch_terminal, TypeOK
<1>2. ASSUME NEW v \in Terminals PROVE mem'[Location(v)'] = mem[Location(v)]
  <2>1. CASE v = id
    BY <1>1, <2>1 DEF Location
  <2>2. CASE v = cur_terminal
    BY <1>1, <2>2 DEF Location
  <2>3. CASE v # id /\ v # cur_terminal
    BY <1>1, <2>3 DEF Location
  <2> QED
    BY <2>1, <2>2, <2>3
<1>3. Shown' = Shown
  BY <1>2 DEF Shown
<1> QED
  BY <1>1, <1>3 DEF Own!screenVars

\* At first all screens have their cursor in the corner.
LEMMA InitShows == Init => Own!Init
<1> SUFFICES ASSUME Init PROVE Own!Init
  OBVIOUS
<1>1. ASSUME NEW u \in Terminals
      PROVE  mem[Location(u)] \in ScreensOf(Texts)
  BY DEF Init, Texts, Location
<1>2. Shown \in [Terminals -> ScreensOf(Texts)]
  BY <1>1 DEF Shown
<1> QED
  BY <1>2 DEF Init, Own!Init, Own!Grid, ScreensOf, Texts, Rows, Cols

\* Every step of the code writes, erases or clears on one terminal, or does
\* not show on any.
LEMMA NextShows ==
  ScrollElsewhere = FALSE /\ TypeOK /\ [Next]_vars => [Own!Next]_Own!screenVars
<1> SUFFICES ASSUME ScrollElsewhere = FALSE, TypeOK, [Next]_vars
             PROVE  Own!Next \/ UNCHANGED Own!screenVars
  OBVIOUS
<1>1. CASE Program
  BY <1>1, ProgramShows
<1>2. CASE Key
  BY <1>2, CharacterShows, EnterKeyShows, BackspaceShows, ControlLShows,
     SwitchShows DEF Key
<1>3. CASE UNCHANGED vars
  BY <1>3 DEF vars, Own!screenVars, Shown, Location
<1> QED
  BY <1>1, <1>2, <1>3 DEF Next

\* As long as only the terminal in front scrolls for its own program, the text
\* of programs and of execute and the keys give every terminal a screen of its
\* own, which nothing but its own text and keys changes, however the user
\* switches between two calls of putc.
THEOREM ScreensCorrect == ASSUME ScrollElsewhere = FALSE PROVE Spec => AreOwnScreens
<1>1. TypeOK /\ [Next]_vars => [Own!Next]_Own!screenVars
  BY NextShows
<1> QED
  BY <1>1, InitShows, TypeCorrect, PTL DEF Spec, AreOwnScreens, Own!ScreensSpec
=============================================================================
