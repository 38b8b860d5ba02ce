----------------------------- MODULE OwnScreens -----------------------------
(***************************************************************************)
(* What switching between terminals promises: as many screens as there are *)
(* terminals, each with a cursor, and independent of one another.  There   *)
(* is no foreground here; switching is not seen.                           *)
(***************************************************************************)
EXTENDS Integers

CONSTANTS Terminals, NUM_ROWS, NUM_COLS, Chars, Blank

VARIABLES cells, row, col

Grid == (0 .. NUM_ROWS - 1) \X (0 .. NUM_COLS - 1)

Init ==
    /\ cells \in [Terminals -> [Grid -> Chars \cup {Blank}]]
    /\ row = [u \in Terminals |-> 0]
    /\ col = [u \in Terminals |-> 0]

\* Screen u becomes screen, its cursor moves to (r, k).
Update(u, screen, r, k) ==
    /\ row' = [row EXCEPT ![u] = r]
    /\ col' = [col EXCEPT ![u] = k]
    /\ cells' = [cells EXCEPT ![u] = screen]

Below(screen, r) ==
    [cell \in Grid |-> IF r < NUM_ROWS - 1 THEN screen[cell]
                       ELSE IF cell[1] < r THEN screen[<<cell[1] + 1, cell[2]>>]
                       ELSE Blank]

NextRow(r) == IF r < NUM_ROWS - 1 THEN r + 1 ELSE r

Marked(u, ch) == [cells[u] EXCEPT ![<<row[u], col[u]>>] = ch]

\* A program's character; text that is too long starts again in its row.
PutChar(u, ch) == Update(u, Marked(u, ch), row[u], (col[u] + 1) % NUM_COLS)

NewLine(u) == Update(u, Below(cells[u], row[u]), NextRow(row[u]), 0)

\* A typed character; a line that is too long goes on in the next row.
Type(u, ch) ==
    IF col[u] < NUM_COLS - 1
    THEN Update(u, Marked(u, ch), row[u], col[u] + 1)
    ELSE Update(u, Below(Marked(u, ch), row[u]), NextRow(row[u]), 0)

\* The character before the cursor goes, where there is one.
Erase(u) ==
    \E r \in 0 .. row[u], k \in 0 .. NUM_COLS - 1 :
        /\ CASE col[u] > 0 -> r = row[u] /\ k = col[u] - 1
             [] col[u] = 0 /\ row[u] > 0 -> r = row[u] - 1
             [] OTHER -> r = 0 /\ k = 0
        /\ Update(u, [cells[u] EXCEPT ![<<r, k>>] = Blank], r, k)

Clear(u) == Update(u, [cell \in Grid |-> Blank], 0, 0)

Next ==
    \E u \in Terminals :
        \/ NewLine(u) \/ Erase(u) \/ Clear(u)
        \/ \E ch \in Chars : PutChar(u, ch) \/ Type(u, ch)

screenVars == <<cells, row, col>>
ScreensSpec == Init /\ [][Next]_screenVars
=============================================================================
