------------------------- MODULE LineDisciplineProof -------------------------
(***************************************************************************)
(* Proofs about line input, for any number of terminals and any size of    *)
(* the buffer above one: first what holds whatever the user and the cursor *)
(* do, then what holds if keys are pressed at a prompt, on lines that end  *)
(* before the last column and above the last row (Hard = {}).              *)
(***************************************************************************)
EXTENDS LineDiscipline, SequenceTheorems, TLAPS

\* A store into the buffer of a line, at any index, leaves a buffer.
LEMMA PutType ==
    ASSUME NEW line \in [Index -> Cells], NEW k \in Int, NEW c \in Cells
    PROVE  Put(line, k, c) \in [Index -> Cells]
  BY DEF Put

\* handle_enter, called with an index within the buffer, leaves the state of
\* the keyboard well-formed and the index at most one past the buffer.
LEMMA HandleEnterType ==
    ASSUME TypeOK,
           NEW flag \in 0 .. 1, NEW scrolls \in BOOLEAN,
           NEW line \in [Index -> Cells], NEW index \in -1 .. MAX_CHAR - 1,
           HandleEnter(flag, scrolls, line, index)
    PROVE  /\ keyboard_buffer' \in [Terminals -> [Index -> Cells]]
           /\ buffer_index' \in [Terminals -> -1 .. MAX_CHAR]
           /\ enter_flag' \in [Terminals -> 0 .. 1]
  <1>1. Put(line, index, Newline) \in [Index -> Cells]
    BY PutType DEF Cells
  <1>2. keyboard_buffer' \in [Terminals -> [Index -> Cells]]
    BY <1>1 DEF HandleEnter, TypeOK
  <1>3. index + 1 \in -1 .. MAX_CHAR
    BY SizeAssumption
  <1>4. buffer_index' \in [Terminals -> -1 .. MAX_CHAR]
    BY <1>3 DEF HandleEnter, TypeOK
  <1>5. enter_flag' \in [Terminals -> 0 .. 1]
    BY DEF HandleEnter, TypeOK
  <1> QED BY <1>2, <1>4, <1>5

\* terminal_read and its locals: i counts the bytes stored, and stays within
\* the limit of line 131, also in the step that stores one.
ReadBounds ==
    /\ Len(buffer) = i
    /\ i <= MAX_CHAR
    /\ pc = "store" => i < MAX_CHAR

Inv == TypeOK /\ ReadBounds

\* The type invariant holds when terminal_init has run.
LEMMA InitType == ASSUME Init PROVE TypeOK
  <1>1. Empty \in [Index -> Cells]
    BY DEF Empty, Cells
  <1>2. keyboard_buffer \in [Terminals -> [Index -> Cells]]
    BY <1>1 DEF Init
  <1>3. 0 \in -1 .. MAX_CHAR
    BY SizeAssumption
  <1>4. buffer_index \in [Terminals -> -1 .. MAX_CHAR]
    BY <1>3 DEF Init
  <1>5. enter_flag \in [Terminals -> 0 .. 1]
    BY DEF Init
  <1>6. cur_terminal \in Terminals /\ execute_terminal \in Terminals
    BY LineAssumption DEF Init
  <1>7. buffer \in Seq(Cells) /\ i \in Nat /\ ret \in Nat /\ nbytes \in 0 .. MAX_CHAR
    BY SizeAssumption DEF Init
  <1>8. pc = "run"
    BY DEF Init
  <1> QED BY <1>2, <1>4, <1>5, <1>6, <1>7, <1>8 DEF TypeOK

\* Every step keeps the types.  Only ReadStore needs the bounds of i.
LEMMA NextType == ASSUME TypeOK, ReadBounds, [Next]_vars PROVE TypeOK'
  <1>a. Empty \in [Index -> Cells]
    BY DEF Empty, Cells
  <1>b. MAX_CHAR \in Nat /\ MAX_CHAR > 1
    BY SizeAssumption
  <1>1. ASSUME NEW c \in Chars, Character(c) PROVE TypeOK'
    <2> DEFINE index == buffer_index[cur_terminal]
               line == Put(keyboard_buffer[cur_terminal], index, c)
    <2>1. index \in -1 .. MAX_CHAR
      BY DEF TypeOK
    <2>2. index < MAX_CHAR - 1
      BY <1>1 DEF Character, HasRoom
    <2>3. index \in Int /\ index + 1 \in -1 .. MAX_CHAR - 1
                       /\ index + 1 \in -1 .. MAX_CHAR
      BY <2>1, <2>2, <1>b
    <2>4. line \in [Index -> Cells]
      <3>1. keyboard_buffer[cur_terminal] \in [Index -> Cells] /\ c \in Cells
        BY DEF TypeOK, Cells
      <3> HIDE DEF index
      <3> QED BY <3>1, <2>3, PutType
    <2>5. \E wraps \in BOOLEAN, scrolls \in BOOLEAN :
            IF wraps THEN HandleEnter(0, scrolls, line, index + 1)
            ELSE /\ keyboard_buffer' =
                        [keyboard_buffer EXCEPT ![cur_terminal] = line]
                 /\ buffer_index' =
                        [buffer_index EXCEPT ![cur_terminal] = index + 1]
                 /\ UNCHANGED enter_flag
      BY <1>1 DEF Character, CursorAt
    <2> HIDE DEF index, line
    <2>6. PICK wraps \in BOOLEAN, scrolls \in BOOLEAN :
            IF wraps THEN HandleEnter(0, scrolls, line, index + 1)
            ELSE /\ keyboard_buffer' =
                        [keyboard_buffer EXCEPT ![cur_terminal] = line]
                 /\ buffer_index' =
                        [buffer_index EXCEPT ![cur_terminal] = index + 1]
                 /\ UNCHANGED enter_flag
      BY <2>5
    <2>7. /\ keyboard_buffer' \in [Terminals -> [Index -> Cells]]
          /\ buffer_index' \in [Terminals -> -1 .. MAX_CHAR]
          /\ enter_flag' \in [Terminals -> 0 .. 1]
      <3>1. CASE wraps
        <4>1. HandleEnter(0, scrolls, line, index + 1) /\ 0 \in 0 .. 1
          BY <3>1, <2>6
        <4> QED BY ONLY <4>1, <2>3, <2>4, TypeOK, HandleEnterType
      <3>2. CASE ~wraps
        BY <3>2, <2>3, <2>4, <2>6 DEF TypeOK
      <3> QED BY <3>1, <3>2
    <2> QED BY <1>1, <2>7 DEF Character, TypeOK, readVars
  <1>2. CASE EnterKey
    <2> DEFINE index == buffer_index[cur_terminal]
               line == keyboard_buffer[cur_terminal]
    <2>1. index \in -1 .. MAX_CHAR /\ line \in [Index -> Cells]
      BY DEF TypeOK
    <2>2. index < MAX_CHAR - 1
      BY <1>2 DEF EnterKey, HasRoom
    <2>3. index \in -1 .. MAX_CHAR - 1
      BY <2>1, <2>2, <1>b
    <2>4. \E scrolls \in BOOLEAN : HandleEnter(1, scrolls, line, index)
      BY <1>2 DEF EnterKey, CursorAt
    <2> HIDE DEF index, line
    <2>5. PICK scrolls \in BOOLEAN : HandleEnter(1, scrolls, line, index)
      BY <2>4
    <2>6. /\ keyboard_buffer' \in [Terminals -> [Index -> Cells]]
          /\ buffer_index' \in [Terminals -> -1 .. MAX_CHAR]
          /\ enter_flag' \in [Terminals -> 0 .. 1]
      <3>1. 1 \in 0 .. 1
        OBVIOUS
      <3> QED BY ONLY <3>1, <2>1, <2>3, <2>5, TypeOK, HandleEnterType
    <2> QED BY <1>2, <2>6 DEF EnterKey, TypeOK, readVars
  <1>3. CASE Backspace
    <2> DEFINE index == buffer_index[cur_terminal]
    <2>1. index \in -1 .. MAX_CHAR
      BY DEF TypeOK
    <2>2. index > 0
      BY <1>3 DEF Backspace
    <2>3. index - 1 \in -1 .. MAX_CHAR /\ -1 \in -1 .. MAX_CHAR
      BY <2>1, <2>2, <1>b
    <2>4. keyboard_buffer' \in [Terminals -> [Index -> Cells]]
      <3>1. Null \in Cells
        BY DEF Cells
      <3>2. \/ keyboard_buffer' = keyboard_buffer
            \/ keyboard_buffer' =
                 [keyboard_buffer EXCEPT ![cur_terminal][index] = Null]
        BY <1>3 DEF Backspace
      <3>3. keyboard_buffer \in [Terminals -> [Index -> Cells]]
        BY DEF TypeOK
      <3> QED BY <3>1, <3>2, <3>3
    <2>5. buffer_index' \in [Terminals -> -1 .. MAX_CHAR]
      BY <1>3, <2>3 DEF Backspace, TypeOK
    <2> QED BY <1>3, <2>4, <2>5 DEF Backspace, TypeOK, readVars
  <1>4. CASE ControlL
    <2>1. 0 \in -1 .. MAX_CHAR
      BY <1>b
    <2> QED BY <1>4, <1>a, <2>1 DEF ControlL, TypeOK, readVars
  <1>5. ASSUME NEW t \in Terminals, SwitchTerminal(t) PROVE TypeOK'
    BY <1>5 DEF SwitchTerminal, TypeOK, keyVars, readVars
  <1>6. CASE CallExecute
    BY <1>6 DEF CallExecute, TypeOK, keyVars, readVars
  <1>7. CASE Write
    BY <1>7 DEF Write, TypeOK
  <1>8. ASSUME NEW n \in Requests, CallRead(n) PROVE TypeOK'
    <2>1. buffer' \in Seq(Cells)
      BY <1>8 DEF CallRead
    <2>2. nbytes' \in 0 .. MAX_CHAR
      <3>1. n \in Nat /\ nbytes' = IF n > MAX_CHAR THEN MAX_CHAR ELSE n
        BY <1>8, LineAssumption DEF CallRead
      <3>2. QED BY ONLY <3>1, <1>b
    <2> QED BY <1>8, <2>1, <2>2 DEF CallRead, TypeOK, keyVars
  <1>16. CASE ReadNothing
    <2>1. nbytes' \in 0 .. MAX_CHAR
      BY <1>16, <1>b DEF ReadNothing
    <2> QED BY <1>16, <2>1 DEF ReadNothing, TypeOK, keyVars
  <1>9. CASE ReadWait
    BY <1>9 DEF ReadWait, TypeOK, keyVars
  <1>10. CASE ReadTest
    BY <1>10 DEF ReadTest, TypeOK, keyVars
  <1>11. CASE ReadStore
    <2>1. pc = "store" => i < MAX_CHAR
      BY DEF ReadBounds
    <2>2. i \in Nat /\ i < MAX_CHAR
      BY <1>11, <2>1 DEF ReadStore, TypeOK
    <2>3. i \in Index /\ i + 1 \in Nat
      BY <2>2, <1>b DEF Index
    <2>4. keyboard_buffer[cur_terminal][i] \in Cells
      BY <2>3 DEF TypeOK
    <2>5. Append(buffer, keyboard_buffer[cur_terminal][i]) \in Seq(Cells)
      BY <2>4 DEF TypeOK
    <2> QED BY <1>11, <2>3, <2>5 DEF ReadStore, TypeOK, keyVars
  <1>12. CASE ReadClear
    BY <1>12, <1>a DEF ReadClear, TypeOK
  <1>13. CASE ReadReset
    <2>1. 0 \in -1 .. MAX_CHAR
      BY <1>b
    <2> QED BY <1>13, <2>1 DEF ReadReset, TypeOK
  <1>14. CASE ReadReturn
    BY <1>14 DEF ReadReturn, TypeOK
  <1>15. CASE UNCHANGED vars
    BY <1>15 DEF vars, keyVars, readVars, TypeOK
  <1> QED
    BY <1>1, <1>2, <1>3, <1>4, <1>5, <1>6, <1>7, <1>8, <1>9, <1>10, <1>11,
       <1>12, <1>13, <1>14, <1>15, <1>16 DEF Next, Key, Program, Read

\* Every step keeps the bounds of terminal_read's locals, whatever the keyboard
\* handler has made of buffer_index meanwhile.
LEMMA NextBounds == ASSUME TypeOK, ReadBounds, [Next]_vars PROVE ReadBounds'
  <1>a. MAX_CHAR \in Nat /\ i \in Nat /\ buffer \in Seq(Cells)
    BY SizeAssumption DEF TypeOK
  <1>b. Len(buffer) = i /\ i <= MAX_CHAR
    BY DEF ReadBounds
  <1>1. CASE UNCHANGED <<pc, i, buffer>>
    BY <1>1 DEF ReadBounds
  <1>2. CASE Key
    <2>1. UNCHANGED readVars
      BY <1>2 DEF Key, Character, EnterKey, Backspace, ControlL, SwitchTerminal
    <2> QED BY <2>1, <1>1 DEF readVars
  <1>3. CASE CallExecute
    BY <1>3, <1>1 DEF CallExecute, readVars
  <1>4. CASE Write \/ ReadNothing \/ ReadWait \/ ReadClear \/ ReadReset \/ ReadReturn
    <2>1. UNCHANGED <<i, buffer>> /\ pc' # "store"
      BY <1>4 DEF Write, ReadNothing, ReadWait, ReadClear, ReadReset, ReadReturn
    <2> QED BY <2>1, <1>b DEF ReadBounds
  <1>5. CASE \E n \in Requests : CallRead(n)
    <2>1. buffer' = <<>> /\ i' = 0 /\ pc' # "store"
      BY <1>5 DEF CallRead
    <2>2. Len(buffer') = i' /\ i' <= MAX_CHAR
      BY <2>1, <1>a
    <2> QED BY <2>1, <2>2 DEF ReadBounds
  <1>6. CASE ReadTest
    <2>1. UNCHANGED <<i, buffer>> /\ (pc' = "store" => i < MAX_CHAR)
      BY <1>6 DEF ReadTest, MoreToCopy
    <2> QED BY <2>1, <1>b DEF ReadBounds
  <1>7. CASE ReadStore
    <2>1. /\ pc = "store" /\ pc' = "test" /\ i' = i + 1
          /\ buffer' = Append(buffer, keyboard_buffer[cur_terminal][i])
      BY <1>7 DEF ReadStore
    <2>2. i < MAX_CHAR
      BY <2>1 DEF ReadBounds
    <2>3. i' <= MAX_CHAR
      BY <2>1, <2>2, <1>a
    <2>4. i \in Index
      BY <2>2, <1>a DEF Index
    <2>5. keyboard_buffer[cur_terminal][i] \in Cells
      BY <2>4 DEF TypeOK
    <2>6. Len(buffer') = Len(buffer) + 1
      BY <2>1, <2>5, <1>a
    <2> QED BY <2>1, <2>3, <2>6, <1>b DEF ReadBounds
  <1> QED
    BY <1>1, <1>2, <1>3, <1>4, <1>5, <1>6, <1>7 DEF Next, Program, Read, vars,
       readVars

\* The inductive invariant: types and the bounds of terminal_read's locals.
THEOREM InvCorrect == Spec => []Inv
  <1>1. Init => Inv
    <2> SUFFICES ASSUME Init PROVE Inv
      OBVIOUS
    <2>1. Len(buffer) = i /\ i <= MAX_CHAR /\ pc # "store"
      BY SizeAssumption DEF Init
    <2> QED BY <2>1, InitType DEF Inv, ReadBounds
  <1>2. Inv /\ [Next]_vars => Inv'
    BY NextType, NextBounds DEF Inv
  <1> QED BY <1>1, <1>2, PTL DEF Spec

\* The type invariant, and with it the bounds of buffer_index: whatever keys
\* are pressed while a program reads, it stays between -1 and the size of
\* keyboard_buffer (handle_key and handle_enter in keyboard.c).
THEOREM TypeCorrect == Spec => []TypeOK
  <1>1. Inv => TypeOK
    BY DEF Inv
  <1> QED BY <1>1, InvCorrect, PTL

-----------------------------------------------------------------------------
\* Lines as sequences.

\* The first n cells of a buffer.
Line(cells, n) == [k \in 1 .. n |-> cells[k - 1]]

Buffers == [Index -> Cells]

\* The first n cells are a sequence of n.
LEMMA LineIsSeq ==
    ASSUME NEW cells \in Buffers, NEW n \in Nat, n <= MAX_CHAR
    PROVE  /\ Line(cells, n) \in Seq(Cells) /\ Len(Line(cells, n)) = n
           /\ \A k \in 1 .. n : Line(cells, n)[k] = cells[k - 1]
           /\ n = 0 <=> Line(cells, n) = <<>>
<1>1. MAX_CHAR \in Nat
  BY SizeAssumption
<1>2. \A k \in 1 .. n : k - 1 \in Index
  BY <1>1 DEF Index
<1>3. \A k \in 1 .. n : cells[k - 1] \in Cells
  BY <1>2 DEF Buffers
<1>4. Line(cells, n) \in Seq(Cells) /\ Len(Line(cells, n)) = n
  BY ONLY <1>3, n \in Nat DEF Line
<1>5. n = 0 <=> Line(cells, n) = <<>>
  BY ONLY <1>4, n \in Nat
<1>6. QED BY <1>4, <1>5 DEF Line

\* Cells past the line do not matter.
LEMMA LineSame ==
    ASSUME NEW cells, NEW others, NEW n \in Nat, \A k \in 0 .. n - 1 : others[k] = cells[k]
    PROVE  Line(others, n) = Line(cells, n)
<1>1. \A k \in 1 .. n : others[k - 1] = cells[k - 1]
  OBVIOUS
<1>2. QED BY ONLY <1>1 DEF Line

\* A character more.
LEMMA LineTyped ==
    ASSUME NEW cells \in Buffers, NEW others \in Buffers, NEW n \in Nat, n + 1 <= MAX_CHAR,
           \A k \in 0 .. n - 1 : others[k] = cells[k]
    PROVE  Line(others, n + 1) = Append(Line(cells, n), others[n])
<1> DEFINE f == Line(cells, n)
           g == Line(others, n + 1)
           c == others[n]
           h == Append(f, c)
<1>0. MAX_CHAR \in Nat
  BY SizeAssumption
<1>1. f \in Seq(Cells) /\ Len(f) = n /\ \A k \in 1 .. n : f[k] = cells[k - 1]
  <2>1. n <= MAX_CHAR
    BY <1>0
  <2>2. QED BY <2>1, LineIsSeq
<1>2. g \in Seq(Cells) /\ Len(g) = n + 1 /\ \A k \in 1 .. n + 1 : g[k] = others[k - 1]
  <2>1. n + 1 \in Nat
    OBVIOUS
  <2>2. QED BY ONLY <2>1, others \in Buffers, n + 1 <= MAX_CHAR, LineIsSeq
<1>3. c \in Cells
  <2>1. n \in Index
    BY <1>0 DEF Index
  <2>2. QED BY <2>1 DEF Buffers
<1> HIDE DEF f, g, c
<1>4. h \in Seq(Cells) /\ Len(h) = n + 1 /\ h[n + 1] = c /\ \A k \in 1 .. n : h[k] = f[k]
  BY ONLY <1>1, <1>3, n \in Nat
<1> HIDE DEF h
<1>5. ASSUME NEW k \in 1 .. n + 1 PROVE g[k] = h[k]
  <2>1. CASE k = n + 1
    <3>1. (n + 1) - 1 = n
      OBVIOUS
    <3>2. QED BY ONLY <1>2, <1>4, <2>1, <3>1, k \in 1 .. n + 1 DEF c
  <2>2. CASE k # n + 1
    <3>1. k \in 1 .. n /\ k - 1 \in 0 .. n - 1
      BY ONLY <2>2, n \in Nat, k \in 1 .. n + 1
    <3>2. others[k - 1] = cells[k - 1]
      BY <3>1
    <3>3. QED BY ONLY <1>1, <1>2, <1>4, <3>1, <3>2, k \in 1 .. n + 1
  <2>3. QED BY <2>1, <2>2
<1>6. g = h
  BY ONLY <1>2, <1>4, <1>5, SeqEqual
<1>7. QED BY <1>6 DEF f, g, h, c

\* A character less.
LEMMA LineErased ==
    ASSUME NEW cells \in Buffers, NEW others \in Buffers, NEW n \in Nat, n > 0, n <= MAX_CHAR,
           \A k \in 0 .. n - 2 : others[k] = cells[k]
    PROVE  Line(others, n - 1) = SubSeq(Line(cells, n), 1, n - 1)
<1> DEFINE f == Line(cells, n)
           g == Line(others, n - 1)
           h == SubSeq(f, 1, n - 1)
<1>0. MAX_CHAR \in Nat
  BY SizeAssumption
<1>1. f \in Seq(Cells) /\ Len(f) = n /\ \A k \in 1 .. n : f[k] = cells[k - 1]
  BY LineIsSeq
<1>2. g \in Seq(Cells) /\ Len(g) = n - 1 /\ \A k \in 1 .. n - 1 : g[k] = others[k - 1]
  <2>1. n - 1 \in Nat /\ n - 1 <= MAX_CHAR
    BY <1>0
  <2>2. QED BY ONLY <2>1, others \in Buffers, LineIsSeq
<1> HIDE DEF f, g
<1>3. \A k \in 1 .. n - 1 : f[k] \in Cells
  BY ONLY <1>1, n \in Nat
<1>4. /\ h \in Seq(Cells) /\ Len(h) = IF 1 <= n - 1 THEN n - 1 - 1 + 1 ELSE 0
      /\ \A k \in 1 .. n - 1 - 1 + 1 : h[k] = f[1 + k - 1]
  BY ONLY <1>3, n \in Nat, SubSeqProperties
<1> HIDE DEF h
<1>5. Len(h) = n - 1 /\ \A k \in 1 .. n - 1 : h[k] = f[k]
  BY ONLY <1>4, n \in Nat, n > 0
<1>6. ASSUME NEW k \in 1 .. n - 1 PROVE g[k] = h[k]
  <2>1. k \in 1 .. n /\ k - 1 \in 0 .. n - 2
    OBVIOUS
  <2>2. others[k - 1] = cells[k - 1]
    BY <2>1
  <2>3. QED BY ONLY <1>1, <1>2, <1>5, <2>1, <2>2, k \in 1 .. n - 1
<1>7. g = h
  BY ONLY <1>2, <1>4, <1>5, <1>6, SeqEqual
<1>8. QED BY <1>7 DEF f, g, h

\* What terminal_read has copied, when it is all of the line.
LEMMA LineCopied ==
    ASSUME NEW cells \in Buffers, NEW s \in Seq(Cells), Len(s) <= MAX_CHAR,
           \A k \in 1 .. Len(s) : s[k] = cells[k - 1]
    PROVE  s = Line(cells, Len(s))
<1> DEFINE n == Len(s)
           g == Line(cells, n)
<1>1. n \in Nat
  OBVIOUS
<1>2. g \in Seq(Cells) /\ Len(g) = n /\ \A k \in 1 .. n : g[k] = cells[k - 1]
  BY <1>1, LineIsSeq
<1> HIDE DEF g
<1>3. \A k \in 1 .. Len(s) : s[k] = g[k]
  BY <1>2
<1>4. s = g
  BY ONLY <1>2, <1>3, s \in Seq(Cells), SeqEqual DEF n
<1>5. QED BY <1>4 DEF g

-----------------------------------------------------------------------------
\* What holds of lines that are typed at a prompt, short and above the last row.

\* Only the foreground terminal has a complete line, for the program that reads.
FlagsInFront ==
    \A t \in Terminals :
        enter_flag[t] = 1 => t = cur_terminal /\ pc \notin {"run", "prompted"}

\* Until terminal_read has taken a line it is complete.
Taking ==
    pc \in {"test", "store", "clear", "reset", "return"} => enter_flag[cur_terminal] = 1

Indices == \A t \in Terminals : buffer_index[t] \in 0 .. MAX_CHAR - 1

\* A complete line has its '\n' before the index.
LineEnded ==
    pc \in {"wait", "test", "store", "clear"} /\ enter_flag[cur_terminal] = 1 =>
        /\ buffer_index[cur_terminal] > 0
        /\ keyboard_buffer[cur_terminal][buffer_index[cur_terminal] - 1] = Newline

\* What terminal_read has copied is the beginning of the line.
CopiedSoFar ==
    /\ pc = "wait" => i = 0
    /\ pc \in {"test", "store", "clear"} =>
          /\ i <= buffer_index[cur_terminal] - 1
          /\ pc = "store" => i < buffer_index[cur_terminal] - 1
          /\ pc = "clear" => i = buffer_index[cur_terminal] - 1
          /\ \A k \in 1 .. i : buffer[k] = keyboard_buffer[cur_terminal][k - 1]

Emptied == pc = "return" => buffer_index[cur_terminal] = 0

LineInv == FlagsInFront /\ Taking /\ Indices /\ LineEnded /\ CopiedSoFar /\ Emptied

\* The reader's lines, as LineEditor has them.
EditedLine(t) ==
    IF t = cur_terminal /\ pc \in {"reset", "return"} THEN buffer ELSE LineOf(t)
EditedLines == [t \in Terminals |-> EditedLine(t)]
Completes == [t \in Terminals |-> enter_flag[t] = 1]
Given == IF pc \in {"run", "prompted"} THEN buffer ELSE <<>>

\* LineOf as the cells before the index, less the '\n' of Enter.
LEMMA LineOfIs ==
    ASSUME NEW t \in Terminals
    PROVE  LineOf(t) = Line(keyboard_buffer[t], buffer_index[t] - enter_flag[t])
BY DEF LineOf, Line

\* The same of the state after a step.
LEMMA LineOfPrime ==
    ASSUME NEW t \in Terminals
    PROVE  LineOf(t)' = Line(keyboard_buffer'[t], buffer_index'[t] - enter_flag'[t])
BY DEF LineOf, Line

\* Terminals the step does not concern.
LEMMA OthersStay ==
    ASSUME NEW t \in Terminals, keyboard_buffer'[t] = keyboard_buffer[t],
           buffer_index'[t] = buffer_index[t], enter_flag'[t] = enter_flag[t]
    PROVE  LineOf(t)' = LineOf(t)
BY LineOfIs, LineOfPrime

-----------------------------------------------------------------------------
\* A key is pressed while a program waits and no terminal has a complete line.
LEMMA AtPrompt ==
    ASSUME TypeOK, LineInv, Hard = {}, MayPress
    PROVE  pc = "wait" /\ \A t \in Terminals : enter_flag[t] = 0
<1>1. pc = "wait" /\ enter_flag[cur_terminal] = 0
  BY DEF MayPress
<1>2. \A t \in Terminals : enter_flag[t] \in 0 .. 1
  BY DEF TypeOK
<1>3. \A t \in Terminals : enter_flag[t] = 1 => t = cur_terminal
  BY DEF LineInv, FlagsInFront
<1>4. QED BY ONLY <1>1, <1>2, <1>3

\* At the prompt the line of a terminal is its buffer up to its index.
LEMMA LineAtPrompt ==
    ASSUME TypeOK, LineInv, NEW t \in Terminals, pc = "wait", enter_flag[t] = 0
    PROVE  /\ EditedLines[t] = Line(keyboard_buffer[t], buffer_index[t])
           /\ keyboard_buffer[t] \in Buffers
           /\ buffer_index[t] \in Nat /\ buffer_index[t] <= MAX_CHAR - 1
           /\ Len(EditedLines[t]) = buffer_index[t]
           /\ buffer_index[t] > 0 => EditedLines[t] # <<>>
<1>1. MAX_CHAR \in Nat
  BY SizeAssumption
<1>2. keyboard_buffer[t] \in Buffers
  BY DEF TypeOK, Buffers
<1>3. buffer_index[t] \in 0 .. MAX_CHAR - 1
  BY DEF LineInv, Indices
<1>4. buffer_index[t] \in Nat /\ buffer_index[t] <= MAX_CHAR - 1 /\ buffer_index[t] <= MAX_CHAR
      /\ buffer_index[t] - 0 = buffer_index[t]
  BY ONLY <1>1, <1>3
<1>5. EditedLines[t] = LineOf(t)
  BY DEF EditedLines, EditedLine
<1>6. EditedLines[t] = Line(keyboard_buffer[t], buffer_index[t])
  BY ONLY <1>4, <1>5, LineOfIs, t \in Terminals, enter_flag[t] = 0
<1>7. /\ Len(Line(keyboard_buffer[t], buffer_index[t])) = buffer_index[t]
      /\ buffer_index[t] = 0 <=> Line(keyboard_buffer[t], buffer_index[t]) = <<>>
  BY ONLY <1>2, <1>4, LineIsSeq
<1>8. QED BY ONLY <1>2, <1>4, <1>6, <1>7

\* A key other than Enter changes the line in front and nothing else.
LEMMA Edits ==
    ASSUME TypeOK, TypeOK', LineInv, NEW new, pc = "wait",
           \A t \in Terminals : enter_flag[t] = 0,
           cur_terminal' = cur_terminal, enter_flag' = enter_flag, readVars' = readVars,
           \A t \in Terminals : t # cur_terminal =>
               keyboard_buffer'[t] = keyboard_buffer[t] /\ buffer_index'[t] = buffer_index[t],
           buffer_index'[cur_terminal] \in 0 .. MAX_CHAR - 1,
           Line(keyboard_buffer'[cur_terminal], buffer_index'[cur_terminal]) = new
    PROVE  /\ LineInv'
           /\ ~Completes[cur_terminal] /\ Completes' = Completes /\ Given' = Given
           /\ EditedLines' = [EditedLines EXCEPT ![cur_terminal] = new]
<1>1. cur_terminal \in Terminals /\ pc' = "wait" /\ buffer' = buffer /\ i' = i
  BY DEF TypeOK, readVars
<1>2. LineInv'
  <2>1. FlagsInFront'
    BY <1>1 DEF FlagsInFront
  <2>2. \A t \in Terminals : buffer_index[t] \in 0 .. MAX_CHAR - 1
    BY DEF LineInv, Indices
  <2>3. Indices'
    BY <2>2 DEF Indices
  <2>4. Taking' /\ LineEnded' /\ CopiedSoFar' /\ Emptied'
    BY <1>1 DEF LineInv, Taking, LineEnded, CopiedSoFar, Emptied
  <2>5. QED BY <2>1, <2>3, <2>4 DEF LineInv
<1>3. EditedLines' = [EditedLines EXCEPT ![cur_terminal] = new]
  <2>1. ASSUME NEW t \in Terminals PROVE EditedLine(t)' = LineOf(t)' /\ EditedLine(t) = LineOf(t)
    BY <1>1 DEF EditedLine
  <2>2. buffer_index'[cur_terminal] - enter_flag'[cur_terminal] = buffer_index'[cur_terminal]
    <3>1. enter_flag'[cur_terminal] = 0
      BY <1>1
    <3>2. QED BY ONLY <3>1, buffer_index'[cur_terminal] \in 0 .. MAX_CHAR - 1, SizeAssumption
  <2>3. ASSUME NEW t \in Terminals
        PROVE  EditedLine(t)' = IF t = cur_terminal THEN new ELSE EditedLine(t)
    <3>1. CASE t = cur_terminal
      BY ONLY <1>1, <2>1, <2>2, <3>1, LineOfPrime,
         Line(keyboard_buffer'[cur_terminal], buffer_index'[cur_terminal]) = new
    <3>2. CASE t # cur_terminal
      BY <2>1, <3>2, OthersStay
    <3>3. QED BY <3>1, <3>2
  <2>4. EditedLines' = [t \in Terminals |-> EditedLine(t)']
    BY DEF EditedLines
  <2>5. EditedLines = [t \in Terminals |-> EditedLine(t)]
    BY DEF EditedLines
  <2>6. QED BY ONLY <2>3, <2>4, <2>5
<1>4. ~Completes[cur_terminal] /\ Completes' = Completes /\ Given' = Given
  <2>1. Completes' = Completes
    BY ONLY enter_flag' = enter_flag DEF Completes
  <2>2. enter_flag[cur_terminal] # 1
    BY <1>1
  <2>3. Completes[cur_terminal] = (enter_flag[cur_terminal] = 1)
    BY ONLY <1>1, Zenon DEF Completes
  <2>4. ~Completes[cur_terminal]
    BY ONLY <2>2, <2>3
  <2>5. Given' = Given
    BY <1>1 DEF Given
  <2>6. QED BY <2>1, <2>4, <2>5
<1>5. QED BY <1>2, <1>3, <1>4

\* The keys that edit.
LEMMA CharacterEdits ==
    ASSUME TypeOK, TypeOK', LineInv, Hard = {}, NEW c \in Chars, Character(c)
    PROVE  LineInv' /\ Editor!Type(c)
<1> DEFINE t == cur_terminal
           n == buffer_index[t]
           cells == keyboard_buffer[t]
           line == EditedLines[t]
<1>0. MAX_CHAR \in Nat
  BY SizeAssumption
<1>1. MayPress /\ n < MAX_CHAR - 1
  BY DEF Character, HasRoom
<1>2. pc = "wait" /\ \A u \in Terminals : enter_flag[u] = 0
  BY <1>1, AtPrompt
<1>3. t \in Terminals
  BY DEF TypeOK
<1>4. /\ line = Line(cells, n) /\ Len(line) = n /\ cells \in Buffers
      /\ n \in Nat /\ n <= MAX_CHAR - 1
  BY <1>2, <1>3, LineAtPrompt
<1>5. /\ keyboard_buffer' = [keyboard_buffer EXCEPT ![t] = Put(cells, n, c)]
      /\ buffer_index' = [buffer_index EXCEPT ![t] = n + 1]
      /\ enter_flag' = enter_flag /\ cur_terminal' = cur_terminal /\ readVars' = readVars
  <2>1. CursorAt("last column") = {FALSE} /\ CursorAt("last row") = {FALSE}
    BY DEF CursorAt
  <2>2. QED BY <2>1 DEF Character
<1>6. /\ keyboard_buffer'[t] = Put(cells, n, c) /\ buffer_index'[t] = n + 1
      /\ \A u \in Terminals : u # t =>
            keyboard_buffer'[u] = keyboard_buffer[u] /\ buffer_index'[u] = buffer_index[u]
  BY <1>3, <1>5 DEF TypeOK
<1>7. keyboard_buffer'[t] \in Buffers
  BY <1>3 DEF TypeOK, Buffers
<1> HIDE DEF t, n, cells, line
<1>8. n \in Index /\ n + 1 <= MAX_CHAR /\ n + 1 \in 0 .. MAX_CHAR - 1
  BY ONLY <1>0, <1>1, <1>4 DEF Index
<1>9. keyboard_buffer'[t] = [cells EXCEPT ![n] = c]
  BY ONLY <1>6, <1>8 DEF Put
<1>10. keyboard_buffer'[t][n] = c /\ \A k \in 0 .. n - 1 : keyboard_buffer'[t][k] = cells[k]
  <2>1. cells \in [Index -> Cells]
    BY <1>4 DEF Buffers
  <2>2. \A k \in 0 .. n - 1 : k \in Index /\ k # n
    BY ONLY <1>0, <1>4, <1>8 DEF Index
  <2>3. QED BY ONLY <1>8, <1>9, <2>1, <2>2
<1>11. Line(keyboard_buffer'[t], n + 1) = Append(Line(cells, n), keyboard_buffer'[t][n])
  BY ONLY <1>4, <1>7, <1>8, <1>10, LineTyped
<1>12. Line(keyboard_buffer'[t], buffer_index'[t]) = Append(line, c)
  BY ONLY <1>4, <1>6, <1>10, <1>11
<1>13. /\ LineInv' /\ ~Completes[t] /\ Completes' = Completes /\ Given' = Given
       /\ EditedLines' = [EditedLines EXCEPT ![t] = Append(line, c)]
  <2> DEFINE new == Append(line, c)
  <2>1. Line(keyboard_buffer'[t], buffer_index'[t]) = new
    BY <1>12
  <2> HIDE DEF new
  <2>2. buffer_index'[t] \in 0 .. MAX_CHAR - 1
    BY ONLY <1>6, <1>8
  <2>3. \A u \in Terminals : u # t =>
            keyboard_buffer'[u] = keyboard_buffer[u] /\ buffer_index'[u] = buffer_index[u]
    BY <1>6
  <2>4. /\ LineInv' /\ ~Completes[t] /\ Completes' = Completes /\ Given' = Given
        /\ EditedLines' = [EditedLines EXCEPT ![t] = new]
    BY <1>2, <1>5, <2>1, <2>2, <2>3, Edits DEF t
  <2>5. QED BY <2>4 DEF new
<1>14. Len(line) < MAX_CHAR - 1
  BY ONLY <1>1, <1>4 DEF n
<1>15. QED
  BY <1>5, <1>13, <1>14
     DEF Editor!Type, Editor!Edit, line, t, EditedLines, EditedLine, Completes, Given

\* Backspace takes the last character.
LEMMA BackspaceEdits ==
    ASSUME TypeOK, TypeOK', LineInv, Hard = {}, Backspace
    PROVE  LineInv' /\ Editor!Erase
<1> DEFINE t == cur_terminal
           n == buffer_index[t]
           cells == keyboard_buffer[t]
           line == EditedLines[t]
<1>0. MAX_CHAR \in Nat
  BY SizeAssumption
<1>1. MayPress /\ n > 0
  BY DEF Backspace
<1>2. pc = "wait" /\ \A u \in Terminals : enter_flag[u] = 0
  BY <1>1, AtPrompt
<1>3. t \in Terminals
  BY DEF TypeOK
<1>4. /\ line = Line(cells, n) /\ Len(line) = n /\ cells \in Buffers
      /\ n \in Nat /\ n <= MAX_CHAR - 1 /\ line # <<>>
  BY <1>1, <1>2, <1>3, LineAtPrompt
<1>5. n < MAX_CHAR
  BY ONLY <1>0, <1>4
<1>6. /\ keyboard_buffer' = [keyboard_buffer EXCEPT ![t][n] = Null]
      /\ buffer_index' = [buffer_index EXCEPT ![t] = n - 1]
      /\ enter_flag' = enter_flag /\ cur_terminal' = cur_terminal /\ readVars' = readVars
  BY <1>5 DEF Backspace
<1>7. /\ keyboard_buffer'[t] = [cells EXCEPT ![n] = Null] /\ buffer_index'[t] = n - 1
      /\ \A u \in Terminals : u # t =>
            keyboard_buffer'[u] = keyboard_buffer[u] /\ buffer_index'[u] = buffer_index[u]
  BY <1>3, <1>6 DEF TypeOK
<1>8. keyboard_buffer'[t] \in Buffers
  BY <1>3 DEF TypeOK, Buffers
<1> HIDE DEF t, n, cells, line
<1>9. \A k \in 0 .. n - 2 : keyboard_buffer'[t][k] = cells[k]
  <2>1. cells \in [Index -> Cells]
    BY <1>4 DEF Buffers
  <2>2. \A k \in 0 .. n - 2 : k \in Index /\ k # n
    BY ONLY <1>0, <1>4 DEF Index
  <2>3. QED BY ONLY <1>7, <2>1, <2>2
<1>10. Line(keyboard_buffer'[t], n - 1) = SubSeq(Line(cells, n), 1, n - 1)
  <2>1. n > 0 /\ n <= MAX_CHAR
    BY ONLY <1>0, <1>1, <1>4
  <2>2. QED BY ONLY <1>4, <1>8, <1>9, <2>1, LineErased
<1>11. Line(keyboard_buffer'[t], buffer_index'[t]) = SubSeq(line, 1, Len(line) - 1)
  BY ONLY <1>4, <1>7, <1>10
<1>12. n - 1 \in 0 .. MAX_CHAR - 1
  BY ONLY <1>0, <1>1, <1>4
<1>13. /\ LineInv' /\ ~Completes[t] /\ Completes' = Completes /\ Given' = Given
       /\ EditedLines' = [EditedLines EXCEPT ![t] = SubSeq(line, 1, Len(line) - 1)]
  <2> DEFINE new == SubSeq(line, 1, Len(line) - 1)
  <2>1. Line(keyboard_buffer'[t], buffer_index'[t]) = new
    BY <1>11
  <2> HIDE DEF new
  <2>2. buffer_index'[t] \in 0 .. MAX_CHAR - 1
    BY ONLY <1>7, <1>12
  <2>3. \A u \in Terminals : u # t =>
            keyboard_buffer'[u] = keyboard_buffer[u] /\ buffer_index'[u] = buffer_index[u]
    BY <1>7
  <2>4. /\ LineInv' /\ ~Completes[t] /\ Completes' = Completes /\ Given' = Given
        /\ EditedLines' = [EditedLines EXCEPT ![t] = new]
    BY <1>2, <1>6, <2>1, <2>2, <2>3, Edits DEF t
  <2>5. QED BY <2>4 DEF new
<1>14. QED
  BY <1>4, <1>6, <1>13
     DEF Editor!Erase, Editor!Edit, line, t, EditedLines, EditedLine, Completes, Given

\* Control-L drops the line.
LEMMA ControlLEdits ==
    ASSUME TypeOK, TypeOK', LineInv, Hard = {}, ControlL
    PROVE  LineInv' /\ Editor!Drop
<1> DEFINE t == cur_terminal
<1>0. MAX_CHAR \in Nat /\ MAX_CHAR > 1
  BY SizeAssumption
<1>1. MayPress
  BY DEF ControlL
<1>2. pc = "wait" /\ \A u \in Terminals : enter_flag[u] = 0
  BY <1>1, AtPrompt
<1>3. t \in Terminals
  BY DEF TypeOK
<1>4. enter_flag' = enter_flag /\ cur_terminal' = cur_terminal /\ readVars' = readVars
  BY DEF ControlL
<1>5. /\ buffer_index'[t] = 0
      /\ \A u \in Terminals : u # t =>
            keyboard_buffer'[u] = keyboard_buffer[u] /\ buffer_index'[u] = buffer_index[u]
  BY <1>3 DEF ControlL, TypeOK
<1>6. keyboard_buffer'[t] \in Buffers
  BY <1>3 DEF TypeOK, Buffers
<1>7. Line(keyboard_buffer'[t], buffer_index'[t]) = <<>>
  BY ONLY <1>0, <1>5, <1>6, LineIsSeq
<1>8. 0 \in 0 .. MAX_CHAR - 1
  BY ONLY <1>0
<1>9. /\ LineInv' /\ ~Completes[t] /\ Completes' = Completes /\ Given' = Given
      /\ EditedLines' = [EditedLines EXCEPT ![t] = <<>>]
  BY <1>2, <1>4, <1>5, <1>7, <1>8, Edits
<1>10. QED
  BY <1>4, <1>9
     DEF Editor!Drop, Editor!Edit, EditedLines, EditedLine, Completes, Given

\* Enter completes the line in front as it is.
LEMMA EnterCompletes ==
    ASSUME TypeOK, TypeOK', LineInv, Hard = {}, EnterKey
    PROVE  LineInv' /\ Editor!Complete
<1> DEFINE t == cur_terminal
           n == buffer_index[t]
           cells == keyboard_buffer[t]
<1>0. MAX_CHAR \in Nat
  BY SizeAssumption
<1>1. MayPress /\ n < MAX_CHAR - 1
  BY DEF EnterKey, HasRoom
<1>2. pc = "wait" /\ \A u \in Terminals : enter_flag[u] = 0
  BY <1>1, AtPrompt
<1>3. t \in Terminals
  BY DEF TypeOK
<1>4. /\ EditedLines[t] = Line(cells, n) /\ cells \in Buffers
      /\ n \in Nat /\ n <= MAX_CHAR - 1
  BY <1>2, <1>3, LineAtPrompt
<1>5. HandleEnter(1, FALSE, cells, n) /\ cur_terminal' = cur_terminal /\ readVars' = readVars
  <2>1. CursorAt("last row") = {FALSE}
    BY DEF CursorAt
  <2>2. QED BY <2>1 DEF EnterKey
<1>6. /\ keyboard_buffer'[t] = Put(cells, n, Newline) /\ buffer_index'[t] = n + 1
      /\ enter_flag'[t] = 1
      /\ \A u \in Terminals : u # t =>
            /\ keyboard_buffer'[u] = keyboard_buffer[u] /\ buffer_index'[u] = buffer_index[u]
            /\ enter_flag'[u] = enter_flag[u]
  BY <1>3, <1>5 DEF HandleEnter, TypeOK
<1>7. pc' = "wait" /\ buffer' = buffer /\ i' = i
  BY <1>2, <1>5 DEF readVars
<1>8. n \in Index /\ n + 1 \in 0 .. MAX_CHAR - 1 /\ n + 1 > 0 /\ (n + 1) - 1 = n
  BY ONLY <1>0, <1>1, <1>4 DEF Index
<1>9. keyboard_buffer'[t][n] = Newline /\ \A k \in 0 .. n - 1 : keyboard_buffer'[t][k] = cells[k]
  <2>1. cells \in [Index -> Cells]
    BY <1>4 DEF Buffers
  <2>2. keyboard_buffer'[t] = [cells EXCEPT ![n] = Newline]
    BY ONLY <1>6, <1>8 DEF Put
  <2>3. \A k \in 0 .. n - 1 : k \in Index /\ k # n
    BY ONLY <1>0, <1>4, <1>8 DEF Index
  <2>4. QED BY ONLY <1>8, <2>1, <2>2, <2>3
<1>10. LineInv'
  <2>1. FlagsInFront'
    <3>1. \A u \in Terminals : enter_flag'[u] = 1 => u = cur_terminal' /\ pc' = "wait"
      BY <1>2, <1>5, <1>6, <1>7
    <3>2. QED BY <3>1 DEF FlagsInFront
  <2>2. Indices'
    <3>1. \A u \in Terminals : buffer_index[u] \in 0 .. MAX_CHAR - 1
      BY DEF LineInv, Indices
    <3>2. \A u \in Terminals : buffer_index'[u] \in 0 .. MAX_CHAR - 1
      BY ONLY <1>6, <1>8, <3>1
    <3>3. QED BY <3>2 DEF Indices
  <2>3. LineEnded'
    BY <1>5, <1>6, <1>8, <1>9 DEF LineEnded
  <2>4. Taking' /\ CopiedSoFar' /\ Emptied'
    BY <1>2, <1>7 DEF LineInv, Taking, CopiedSoFar, Emptied
  <2>5. QED BY <2>1, <2>2, <2>3, <2>4 DEF LineInv
<1>11. EditedLines' = EditedLines
  <2>1. ASSUME NEW u \in Terminals, u = t PROVE LineOf(u)' = LineOf(u)
    <3>1. buffer_index'[t] - enter_flag'[t] = n
      BY ONLY <1>6, <1>8
    <3>2. enter_flag[t] = 0 /\ buffer_index[t] - enter_flag[t] = n
      BY <1>2, <1>3, <1>4
    <3>3. Line(keyboard_buffer'[t], n) = Line(cells, n)
      BY ONLY <1>4, <1>9, LineSame
    <3> HIDE DEF n
    <3>4. Line(keyboard_buffer'[t], buffer_index'[t] - enter_flag'[t])
            = Line(keyboard_buffer[t], buffer_index[t] - enter_flag[t])
      BY ONLY <3>1, <3>2, <3>3
    <3>5. QED BY ONLY <2>1, <3>4, LineOfIs, LineOfPrime
  <2>2. ASSUME NEW u \in Terminals PROVE EditedLine(u)' = EditedLine(u)
    <3>1. EditedLine(u)' = LineOf(u)' /\ EditedLine(u) = LineOf(u)
      BY <1>2, <1>7 DEF EditedLine
    <3>2. CASE u = t
      BY <1>5, <2>1, <3>1, <3>2
    <3>3. CASE u # t
      BY <1>6, <3>1, <3>3, OthersStay
    <3>4. QED BY <3>2, <3>3
  <2>3. QED BY <2>2 DEF EditedLines
<1>12. ~Completes[t] /\ Completes' = [Completes EXCEPT ![t] = TRUE] /\ Given' = Given
  <2>1. ~Completes[t]
    <3>1. enter_flag[t] # 1
      BY <1>2, <1>3
    <3>2. Completes[t] = (enter_flag[t] = 1)
      BY ONLY <1>3, Zenon DEF Completes
    <3>3. QED BY ONLY <3>1, <3>2
  <2>2. ASSUME NEW u \in Terminals
        PROVE  (enter_flag'[u] = 1) = IF u = t THEN TRUE ELSE (enter_flag[u] = 1)
    BY <1>6
  <2>3. Completes' = [Completes EXCEPT ![t] = TRUE]
    <3>1. Completes' = [u \in Terminals |-> enter_flag'[u] = 1]
      BY DEF Completes
    <3>2. [Completes EXCEPT ![t] = TRUE]
             = [u \in Terminals |-> IF u = t THEN TRUE ELSE enter_flag[u] = 1]
      BY ONLY Zenon DEF Completes
    <3>3. QED BY ONLY <2>2, <3>1, <3>2
  <2>4. Given' = Given
    BY <1>2, <1>7 DEF Given
  <2>5. QED BY <2>1, <2>3, <2>4
<1>13. Editor!Complete
  BY <1>5, <1>11, <1>12 DEF Editor!Complete, EditedLines, EditedLine, Completes, Given
<1>14. QED BY <1>10, <1>13

\* Another terminal comes to the front.
LEMMA SwitchFronts ==
    ASSUME TypeOK, LineInv, Hard = {}, NEW t \in Terminals, SwitchTerminal(t)
    PROVE  LineInv' /\ Editor!Front(t)
<1>1. MayPress
  BY DEF SwitchTerminal
<1>2. pc = "wait" /\ \A u \in Terminals : enter_flag[u] = 0
  BY <1>1, AtPrompt
<1>3. /\ cur_terminal' = t /\ keyboard_buffer' = keyboard_buffer
      /\ buffer_index' = buffer_index /\ enter_flag' = enter_flag
      /\ pc' = pc /\ buffer' = buffer /\ i' = i
  BY DEF SwitchTerminal, keyVars, readVars
<1>4. LineInv'
  BY <1>2, <1>3
     DEF LineInv, FlagsInFront, Taking, Indices, LineEnded, CopiedSoFar, Emptied
<1>5. EditedLines' = EditedLines
  <2>1. ASSUME NEW u \in Terminals PROVE EditedLine(u)' = EditedLine(u)
    BY <1>2, <1>3, OthersStay DEF EditedLine
  <2>2. QED BY <2>1 DEF EditedLines
<1>6. ~Completes[cur_terminal] /\ Completes' = Completes /\ Given' = Given
  <2>1. cur_terminal \in Terminals
    BY DEF TypeOK
  <2>2. Completes[cur_terminal] = (enter_flag[cur_terminal] = 1)
    BY ONLY <2>1, Zenon DEF Completes
  <2>3. enter_flag[cur_terminal] # 1
    BY <1>2, <2>1
  <2>4. Completes' = Completes /\ Given' = Given
    BY <1>3 DEF Completes, Given
  <2>5. QED BY ONLY <2>2, <2>3, <2>4
<1>7. Editor!Front(t)
  BY <1>3, <1>5, <1>6 DEF Editor!Front, EditedLines, EditedLine, Completes, Given
<1>8. QED BY <1>4, <1>7

\* A step of the program that an editor does not see.
Unseen ==
    UNCHANGED <<cur_terminal, keyboard_buffer, buffer_index, enter_flag, buffer>>

\* An editor does not see such a step.
LEMMA UnseenSame ==
    ASSUME Unseen,
           pc \in {"reset", "return"} <=> pc' \in {"reset", "return"},
           pc \in {"run", "prompted"} <=> pc' \in {"run", "prompted"}
    PROVE  UNCHANGED Editor!editorVars
<1>1. EditedLines' = EditedLines
  <2>1. ASSUME NEW u \in Terminals PROVE EditedLine(u)' = EditedLine(u)
    BY OthersStay DEF EditedLine, Unseen
  <2>2. QED BY <2>1 DEF EditedLines
<1>2. Completes' = Completes /\ Given' = Given
  BY DEF Completes, Given, Unseen
<1>3. QED
  BY <1>1, <1>2 DEF Editor!editorVars, EditedLines, EditedLine, Completes, Given, Unseen

\* Before the program reads.
LEMMA WritesUnseen ==
    ASSUME TypeOK, LineInv, CallExecute \/ Write \/ ReadNothing
    PROVE  LineInv' /\ UNCHANGED Editor!editorVars
<1>1. pc \in {"run", "prompted"} /\ pc' \in {"run", "prompted"}
  BY DEF CallExecute, Write, ReadNothing, readVars
<1>2. \A t \in Terminals : enter_flag[t] = 0
  <2>1. \A t \in Terminals : enter_flag[t] \in 0 .. 1
    BY DEF TypeOK
  <2>2. \A t \in Terminals : enter_flag[t] # 1
    BY <1>1 DEF LineInv, FlagsInFront
  <2>3. QED BY ONLY <2>1, <2>2
<1>3. enter_flag' = enter_flag
  <2>1. CASE CallExecute \/ ReadNothing
    BY <2>1 DEF CallExecute, ReadNothing, keyVars
  <2>2. CASE Write
    <3>1. enter_flag' = [enter_flag EXCEPT ![execute_terminal] = 0]
      BY <2>2 DEF Write
    <3>2. QED BY <1>2, <3>1 DEF TypeOK
  <2>3. QED BY <2>1, <2>2
<1>4. Unseen
  BY <1>3 DEF Unseen, CallExecute, Write, ReadNothing, keyVars, readVars
<1>5. LineInv'
  BY <1>1, <1>2, <1>3, <1>4
     DEF LineInv, Unseen, FlagsInFront, Taking, Indices, LineEnded, CopiedSoFar, Emptied
<1>6. UNCHANGED Editor!editorVars
  BY <1>1, <1>4, UnseenSame
<1>7. QED BY <1>5, <1>6

\* The line that was given before is forgotten when the program reads again.
LEMMA CallForgets ==
    ASSUME TypeOK, LineInv, NEW n \in Requests, CallRead(n)
    PROVE  LineInv' /\ Editor!Forget
<1>1. /\ pc = "prompted" /\ pc' = "wait" /\ buffer' = <<>> /\ cur_terminal' = cur_terminal
      /\ keyboard_buffer' = keyboard_buffer /\ buffer_index' = buffer_index
      /\ enter_flag' = enter_flag /\ i' = 0
  BY DEF CallRead, keyVars
<1>2. \A t \in Terminals : enter_flag[t] # 1
  BY <1>1 DEF LineInv, FlagsInFront
<1>3. cur_terminal \in Terminals
  BY DEF TypeOK
<1>4. LineInv'
  BY <1>1, <1>2, <1>3
     DEF LineInv, FlagsInFront, Taking, Indices, LineEnded, CopiedSoFar, Emptied
<1>5. EditedLines' = EditedLines
  <2>1. ASSUME NEW u \in Terminals PROVE EditedLine(u)' = EditedLine(u)
    BY <1>1, OthersStay DEF EditedLine
  <2>2. QED BY <2>1 DEF EditedLines
<1>6. Completes' = Completes /\ Given' = <<>>
  BY <1>1 DEF Completes, Given
<1>7. Editor!Forget
  BY <1>1, <1>5, <1>6 DEF Editor!Forget, EditedLines, EditedLine, Completes, Given
<1>8. QED BY <1>4, <1>7

\* While terminal_read copies a line that ends in '\n', it copies the line.
LEMMA CopyUnseen ==
    ASSUME TypeOK, ReadBounds, LineInv, ReadWait \/ ReadTest \/ ReadStore
    PROVE  LineInv' /\ UNCHANGED Editor!editorVars
<1> DEFINE t == cur_terminal
           n == buffer_index[t]
           cells == keyboard_buffer[t]
<1>0. MAX_CHAR \in Nat
  BY SizeAssumption
<1>1. t \in Terminals /\ n \in 0 .. MAX_CHAR - 1 /\ i \in Nat /\ enter_flag[t] \in 0 .. 1
  BY DEF TypeOK, LineInv, Indices
<1>2. /\ cur_terminal' = cur_terminal /\ keyboard_buffer' = keyboard_buffer
      /\ buffer_index' = buffer_index /\ enter_flag' = enter_flag
      /\ pc' \in {"test", "store", "clear"} /\ pc \in {"wait", "test", "store"}
  BY DEF ReadWait, ReadTest, ReadStore, keyVars
<1>3. enter_flag[t] = 1
  <2>1. CASE ReadWait
    BY <1>1, <2>1 DEF ReadWait
  <2>2. CASE ReadTest \/ ReadStore
    BY <2>2 DEF LineInv, Taking, ReadTest, ReadStore
  <2>3. QED BY <2>1, <2>2
<1>4. n > 0 /\ cells[n - 1] = Newline
  BY <1>2, <1>3 DEF LineInv, LineEnded
<1>5. FlagsInFront' /\ Taking' /\ Indices' /\ LineEnded' /\ Emptied'
  <2>1. FlagsInFront'
    BY <1>2 DEF LineInv, FlagsInFront
  <2>2. Taking' /\ Emptied'
    BY <1>2, <1>3 DEF Taking, Emptied
  <2>3. Indices'
    BY <1>2 DEF LineInv, Indices
  <2>4. LineEnded'
    BY <1>2, <1>4 DEF LineEnded
  <2>5. QED BY <2>1, <2>2, <2>3, <2>4
<1>6. CopiedSoFar'
  <2>1. CASE ReadWait
    <3>1. pc' = "test" /\ i' = 0
      BY <2>1 DEF ReadWait, LineInv, CopiedSoFar
    <3>2. 0 <= n - 1
      BY ONLY <1>1, <1>4
    <3>3. QED BY <1>2, <3>1, <3>2 DEF CopiedSoFar
  <2>2. CASE ReadTest
    <3>1. /\ pc = "test" /\ i' = i /\ buffer' = buffer
          /\ pc' = IF MoreToCopy THEN "store" ELSE "clear"
      BY <2>2 DEF ReadTest
    <3>2. i <= n - 1 /\ \A k \in 1 .. i : buffer[k] = cells[k - 1]
      BY <3>1 DEF LineInv, CopiedSoFar
    <3>3. MoreToCopy <=> i < n - 1
      <4> HIDE DEF n, t
      <4>1. MoreToCopy <=> i < MAX_CHAR /\ (n - 1 < 0 \/ i < n - 1)
        BY DEF MoreToCopy, n, t
      <4>2. n - 1 >= 0 /\ (i < n - 1 => i < MAX_CHAR)
        BY ONLY <1>0, <1>1, <1>4
      <4>3. QED BY ONLY <1>1, <4>1, <4>2
    <3>4. /\ pc' = "store" => i < n - 1
          /\ pc' = "clear" => i = n - 1
      <4> HIDE DEF n, t
      <4>1. n \in Int
        BY ONLY <1>1
      <4>2. QED BY ONLY <1>1, <3>1, <3>2, <3>3, <4>1
    <3>5. QED BY <1>2, <3>1, <3>2, <3>4 DEF CopiedSoFar
  <2>3. CASE ReadStore
    <3>1. /\ pc = "store" /\ pc' = "test" /\ i' = i + 1
          /\ buffer' = Append(buffer, cells[i])
      BY <2>3 DEF ReadStore
    <3>2. i < n - 1 /\ \A k \in 1 .. i : buffer[k] = cells[k - 1]
      BY <3>1 DEF LineInv, CopiedSoFar
    <3>3. buffer \in Seq(Cells) /\ Len(buffer) = i /\ cells[i] \in Cells
      <4>1. i \in Index
        BY <1>0, <1>1, <3>2 DEF Index
      <4>2. QED BY <1>1, <4>1 DEF TypeOK, ReadBounds
    <3> HIDE DEF n, t, cells
    <3>4. \A k \in 1 .. i + 1 : buffer'[k] = cells[k - 1]
      <4>1. /\ buffer'[i + 1] = cells[i] /\ (i + 1) - 1 = i
            /\ \A k \in 1 .. i : buffer'[k] = buffer[k]
        BY ONLY <1>1, <3>1, <3>3
      <4>2. \A k \in 1 .. i + 1 : k = i + 1 \/ k \in 1 .. i
        BY ONLY <1>1
      <4>3. QED BY ONLY <3>2, <4>1, <4>2
    <3>5. i' <= n - 1
      BY ONLY <1>1, <3>1, <3>2
    <3>6. QED BY <1>2, <3>1, <3>4, <3>5 DEF CopiedSoFar, n, t, cells
  <2>4. QED BY <2>1, <2>2, <2>3
<1>7. LineInv'
  BY <1>5, <1>6 DEF LineInv
<1>8. UNCHANGED Editor!editorVars
  <2>1. CASE ReadWait \/ ReadTest
    <3>1. Unseen
      BY <1>2, <2>1 DEF Unseen, ReadWait, ReadTest
    <3>2. QED BY <1>2, <3>1, UnseenSame
  <2>2. CASE ReadStore
    <3>1. pc = "store" /\ pc' = "test"
      BY <2>2 DEF ReadStore
    <3>2. EditedLines' = EditedLines
      <4>1. ASSUME NEW u \in Terminals PROVE EditedLine(u)' = EditedLine(u)
        BY <1>2, <3>1, OthersStay DEF EditedLine
      <4>2. QED BY <4>1 DEF EditedLines
    <3>3. Completes' = Completes /\ Given' = Given
      BY <1>2, <3>1 DEF Completes, Given
    <3>4. QED
      BY <1>2, <3>2, <3>3 DEF Editor!editorVars, EditedLines, EditedLine, Completes, Given
  <2>3. QED BY <2>1, <2>2
<1>9. QED BY <1>7, <1>8

\* terminal_read takes the line: what it has copied is the line, which is gone
\* from the terminal when it returns.
LEMMA ClearUnseen ==
    ASSUME TypeOK, ReadBounds, LineInv, ReadClear
    PROVE  LineInv' /\ UNCHANGED Editor!editorVars
<1> DEFINE t == cur_terminal
           n == buffer_index[t]
           cells == keyboard_buffer[t]
<1>1. /\ pc = "clear" /\ pc' = "reset" /\ cur_terminal' = t /\ buffer' = buffer
      /\ buffer_index' = buffer_index /\ enter_flag' = enter_flag
      /\ \A u \in Terminals : u # t => keyboard_buffer'[u] = keyboard_buffer[u]
  BY DEF ReadClear, TypeOK
<1>2. t \in Terminals /\ n \in 0 .. MAX_CHAR - 1 /\ cells \in Buffers
  BY DEF TypeOK, LineInv, Indices, Buffers
<1>3. enter_flag[t] = 1 /\ i = n - 1 /\ \A k \in 1 .. i : buffer[k] = cells[k - 1]
  BY <1>1 DEF LineInv, Taking, CopiedSoFar
<1>4. buffer \in Seq(Cells) /\ Len(buffer) = i /\ i <= MAX_CHAR
  BY DEF TypeOK, ReadBounds
<1>5. LineInv'
  <2>1. FlagsInFront' /\ Taking' /\ Indices'
    BY <1>1, <1>3 DEF LineInv, FlagsInFront, Taking, Indices
  <2>2. LineEnded' /\ CopiedSoFar' /\ Emptied'
    BY <1>1 DEF LineEnded, CopiedSoFar, Emptied
  <2>3. QED BY <2>1, <2>2 DEF LineInv
<1>6. EditedLines' = EditedLines
  <2>1. LineOf(t) = buffer
    <3>1. LineOf(t) = Line(cells, n - enter_flag[t])
      BY <1>2, LineOfIs
    <3>2. buffer = Line(cells, Len(buffer))
      BY ONLY <1>2, <1>3, <1>4, LineCopied
    <3> HIDE DEF n, t
    <3>3. n - enter_flag[t] = Len(buffer)
      BY ONLY <1>3, <1>4
    <3>4. QED BY ONLY <3>1, <3>2, <3>3
  <2>2. ASSUME NEW u \in Terminals PROVE EditedLine(u)' = EditedLine(u)
    <3>1. CASE u = t
      BY <1>1, <2>1, <3>1 DEF EditedLine
    <3>2. CASE u # t
      BY <1>1, <3>2, OthersStay DEF EditedLine
    <3>3. QED BY <3>1, <3>2
  <2>3. QED BY <2>2 DEF EditedLines
<1>7. Completes' = Completes /\ Given' = Given
  BY <1>1 DEF Completes, Given
<1>8. UNCHANGED Editor!editorVars
  BY <1>1, <1>6, <1>7 DEF Editor!editorVars, EditedLines, EditedLine, Completes, Given
<1>9. QED BY <1>5, <1>8

\* The index is reset while the line is on its way to the program.
LEMMA ResetUnseen ==
    ASSUME TypeOK, LineInv, ReadReset
    PROVE  LineInv' /\ UNCHANGED Editor!editorVars
<1> DEFINE t == cur_terminal
<1>1. /\ pc = "reset" /\ pc' = "return" /\ cur_terminal' = t /\ buffer' = buffer
      /\ keyboard_buffer' = keyboard_buffer /\ enter_flag' = enter_flag
      /\ \A u \in Terminals : u # t => buffer_index'[u] = buffer_index[u]
  BY DEF ReadReset, TypeOK
<1>2. t \in Terminals /\ buffer_index'[t] = 0
  BY DEF ReadReset, TypeOK
<1>3. LineInv'
  <2>1. FlagsInFront' /\ Taking'
    BY <1>1 DEF LineInv, FlagsInFront, Taking
  <2>2. Indices'
    <3>1. 0 \in 0 .. MAX_CHAR - 1
      BY SizeAssumption
    <3>2. \A u \in Terminals : buffer_index[u] \in 0 .. MAX_CHAR - 1
      BY DEF LineInv, Indices
    <3>3. \A u \in Terminals : buffer_index'[u] \in 0 .. MAX_CHAR - 1
      BY ONLY <1>1, <1>2, <3>1, <3>2
    <3>4. QED BY <3>3 DEF Indices
  <2>3. LineEnded' /\ CopiedSoFar' /\ Emptied'
    BY <1>1, <1>2 DEF LineEnded, CopiedSoFar, Emptied
  <2>4. QED BY <2>1, <2>2, <2>3 DEF LineInv
<1>4. EditedLines' = EditedLines
  <2>1. ASSUME NEW u \in Terminals PROVE EditedLine(u)' = EditedLine(u)
    BY <1>1, OthersStay DEF EditedLine
  <2>2. QED BY <2>1 DEF EditedLines
<1>5. Completes' = Completes /\ Given' = Given
  BY <1>1 DEF Completes, Given
<1>6. UNCHANGED Editor!editorVars
  BY <1>1, <1>4, <1>5 DEF Editor!editorVars, EditedLines, EditedLine, Completes, Given
<1>7. QED BY <1>3, <1>6

\* terminal_read returns with the line.
LEMMA ReturnGives ==
    ASSUME TypeOK, LineInv, ReadReturn
    PROVE  LineInv' /\ Editor!Give
<1> DEFINE t == cur_terminal
<1>1. /\ pc = "return" /\ pc' = "run" /\ cur_terminal' = t /\ buffer' = buffer
      /\ keyboard_buffer' = keyboard_buffer /\ buffer_index' = buffer_index
      /\ \A u \in Terminals : u # t => enter_flag'[u] = enter_flag[u]
  BY DEF ReadReturn, TypeOK
<1>2. t \in Terminals /\ enter_flag'[t] = 0 /\ enter_flag[t] = 1 /\ buffer_index[t] = 0
  BY <1>1 DEF ReadReturn, TypeOK, LineInv, Taking, Emptied
<1>3. \A u \in Terminals : enter_flag[u] = 1 => u = t
  BY DEF LineInv, FlagsInFront
<1>4. \A u \in Terminals : enter_flag'[u] # 1
  BY ONLY <1>1, <1>2, <1>3
<1>5. LineInv'
  <2>1. FlagsInFront' /\ Indices'
    BY <1>1, <1>4 DEF LineInv, FlagsInFront, Indices
  <2>2. Taking' /\ LineEnded' /\ CopiedSoFar' /\ Emptied'
    BY <1>1 DEF Taking, LineEnded, CopiedSoFar, Emptied
  <2>3. QED BY <2>1, <2>2 DEF LineInv
<1>6. EditedLines' = [EditedLines EXCEPT ![t] = <<>>]
  <2>1. Line(keyboard_buffer'[t], buffer_index'[t] - enter_flag'[t]) = <<>>
    <3>1. keyboard_buffer[t] \in Buffers
      BY <1>2 DEF TypeOK, Buffers
    <3>2. buffer_index'[t] - enter_flag'[t] = 0
      BY ONLY <1>1, <1>2
    <3>3. MAX_CHAR \in Nat
      BY SizeAssumption
    <3>4. QED BY ONLY <1>1, <3>1, <3>2, <3>3, LineIsSeq
  <2>2. ASSUME NEW u \in Terminals
        PROVE  EditedLine(u)' = IF u = t THEN <<>> ELSE EditedLine(u)
    <3>1. EditedLine(u)' = LineOf(u)'
      BY <1>1 DEF EditedLine
    <3>2. CASE u = t
      BY ONLY <2>1, <3>1, <3>2, LineOfPrime, u \in Terminals
    <3>3. CASE u # t
      BY <1>1, <3>1, <3>3, OthersStay DEF EditedLine
    <3>4. QED BY <3>2, <3>3
  <2>3. EditedLines' = [u \in Terminals |-> EditedLine(u)']
    BY DEF EditedLines
  <2>4. EditedLines = [u \in Terminals |-> EditedLine(u)]
    BY DEF EditedLines
  <2>5. QED BY ONLY <2>2, <2>3, <2>4
<1>7. Given' = EditedLines[t]
  <2>1. EditedLines[t] = EditedLine(t)
    BY <1>2 DEF EditedLines
  <2>2. QED BY <1>1, <2>1 DEF EditedLine, Given
<1>8. Completes[t] /\ Completes' = [Completes EXCEPT ![t] = FALSE]
  <2>1. Completes[t] = (enter_flag[t] = 1)
    BY ONLY <1>2, Zenon DEF Completes
  <2>2. Completes[t]
    BY ONLY <1>2, <2>1
  <2>3. ASSUME NEW u \in Terminals
        PROVE  (enter_flag'[u] = 1) = IF u = t THEN FALSE ELSE (enter_flag[u] = 1)
    BY <1>1, <1>4
  <2>4. Completes' = [u \in Terminals |-> enter_flag'[u] = 1]
    BY DEF Completes
  <2>5. [Completes EXCEPT ![t] = FALSE]
           = [u \in Terminals |-> IF u = t THEN FALSE ELSE enter_flag[u] = 1]
    BY ONLY Zenon DEF Completes
  <2>6. QED BY ONLY <2>2, <2>3, <2>4, <2>5
<1>9. Editor!Give
  BY <1>1, <1>6, <1>7, <1>8 DEF Editor!Give, EditedLines, EditedLine, Completes, Given
<1>10. QED BY <1>5, <1>9

\* Every step keeps the invariant, and is a step of an editor or none that one sees.
LEMMA NextEdits ==
    ASSUME Inv, Inv', LineInv, Hard = {}, [Next]_vars
    PROVE  LineInv' /\ [Editor!EditorNext]_Editor!editorVars
<1> USE DEF Inv
<1>1. ASSUME NEW c \in Chars, Character(c)
      PROVE  LineInv' /\ Editor!EditorNext
  BY <1>1, CharacterEdits DEF Editor!EditorNext
<1>2. CASE EnterKey
  BY <1>2, EnterCompletes DEF Editor!EditorNext
<1>3. CASE Backspace
  BY <1>3, BackspaceEdits DEF Editor!EditorNext
<1>4. CASE ControlL
  BY <1>4, ControlLEdits DEF Editor!EditorNext
<1>5. ASSUME NEW t \in Terminals, SwitchTerminal(t)
      PROVE  LineInv' /\ Editor!EditorNext
  BY <1>5, SwitchFronts DEF Editor!EditorNext
<1>6. CASE CallExecute \/ Write \/ ReadNothing
  BY <1>6, WritesUnseen
<1>7. ASSUME NEW n \in Requests, CallRead(n)
      PROVE  LineInv' /\ Editor!EditorNext
  BY <1>7, CallForgets DEF Editor!EditorNext
<1>8. CASE ReadWait \/ ReadTest \/ ReadStore
  BY <1>8, CopyUnseen
<1>9. CASE ReadClear
  BY <1>9, ClearUnseen
<1>10. CASE ReadReset
  BY <1>10, ResetUnseen
<1>11. CASE ReadReturn
  BY <1>11, ReturnGives DEF Editor!EditorNext
<1>12. CASE UNCHANGED vars
  <2>1. /\ Unseen /\ pc' = pc /\ i' = i
    BY <1>12 DEF Unseen, vars, keyVars, readVars
  <2>2. LineInv'
    BY <2>1 DEF Unseen, LineInv, FlagsInFront, Taking, Indices, LineEnded, CopiedSoFar, Emptied
  <2>3. QED BY <2>1, <2>2, UnseenSame
<1>13. QED
  BY <1>1, <1>2, <1>3, <1>4, <1>5, <1>6, <1>7, <1>8, <1>9, <1>10, <1>11, <1>12
     DEF Next, Key, Program, Read

\* At boot all lines are empty.
LEMMA InitEdits == ASSUME Init PROVE LineInv /\ Editor!EditorInit
<1>0. MAX_CHAR \in Nat /\ MAX_CHAR > 1
  BY SizeAssumption
<1>1. pc = "run" /\ buffer = <<>> /\ cur_terminal = First
  BY DEF Init
<1>2. \A t \in Terminals : /\ enter_flag[t] = 0 /\ buffer_index[t] = 0
                            /\ keyboard_buffer[t] = Empty
  BY DEF Init
<1>3. LineInv
  <2>1. FlagsInFront
    BY <1>2 DEF FlagsInFront
  <2>2. Indices
    BY <1>0, <1>2 DEF Indices
  <2>3. Taking /\ LineEnded /\ CopiedSoFar /\ Emptied
    BY <1>1 DEF Taking, LineEnded, CopiedSoFar, Emptied
  <2>4. QED BY <2>1, <2>2, <2>3 DEF LineInv
<1>4. EditedLines = [t \in Terminals |-> <<>>]
  <2>1. ASSUME NEW t \in Terminals PROVE EditedLine(t) = <<>>
    <3>1. EditedLine(t) = LineOf(t)
      BY <1>1 DEF EditedLine
    <3>2. Empty \in Buffers
      BY DEF Empty, Buffers, Cells
    <3>3. buffer_index[t] - enter_flag[t] = 0
      BY <1>2
    <3>4. Line(keyboard_buffer[t], 0) = <<>>
      <4>1. keyboard_buffer[t] \in Buffers
        BY <1>2, <3>2
      <4>2. QED BY ONLY <1>0, <4>1, LineIsSeq
    <3>5. QED BY ONLY <3>1, <3>3, <3>4, LineOfIs, t \in Terminals
  <2>2. QED BY <2>1 DEF EditedLines
<1>5. Completes = [t \in Terminals |-> FALSE]
  <2>1. ASSUME NEW t \in Terminals PROVE (enter_flag[t] = 1) = FALSE
    BY <1>2
  <2>2. QED BY ONLY <2>1 DEF Completes
<1>6. Given = <<>>
  BY <1>1 DEF Given
<1>7. Editor!EditorInit
  BY <1>1, <1>4, <1>5, <1>6
     DEF Editor!EditorInit, EditedLines, EditedLine, Completes, Given
<1>8. QED BY <1>3, <1>7

\* If keys are pressed at a prompt, before the last column and above the last
\* row, enter_flag means a complete line in the foreground terminal, which the
\* program that waits is about to take (keyboard.c 198-203, terminal.c 122-145).
THEOREM FlagsCorrect == ASSUME Hard = {} PROVE Spec => []FlagMeansLine
<1>1. Init => LineInv
  BY InitEdits
<1>2. Inv /\ Inv' /\ LineInv /\ [Next]_vars => LineInv'
  BY NextEdits
<1>3. Inv /\ LineInv => FlagMeansLine
  BY DEF LineInv, FlagsInFront, LineEnded, FlagMeansLine
<1>4. QED BY <1>1, <1>2, <1>3, InvCorrect, PTL DEF Spec

\* What terminal_read has stored and returned, below the size of the buffer.
LineFits == i <= MAX_CHAR - 2 /\ ret <= MAX_CHAR - 1

\* A line leaves a cell free for '\n', so that a copy of it is shorter by two
\* than the buffer, and what is returned shorter by one.
LEMMA NextFits ==
    ASSUME Inv, LineInv, LineFits, [Next]_vars
    PROVE  LineFits'
<1>0. MAX_CHAR \in Nat /\ MAX_CHAR > 1 /\ i \in Nat /\ ret \in Int
  BY SizeAssumption DEF Inv, TypeOK
<1>1. CASE UNCHANGED <<i, ret>>
  BY <1>1 DEF LineFits
<1>2. CASE Key
  <2>1. UNCHANGED readVars
    BY <1>2 DEF Key, Character, EnterKey, Backspace, ControlL, SwitchTerminal
  <2>2. QED BY <1>1, <2>1 DEF readVars
<1>3. CASE CallExecute \/ Write \/ ReadWait \/ ReadTest \/ ReadClear \/ ReadReset
  <2>1. UNCHANGED <<i, ret>>
    BY <1>3 DEF CallExecute, Write, ReadWait, ReadTest, ReadClear, ReadReset, readVars
  <2>2. QED BY <1>1, <2>1
<1>4. CASE ReadNothing
  <2>1. i' = i /\ ret' = -1
    BY <1>4 DEF ReadNothing
  <2>2. QED BY <1>0, <2>1 DEF LineFits
<1>5. CASE \E n \in Requests : CallRead(n)
  <2>1. i' = 0 /\ ret' = ret
    BY <1>5 DEF CallRead
  <2>2. QED BY <1>0, <2>1 DEF LineFits
<1>6. CASE ReadStore
  <2>1. pc = "store" /\ i' = i + 1 /\ ret' = ret
    BY <1>6 DEF ReadStore
  <2>2. cur_terminal \in Terminals
    BY DEF Inv, TypeOK
  <2>3. i < buffer_index[cur_terminal] - 1 /\ buffer_index[cur_terminal] \in 0 .. MAX_CHAR - 1
    BY <2>1, <2>2 DEF LineInv, CopiedSoFar, Indices
  <2>4. QED BY <1>0, <2>1, <2>3 DEF LineFits
<1>7. CASE ReadReturn
  <2>1. i' = i /\ ret' = i + 1
    BY <1>7 DEF ReadReturn
  <2>2. QED BY <1>0, <2>1 DEF LineFits
<1>8. QED
  BY <1>1, <1>2, <1>3, <1>4, <1>5, <1>6, <1>7 DEF Next, Program, Read, vars, readVars

\* And then a program that asks for 127 bytes or more gets its line with a
\* cleared byte after it, and a count within its request, although the loop of
\* terminal_read never looks at nbytes (terminal.c 118 and 127-145).
THEOREM RequestsFit == ASSUME Hard = {} PROVE Spec => []LineFitsRequest
<1>1. Init => LineInv /\ LineFits
  <2>1. Init => LineFits
    BY SizeAssumption DEF Init, LineFits
  <2>2. QED BY <2>1, InitEdits
<1>2. Inv /\ Inv' /\ LineInv /\ LineFits /\ [Next]_vars => LineInv' /\ LineFits'
  BY NextEdits, NextFits
<1>3. Inv /\ LineFits => LineFitsRequest
  <2> SUFFICES ASSUME Inv, LineFits, nbytes >= MAX_CHAR - 1
               PROVE  Len(buffer) < nbytes /\ ret <= nbytes
    BY DEF LineFitsRequest
  <2>1. /\ MAX_CHAR \in Nat /\ i \in Nat /\ ret \in Int /\ nbytes \in Int
        /\ Len(buffer) = i
    BY SizeAssumption DEF Inv, TypeOK, ReadBounds
  <2>2. QED BY <2>1 DEF LineFits
<1>4. QED BY <1>1, <1>2, <1>3, InvCorrect, PTL DEF Spec

\* And then the keyboard handler and terminal_read together are a line editor:
\* every step of theirs edits, completes or gives a line, or does not show.
THEOREM EditorCorrect == ASSUME Hard = {} PROVE Spec => IsLineEditor
<1>1. Init => LineInv /\ Editor!EditorInit
  BY InitEdits
<1>2. Inv /\ Inv' /\ LineInv /\ [Next]_vars
        => LineInv' /\ [Editor!EditorNext]_Editor!editorVars
  BY NextEdits
<1>3. QED BY <1>1, <1>2, InvCorrect, PTL DEF Spec, IsLineEditor, Editor!EditorSpec

=============================================================================
