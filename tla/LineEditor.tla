----------------------------- MODULE LineEditor -----------------------------
(***************************************************************************)
(* What line input promises.  Every terminal has a line that is being      *)
(* edited.  Keys edit the line of the terminal in front.  A program is     *)
(* given a line once Enter has completed it, all of it and nothing else,   *)
(* and it is gone from the terminal then.  Lines of the other terminals    *)
(* stay as they are until the user comes back to them.                     *)
(***************************************************************************)
EXTENDS Integers, Sequences

CONSTANTS Terminals, First, Chars,
          MaxLine      \* no line gets longer

VARIABLES front,       \* the terminal in front
          line,        \* per terminal
          complete,    \* per terminal
          given        \* the line a program has been given

editorVars == <<front, line, complete, given>>

EditorInit ==
    /\ front = First
    /\ line = [t \in Terminals |-> <<>>]
    /\ complete = [t \in Terminals |-> FALSE]
    /\ given = <<>>

Edit(new) ==
    /\ ~complete[front]
    /\ line' = [line EXCEPT ![front] = new]
    /\ UNCHANGED <<front, complete, given>>

Type(c) == Len(line[front]) < MaxLine /\ Edit(Append(line[front], c))
Erase == line[front] # <<>> /\ Edit(SubSeq(line[front], 1, Len(line[front]) - 1))
Drop == Edit(<<>>)

Complete ==
    /\ ~complete[front]
    /\ complete' = [complete EXCEPT ![front] = TRUE]
    /\ UNCHANGED <<front, line, given>>

Front(t) ==
    /\ ~complete[front]
    /\ front' = t
    /\ UNCHANGED <<line, complete, given>>

Give ==
    /\ complete[front]
    /\ given' = line[front]
    /\ line' = [line EXCEPT ![front] = <<>>]
    /\ complete' = [complete EXCEPT ![front] = FALSE]
    /\ UNCHANGED front

Forget ==
    /\ given' = <<>>
    /\ UNCHANGED <<front, line, complete>>

EditorNext ==
    \/ \E c \in Chars : Type(c)
    \/ Erase \/ Drop \/ Complete \/ Give \/ Forget
    \/ \E t \in Terminals : Front(t)

EditorSpec == EditorInit /\ [][EditorNext]_editorVars

=============================================================================
