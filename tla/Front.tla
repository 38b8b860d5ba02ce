------------------------------- MODULE Front -------------------------------
(***************************************************************************)
(* The terminals, and which of them the user looks at: what the modules    *)
(* Keys and Console share (terminal.h 42-43).                              *)
(***************************************************************************)
EXTENDS Integers

CONSTANT termsize   \* 3

ASSUME TerminalsAssumption == termsize \in Nat \ {0}

Terminals == 0 .. termsize - 1
First == 0          \* the one in front at boot, terminal.c 31

VARIABLE cur_terminal
=============================================================================
