----------------------------- MODULE MCScreens -----------------------------
(***************************************************************************)
(* Instances of Screens for TLC: two terminals of two rows and two columns *)
(* and one character, which is enough for text to wrap and to scroll, and  *)
(* for a cell in the wrong place to be seen.                               *)
(***************************************************************************)
EXTENDS Screens

TwoTerminals == {0, 1}
OneChar == {"a"}
=============================================================================
