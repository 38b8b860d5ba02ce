----------------------------- MODULE MCProcesses -----------------------------
(***************************************************************************)
(* Instances of Processes for TLC.  The constants are the code's own,      *)
(* except that the runs with early input, where every interleaving of the  *)
(* timer with commands is explored, take MAXPROCESS = 4: room for the      *)
(* three shells, and one process that can return to its parent.            *)
(***************************************************************************)
EXTENDS Processes

\* A shell and a program that only computes and ends.
TwoPrograms == {"shell", "ls"}
OnlyShell == {"shell"}

\* What a shell's "exit" returns, and what it returns when it cannot read.
ExitStatuses == {0, 3}
OneStatus == {0}
=============================================================================
