---------------------------- MODULE ProcessStack ----------------------------
(***************************************************************************)
(* What execute and halt promise: processes form a stack.  Only the one on *)
(* top runs; it may launch another on top of itself, while there is room,  *)
(* or end, which gives control back to the one beneath.  The processes at  *)
(* the bottom are the shells of the terminals: none of them ever ends      *)
(* without a new shell taking its place.                                   *)
(***************************************************************************)
EXTENDS Integers, Sequences

CONSTANTS Capacity,   \* how many processes there may be, a natural number
          Base,       \* how many shells are kept at the bottom
          Programs,
          Shell

VARIABLES procs,      \* the program of each process, bottom first
          restarting  \* a base shell has ended and is being replaced

stackVars == <<procs, restarting>>

StackInit == procs = <<>> /\ restarting = FALSE

Launch(program) ==
    /\ Len(procs) < Capacity
    /\ restarting \/ Len(procs) < Base => program = Shell
    /\ procs' = Append(procs, program)
    /\ restarting' = FALSE

Exit ==
    /\ procs # <<>>
    /\ ~restarting
    /\ procs' = SubSeq(procs, 1, Len(procs) - 1)
    /\ restarting' = (Len(procs) <= Base)

StackNext == Exit \/ \E program \in Programs : Launch(program)

StackSpec == StackInit /\ [][StackNext]_stackVars

=============================================================================
