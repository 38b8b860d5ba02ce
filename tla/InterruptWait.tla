--------------------------- MODULE InterruptWait ---------------------------
(***************************************************************************)
(* What rtc_read promises (rtc.c 100-103): "waits for periodic rtc         *)
(* interrupt to occur".  Interrupts from before the wait do not count.     *)
(***************************************************************************)
VARIABLES waiting, come

Init == ~waiting /\ ~come

Call == ~waiting /\ waiting' /\ ~come'
Interrupt == waiting /\ come' /\ UNCHANGED waiting
Return == waiting /\ come /\ ~waiting' /\ ~come'

WaitSpec == Init /\ [][Call \/ Interrupt \/ Return]_<<waiting, come>>
=============================================================================
