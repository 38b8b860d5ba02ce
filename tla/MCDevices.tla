----------------------------- MODULE MCDevices -----------------------------
(***************************************************************************)
(* Instances of Devices for TLC: the code's own number of launches, the    *)
(* lowest and highest frequency of the clock, one in between and two that  *)
(* rtc_write refuses.                                                      *)
(***************************************************************************)
EXTENDS Devices

SomeFreqs == {0, 2, 3, 64, 1024}
NoIrqs == {}
ClockToo == {RTC_IRQ}
=============================================================================
