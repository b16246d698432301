------------------------------- MODULE MCRtc -------------------------------
(* Instances of Rtc for TLC.                                               *)
EXTENDS Rtc

(* Every frequency RTC_write accepts, and those around the limits.         *)
AllFrequencies == -1 .. 1026

-----------------------------------------------------------------------------
(* What the comment says and the code does not do.                         *)

(* RTC_read returns after the first interrupt that comes: "wait for a      *)
(* cycle of interrupt when read is called" (rtc.c:88).                     *)
OneCycle == \A p \in Program : (pc[p] = "wait" /\ seen[p] > 0) => fg = 0
=============================================================================
