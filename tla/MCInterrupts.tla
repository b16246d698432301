---------------------------- MODULE MCInterrupts ----------------------------
(* Instances of Interrupts for TLC.                                        *)
EXTENDS Interrupts

(* Bound: what follows a hazard is not explored.                           *)
StopAtHazard == hazards = {}

-----------------------------------------------------------------------------
(* What a comment says and the machine does not do.                        *)

(* "master and slave shall be initialized to all mask up" (i8259.c:9): no  *)
(* line is unmasked before enable_irq is called for it.                    *)
InitiallyMasked == booted > 0 => Line \ imr \subseteq {0, 1, 2, 8}
=============================================================================
