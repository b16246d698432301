---------------------------- MODULE MCExceptions ----------------------------
(* Instances of Exceptions for TLC.                                        *)
EXTENDS Exceptions

(* Bound: what follows a hazard of Processes is not explored.              *)
StopAtHazard == hazards = {}

(* Bound: no program is in read_terminal.                                  *)
NoReader == \A p \in Pid : at[p] \notin {"read", "spin"}

-----------------------------------------------------------------------------
(* What the comment says and the code does not do.                         *)

(* halt: "return 256 if an exception is raised" (system_call.c:38), to the *)
(* parent of the program that raised it.                                   *)
ExceptionGives256 ==
    [][ (hazards = {} /\ at[cpu] = "leaving" /\ at'[cpu] = "gone" /\ guilty[cpu])
           => eax' = "256" ]_allVars
=============================================================================
