--------------------------- MODULE MCCommandLine ---------------------------
(* Instances of CommandLine for TLC.                                       *)
EXTENDS CommandLine, TLC

(* Bound: what follows a hazard is not explored.                           *)
StopAtHazard == hazards = {}

(* The code compares letters, and that is all.                             *)
Letters == Permutations(Letter)

-----------------------------------------------------------------------------
(* What a comment says and the code does not do.                           *)

(* "Is the file an EXE?" (system_call.c:226): what execute starts is.      *)
StartsExecutables ==
    \A t \in Terminal : program[t] # None => header[program[t]] = "exe"
=============================================================================
