--------------------------- MODULE MCDescriptors ---------------------------
(* Instances of Descriptors for TLC.                                       *)
EXTENDS Descriptors

(* Bound: what follows a hazard is not explored.                           *)
StopAtHazard == hazards = {}

-----------------------------------------------------------------------------
(* What the documentation says and the code does not do.                   *)

(* Terminals run tasks concurrently (README.md:9): a program reads the     *)
(* file it has opened, from where it last stopped, although the visible    *)
(* terminal is another.                                                    *)
ReadsOwnFile ==
    hazards \subseteq {"visible", "current"} =>
        \A p \in process : \A i \in Slot :
            (fd[p][i].flag = 1 /\ at[p] = InUser) =>
                fd[p][i].file_position = got[p][i]

(* halt closes the descriptors of the program that halts                   *)
(* (system_call.c:76-87), not its parent's.                                *)
HaltClosesOwn ==
    [][ (hazards \subseteq {"close"} /\ caller[Running] \in Pid /\ top'[turn] # Running) =>
          fd'[caller[Running]] = fd[caller[Running]] ]_vars
=============================================================================
