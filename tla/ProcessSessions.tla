-------------------------- MODULE ProcessSessions --------------------------
(***************************************************************************)
(* Processes implements Sessions: the program on top of a terminal is the  *)
(* one program_pid names, its caller the one parent_id names, and the root *)
(* the one base_pid names.                                                 *)
(***************************************************************************)
EXTENDS MCProcesses

Intact == hazards = {}

(* The programs on some terminal: halt clears process[] one step before    *)
(* the terminal goes back to the parent.                                   *)
OnTerminal == process \cup {p \in Pid : at[p] = "freed"}
BaseShell  == {base_pid[t] : t \in active}
Called     == OnTerminal \ BaseShell

Caller == [p \in Pid |-> IF Intact /\ p \in Called THEN parent_id[p] ELSE NoPid]
Root   == [t \in Terminal |-> IF Intact /\ t \in active THEN base_pid[t] ELSE NoPid]
Top    == [t \in Terminal |-> IF Intact /\ t \in active THEN program_pid[t] ELSE NoPid]
Turn   == IF Intact THEN curr_terminal_executing ELSE 0

Promise == INSTANCE Sessions WITH
    Program <- Pid, Term <- Terminal, First <- 0, None <- NoPid,
    caller <- Caller, root <- Root, top <- Top, turn <- Turn, intact <- Intact

(* Until a hazard strikes, execute and halt change the session of the      *)
(* terminal that calls them alone, and only its top: no timer tick, key or *)
(* program of another terminal ever changes what a terminal runs           *)
(* (system_call.c:66-75, 276-296; terminal.c:346-355).                     *)
ImplementsSessions == Promise!Spec

(* The sessions are stacks, and the process table is exact: a program that *)
(* has a process[] entry is on top of one terminal or waits for one        *)
(* program it called, and not both; a pid without an entry is neither.  No *)
(* entry leaks, none is freed while a session needs it (system_call.c:69,  *)
(* 276-296, 673-676).                                                      *)
TableExact ==
    Intact => \A p \in Pid :
        Cardinality({t \in active : program_pid[t] = p})
            + Cardinality({q \in Called : parent_id[q] = p})
        = IF p \in OnTerminal THEN 1 ELSE 0
=============================================================================
