---------------------------- MODULE MCProcesses ----------------------------
(* Instances of Processes for TLC.                                         *)
EXTENDS Processes

(* Bound: what follows a hazard is not explored.                           *)
StopAtHazard == hazards = {}

(* Bound: at most one program at a time is in read_terminal or halt.       *)
OneBusy ==
    Cardinality({p \in Pid : at[p] \in {"read", "spin"} \cup HaltPoints}) <= 1

-----------------------------------------------------------------------------
(* What the documentation says and the code does not do.  Each claim is    *)
(* made of the machines in which no other hazard has struck.               *)

(* Opening a terminal leaves the sessions of the others as they are: every *)
(* program that a timer tick has put to sleep can be resumed               *)
(* (README.md:17).                                                         *)
OpeningKeepsSessions ==
    hazards \subseteq {"stale"} /\ ~lost =>
        \A t \in active \ {curr_terminal_executing} :
            LET context == esp[program_pid[t]] IN
            context.kind \in {"user", "read"} => Resumable(context, at)

(* A terminal that is in use runs programs of its own: the user program on *)
(* the CPU is the one the executing terminal names (README.md:9).          *)
SessionsConcurrent ==
    hazards \subseteq {"jam"} /\ AtUser => Running = cpu

(* halt frees its PCB when it is done with it (system_call.c:28, 68).      *)
HaltKeepsStack == hazards \subseteq {"reuse"} => ~lost

(* base_pid is the pid of the terminal's base shell (terminal.c:255).      *)
BasePidIsShell ==
    hazards \subseteq {"base"} => \A t \in active : base_pid[t] \in process
=============================================================================
