----------------------------- MODULE Exceptions -----------------------------
(***************************************************************************)
(* Exceptions of user programs (idt.c) and the status that execute returns *)
(* (halt in system_call.c), over the processes, stacks and the scheduler   *)
(* of Processes.  The handlers are trap gates: from the exception to the   *)
(* jump that ends halt, ticks and keys interrupt at every step, and all    *)
(* programs share one exception_flag.                                      *)
(***************************************************************************)
EXTENDS Processes

VARIABLES
    exception_flag,
    phase,          \* of the thread on each stack: see Phases
    local_status,   \* of the halt running on it: its own status, or 256
    eax,            \* what a system call has just returned
    guilty,         \* history: it is in halt because of an exception
    overlap         \* history: two programs used the flag at a time

(* run, or before halt's test of the flag with the flag raised, or between *)
(* the test and the assignment that resets it.                             *)
Phases == {"run", "raised", "tested"}

status  == <<exception_flag, phase, local_status, eax, guilty, overlap>>
allVars == <<vars, status>>

Goto(p, ph) == phase' = [phase EXCEPT ![p] = ph]

ExceptionInit ==
    /\ Init
    /\ exception_flag = FALSE
    /\ phase = [p \in Pid |-> "run"]
    /\ local_status = [p \in Pid |-> "own"]
    /\ eax = "none"
    /\ guilty = [p \in Pid |-> FALSE]
    /\ overlap = FALSE

-----------------------------------------------------------------------------
(* A program faults: a message, and raise_exception.                       *)
Raise ==
    /\ AtUser /\ phase[cpu] = "run"
    /\ exception_flag' = TRUE
    /\ Goto(cpu, "raised")
    /\ overlap' = (overlap \/ \E p \in Pid : phase[p] # "run")
    /\ eax' = "none"
    /\ UNCHANGED <<vars, local_status, guilty>>

(* A system call the table of system_call_handler has no entry for: -1 if  *)
(* its number fails the range check; 9 and 10 pass it, and jump to what    *)
(* follows the table, which is not an address of the kernel: a page fault. *)
Entry(number) == IF number \notin 1 .. 10 THEN "fail"
                 ELSE IF number <= 8 THEN "served" ELSE "wild"

SystemCall(number) ==
    \/ Entry(number) = "wild" /\ Raise
    \/ /\ Entry(number) = "fail"
       /\ AtUser /\ phase[cpu] = "run"
       /\ eax' = "-1"
       /\ UNCHANGED <<vars, exception_flag, phase, local_status, guilty, overlap>>

(* halt, called by the program or by the handler, tests the flag.          *)
HaltTest ==
    /\ AtUser /\ phase[cpu] \in {"run", "raised"}
    /\ local_status' = [local_status EXCEPT ![cpu] =
                          IF exception_flag THEN "256" ELSE "own"]
    /\ guilty' = [guilty EXCEPT ![cpu] = phase[cpu] = "raised"]
    /\ Goto(cpu, "tested")
    /\ overlap' = (overlap \/ \E p \in Pid \ {cpu} : phase[p] # "run")
    /\ eax' = "none"
    /\ UNCHANGED <<vars, exception_flag>>

(* Mutant: the flag is not reset.                                          *)
HaltReset_Left ==
    /\ AtUser /\ phase[cpu] = "tested"
    /\ HaltBase \/ HaltEnter
    /\ Goto(cpu, "run")
    /\ eax' = "none"
    /\ UNCHANGED <<exception_flag, local_status, guilty, overlap>>

(* It resets the flag if it was set, and goes on.                          *)
HaltReset ==
    /\ AtUser /\ phase[cpu] = "tested"
    /\ HaltBase \/ HaltEnter
    /\ exception_flag' = (exception_flag /\ local_status[cpu] # "256")
    /\ Goto(cpu, "run")
    /\ eax' = "none"
    /\ UNCHANGED <<local_status, guilty, overlap>>

(* The parent's execute returns local_status.                              *)
HaltReturn ==
    /\ HaltJump
    /\ eax' = local_status[cpu]
    /\ local_status' = [local_status EXCEPT ![cpu] = "own"]
    /\ guilty' = [guilty EXCEPT ![cpu] = FALSE]
    /\ UNCHANGED <<exception_flag, phase, overlap>>

(* Every other step of a program, and every interrupt.                     *)
Others ==
    /\ \/ /\ phase[cpu] = "run"
          /\ \/ Execute \/ Write \/ ReadBegin
             \/ HaltFree \/ HaltRestore \/ HaltMap
             \/ ReadLine \/ ReadReturn \/ ReadCut
       \/ PIT_handler
       \/ \E t \in Terminal : SwitchTo(t) \/ Open(t)
       \/ Lost
    /\ eax' = "none"
    /\ UNCHANGED <<exception_flag, phase, local_status, guilty, overlap>>

ExceptionNext ==
    \/ Raise \/ \E number \in 0 .. 11 : SystemCall(number)
    \/ HaltTest \/ HaltReset \/ HaltReturn \/ Others

ExceptionSpec == ExceptionInit /\ [][ExceptionNext]_allVars

-----------------------------------------------------------------------------
(* The flag is raised only while some program is between its exception and *)
(* the reset in its halt: whatever interrupts them and in whatever order   *)
(* they halt, no program that starts halting later is blamed for an        *)
(* exception that is over (system_call.c:36-42).                           *)
FlagInUse == exception_flag => \E p \in Pid : phase[p] # "run"

(* Unless two programs are between exception or test and reset at the same *)
(* time, execute returns 256 exactly for a program that ended in an        *)
(* exception, and its own status for any other, to the program that called *)
(* it (system_call.c:36-42, 99-112).                                       *)
StatusRight ==
    [][ (hazards = {} /\ ~overlap /\ at[cpu] = "leaving" /\ at'[cpu] = "gone")
           => eax' = IF guilty[cpu] THEN "256" ELSE "own" ]_allVars
=============================================================================
