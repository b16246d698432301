---------------------------- MODULE Descriptors ----------------------------
(***************************************************************************)
(* File descriptors: open, close and read of system_call.c with file_read  *)
(* and directory_read of file_system.c.  Each process has a table in its   *)
(* PCB; which PCB a call works on depends on the function: that of the     *)
(* executing terminal's program (open, close, halt), of the visible one's  *)
(* (read), or of get_current_pid (file_read, directory_read).              *)
(*                                                                         *)
(* The processes are those of Sessions, the specification that Processes   *)
(* implements until one of its hazards strikes.  Descriptors 0 and 1 are   *)
(* open in every process, and left out; so are the clock's descriptors,    *)
(* which have no position.                                                 *)
(***************************************************************************)
EXTENDS Integers, FiniteSets

CONSTANTS
    N,          \* MAX_PROCESS_NUM
    T,          \* TERMINAL_NUM
    FD,         \* MAX_FD_NUM, 8 in the kernel
    File,       \* files, of one kind: regular files or directories
    Length,     \* bytes in a file, names in a directory
    Request     \* the numbers of them a read may ask for

ASSUME DescriptorsAssumption ==
    /\ N \in Nat /\ T \in Nat /\ 1 <= T /\ T <= N
    /\ FD \in Nat
    /\ Length \in Nat
    /\ Request \subseteq Nat

Pid      == 0 .. N - 1
Terminal == 0 .. T - 1
Slot     == 2 .. FD - 1
NoPid    == -1
NoFile   == "none"

VARIABLES
    caller, root, top, turn, intact,    \* the processes, see Sessions
    visible,    \* curr_terminal_visible
    fd,         \* PCB of p: fd[i]
    at,         \* where p is in read, with its locals
    got,        \* history: what p has been given from descriptor i
    hazards     \* history: the hazardous things that have happened

processes == <<caller, root, top, turn, intact>>
vars      == <<processes, visible, fd, at, got, hazards>>

Session == INSTANCE Sessions WITH
    Program <- Pid, Term <- Terminal, First <- 0, None <- NoPid

Running == top[turn]

(* process[], and get_pid and get_current_pid as in Processes.             *)
process    == Session!Busy
LowestFree == {q \in Pid \ process : \A r \in Pid \ process : q <= r}
CurrentPid == IF process = Pid THEN {N - 1}
              ELSE {IF q = 0 THEN 0 ELSE q - 1 : q \in LowestFree}

Closed     == [flag |-> 0, inode |-> NoFile, file_position |-> 0]
Opened(f)  == [flag |-> 1, inode |-> f, file_position |-> 0]
EmptyTable == [i \in Slot |-> Closed]
InUser     == [pc |-> "user"]

Cause(hazard, cond) == IF cond THEN {hazard} ELSE {}

-----------------------------------------------------------------------------
(* After boot.                                                             *)
Init ==
    /\ caller = [p \in Pid |-> NoPid]
    /\ root = [t \in Terminal |-> IF t = 0 THEN 0 ELSE NoPid]
    /\ top = root
    /\ turn = 0
    /\ intact = TRUE
    /\ visible = 0
    /\ fd = [p \in Pid |-> EmptyTable]
    /\ at = [p \in Pid |-> InUser]
    /\ got = [p \in Pid |-> [i \in Slot |-> 0]]
    /\ hazards = {}

AtUser == at[Running] = InUser

(* execute: a fresh process on top of the terminal, its table as the last  *)
(* process with this pid has left it.                                      *)
Execute ==
    /\ AtUser
    /\ LET unopened == T - Cardinality(Session!Open) IN
          unopened > 0 => unopened < N - Cardinality(process)
    /\ \E q \in LowestFree : Session!Push(q)
    /\ UNCHANGED <<visible, fd, at, got, hazards>>

(* Mutant: the last descriptor is not reset.                               *)
Halt_OffByOne ==
    /\ AtUser /\ Session!Pop
    /\ fd' = [fd EXCEPT ![Running] =
                 [i \in Slot |-> IF i = FD - 1 THEN @[i] ELSE Closed]]
    /\ got' = [got EXCEPT ![Running] = [i \in Slot |-> 0]]
    /\ UNCHANGED <<visible, at, hazards>>

(* halt resets the table, and then calls close with a variable that has no *)
(* value: whatever it holds, it is a descriptor of the parent, which the   *)
(* terminal already runs.                                                  *)
Halt ==
    /\ AtUser /\ Session!Pop
    /\ \E garbage \in Slot \cup {-1} :
          LET parent == caller[Running]
              closes == garbage # -1 /\ fd[parent][garbage].flag = 1 IN
          /\ fd' = [p \in Pid |->
                      IF p = Running THEN EmptyTable
                      ELSE IF p = parent /\ closes
                           THEN [fd[p] EXCEPT ![garbage] = Closed]
                      ELSE fd[p]]
          /\ hazards' = hazards \cup Cause("close", closes)
    /\ got' = [got EXCEPT ![Running] = [i \in Slot |-> 0]]
    /\ UNCHANGED <<visible, at>>

(* open: the first free descriptor.  The base shells open no files.        *)
Free == {i \in Slot : fd[Running][i].flag = 0}

Open(f) ==
    /\ AtUser /\ Running # root[turn]
    /\ \E i \in Free :
          /\ \A j \in Free : i <= j
          /\ fd' = [fd EXCEPT ![Running][i] = Opened(f)]
          /\ got' = [got EXCEPT ![Running][i] = 0]
    /\ UNCHANGED <<processes, visible, at, hazards>>

(* Mutant: the PCB of the visible terminal's program.                      *)
Close_Visible(i) ==
    /\ AtUser
    /\ fd[top[visible]][i].flag = 1
    /\ fd' = [fd EXCEPT ![top[visible]][i] = Closed]
    /\ got' = [got EXCEPT ![top[visible]][i] = 0]
    /\ UNCHANGED <<processes, visible, at, hazards>>

Close(i) ==
    /\ AtUser
    /\ fd[Running][i].flag = 1
    /\ fd' = [fd EXCEPT ![Running][i] = Closed]
    /\ got' = [got EXCEPT ![Running][i] = 0]
    /\ UNCHANGED <<processes, visible, at, hazards>>

(* read: looks the descriptor up in the visible terminal's program, ...    *)
Read(i, n) ==
    /\ AtUser
    /\ LET open == fd[top[visible]][i].flag = 1 IN
       /\ at' = IF open
                THEN [at EXCEPT ![Running] = [pc |-> "called", fd |-> i, nbytes |-> n]]
                ELSE at
       /\ hazards' = hazards \cup
             Cause("visible", open # (fd[Running][i].flag = 1))
    /\ UNCHANGED <<processes, visible, fd, got>>

(* ... file_read and directory_read take that of get_current_pid ...       *)
FindPcb ==
    /\ at[Running].pc = "called"
    /\ \E c \in CurrentPid :
          /\ at' = [at EXCEPT ![Running] =
                      [pc |-> "found", fd |-> @.fd, nbytes |-> @.nbytes, pcb |-> c]]
          /\ hazards' = hazards \cup Cause("current", c # Running)
    /\ UNCHANGED <<processes, visible, fd, got>>

(* ... read what is there at its position ...                              *)
BytesRead(position, n) ==
    IF n < Length - position THEN n ELSE Length - position

ReadData ==
    /\ at[Running].pc = "found"
    /\ LET r == at[Running]
           n == BytesRead(fd[r.pcb][r.fd].file_position, r.nbytes) IN
       /\ at' = [at EXCEPT ![Running] =
                   [pc |-> "copied", fd |-> r.fd, nbytes |-> r.nbytes,
                    pcb |-> r.pcb, bytes_read |-> n]]
       /\ got' = [got EXCEPT ![Running][r.fd] = @ + n]
    /\ UNCHANGED <<processes, visible, fd, hazards>>

(* Mutant: the position moves on by what was asked for.                    *)
Advance_Asked ==
    /\ at[Running].pc = "copied"
    /\ LET r == at[Running] IN
       fd' = [fd EXCEPT ![r.pcb][r.fd].file_position = @ + r.nbytes]
    /\ at' = [at EXCEPT ![Running] = InUser]
    /\ UNCHANGED <<processes, visible, got, hazards>>

(* ... and move the position on.                                           *)
Advance ==
    /\ at[Running].pc = "copied"
    /\ LET r == at[Running] IN
       fd' = [fd EXCEPT ![r.pcb][r.fd].file_position = @ + r.bytes_read]
    /\ at' = [at EXCEPT ![Running] = InUser]
    /\ UNCHANGED <<processes, visible, got, hazards>>

(* The timer, and the keys Alt-F1 to Alt-F3, between any two steps.        *)
PIT_handler ==
    /\ \E t \in Terminal : Session!Schedule(t)
    /\ UNCHANGED <<visible, fd, at, got, hazards>>

SwitchTo(t) ==
    /\ t # visible /\ visible' = t
    /\ IF root[t] # NoPid THEN UNCHANGED processes
       ELSE \E q \in LowestFree : Session!OpenShell(t, q)
    /\ UNCHANGED <<fd, at, got, hazards>>

Next ==
    \/ Execute \/ Halt
    \/ \E f \in File : Open(f)
    \/ \E i \in Slot : Close(i) \/ \E n \in Request : Read(i, n)
    \/ FindPcb \/ ReadData \/ Advance
    \/ PIT_handler
    \/ \E t \in Terminal : SwitchTo(t)

Spec == Init /\ [][Next]_vars

-----------------------------------------------------------------------------
TypeOK ==
    /\ fd \in [Pid -> [Slot -> [flag : {0, 1}, inode : File \cup {NoFile},
                                file_position : 0 .. Length]]]
    /\ \A p \in Pid : at[p].pc \in {"user", "called", "found", "copied"}
    /\ visible \in Session!Open
    /\ hazards \subseteq {"visible", "current", "close"}

(* A process starts with no open descriptor: the table of a pid that is    *)
(* not in use is empty, although execute initialises descriptors 0 and 1   *)
(* only (system_call.c:80-86, 285-294).                                    *)
FreshTable == \A p \in Pid \ process : \A i \in Slot : fd[p][i].flag = 0

(* Reads are sequential: the position of an open descriptor is what its    *)
(* process has been given from it, so no byte is skipped or given twice,   *)
(* whatever other programs read meanwhile - as long as every read finds    *)
(* the reader's own PCB (file_system.c:197-205).                           *)
ReadsSequential ==
    hazards = {} =>
        \A p \in process : \A i \in Slot :
            LET r == at[p]
                ahead == IF r.pc = "copied" THEN
                            IF r.fd = i THEN r.bytes_read ELSE 0 ELSE 0 IN
            fd[p][i].flag = 1 => fd[p][i].file_position + ahead = got[p][i]

(* No step changes another process's table (system_call.c:74-88, 445-490,  *)
(* 533-552).                                                               *)
Isolation ==
    [][ hazards' = {} =>
          \A p \in Pid \ {Running} : fd'[p] = fd[p] ]_vars
=============================================================================
