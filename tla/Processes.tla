----------------------------- MODULE Processes -----------------------------
(***************************************************************************)
(* Processes, their kernel stacks and the terminals that run them:         *)
(* execute and halt (system_call.c), the scheduler PIT_handler             *)
(* (scheduling.c), and the part of the terminal driver that starts,        *)
(* switches and synchronises programs (terminal.c).                        *)
(*                                                                         *)
(* Every program has one kernel stack (the 8 KB below 8 MB - 8 KB * pid,   *)
(* its PCB at the bottom of it), so a thread of the machine is named by    *)
(* the pid of the stack it runs on.  What is kept of a thread is the place *)
(* where it stands, because that decides whether a saved esp/ebp pair      *)
(* still points at what was there when it was saved.                       *)
(***************************************************************************)
EXTENDS Integers, FiniteSets

CONSTANTS
    N,      \* MAX_PROCESS_NUM, 6 in the kernel
    T       \* TERMINAL_NUM, 3 in the kernel

ASSUME NTAssumption == N \in Nat /\ T \in Nat /\ 1 <= T /\ T <= N

Pid      == 0 .. N - 1
Terminal == 0 .. T - 1
NoPid    == -1

(***************************************************************************)
(* Where the thread on a kernel stack stands:                              *)
(*   none       the stack has never been used                              *)
(*   user       in user mode (or in a system call that cannot block)       *)
(*   read       in read_terminal, waiting for a line                       *)
(*   spin       in read_terminal, line found, waiting to be the visible one*)
(*   exec       in execute, waiting for the child's halt                   *)
(*   restart    in the execute("shell") that halt calls for a base shell   *)
(*   halting    in halt, before process[] is cleared     (IF = 1 in all    *)
(*   freed      after process[pid] = 0                    four of them:    *)
(*   restored   after program_pid = parent                halt never       *)
(*   leaving    after map_physical_memory(parent)         calls cli here)  *)
(*   gone       the program halted, the stack is unused                    *)
(* "boot" and "kbd" only occur in saved frames: the execute("shell") of    *)
(* entry() and the one of switch_terminal, inside the keyboard interrupt.  *)
(***************************************************************************)
HaltPoints    == {"halting", "freed", "restored", "leaving"}
Interruptible == {"user", "read", "spin"} \cup HaltPoints
Points        == Interruptible \cup {"none", "exec", "restart", "gone"}

(* Two places at the same depth of a stack: a frame saved at one of them   *)
(* lies where the interrupt that suspends the thread at the other leaves   *)
(* its own, and restores that one.                                         *)
Depth(a) == IF a \in HaltPoints THEN "halt"
            ELSE IF a = "spin" THEN "read" ELSE a

FrameKinds == {"user", "read", "halt", "exec", "restart", "kbd", "boot"}
Frame      == [stack : Pid, kind : FrameKinds]

VARIABLES
    process,    \* {p : process[p] = 1}
    active,     \* {t : multi_terminal[t].active = 1}
    base_pid,   \* multi_terminal[t].base_pid
    program_pid,                \* multi_terminal[t].program_pid
    curr_terminal_visible,
    curr_terminal_executing,
    next_terminal_executing,
    jammer,
    hotjam,
    parent_id,  \* PCB of p: parent_id
    parent_esp, \* PCB of p: parent_esp and parent_ebp
    esp,        \* PCB of p: esp and ebp
    locals,     \* of the halt running on stack p: curr_pid and parent_pcb
    mapped,     \* the program page of the page directory, and tss.esp0
    cpu,        \* the kernel stack of the running thread
    at,         \* where the thread of each stack stands
    lost,       \* the machine runs something no thread left off
    hazards     \* history: the hazardous things that have happened

terminals == <<active, base_pid, program_pid, curr_terminal_visible>>
schedule  == <<curr_terminal_executing, next_terminal_executing>>
flags     == <<jammer, hotjam>>
pcbs      == <<parent_id, parent_esp, esp>>
threads   == <<locals, mapped, cpu, at, lost>>
vars      == <<process, terminals, schedule, flags, pcbs, threads, hazards>>

Hazards == {"jam", "stale", "reuse", "base"}

-----------------------------------------------------------------------------
(* get_pid: the lowest process[] entry that is 0.  A set, empty when the   *)
(* table is full and get_pid returns -1.                                   *)
LowestFree(procs) == {q \in Pid \ procs : \A r \in Pid \ procs : q <= r}

(* Mutant: the lowest free entry itself.                                   *)
CurrentPid_Free(procs) == IF procs = Pid THEN {N - 1} ELSE LowestFree(procs)

(* get_current_pid: the entry below the lowest free one.                   *)
CurrentPid(procs) ==
    IF procs = Pid THEN {N - 1}
    ELSE {IF q = 0 THEN 0 ELSE q - 1 : q \in LowestFree(procs)}

(* The pid switch_terminal writes down for the shell it is about to start. *)
NextShellPid(procs) == {p + 1 : p \in CurrentPid(procs)}

(* Mutant: the check allows one process too many.                          *)
TooMany_OffByOne(act, procs) ==
    \/ /\ Cardinality(act) < T
       /\ T - Cardinality(act) > N - Cardinality(procs)
    \/ procs = Pid

(* The process table check of execute: while a terminal is not active, a   *)
(* process must stay free for its shell.                                   *)
TooMany(act, procs) ==
    \/ /\ Cardinality(act) < T
       /\ T - Cardinality(act) >= N - Cardinality(procs)
    \/ procs = Pid

(* Mutant: the scan starts at n itself.                                    *)
NextActive_Same(n)   == IF n \in active THEN n ELSE (n + 1) % T

(* PIT_handler's scan: the first terminal in use after n, or n itself.     *)
NextActive(n) ==
    IF \E i \in 1 .. T : (n + i) % T \in active
    THEN CHOOSE t \in active :
            \E i \in 1 .. T : /\ t = (n + i) % T
                              /\ \A j \in 1 .. i - 1 : (n + j) % T \notin active
    ELSE n

(* The locals of a thread that is not in halt (any value would do).        *)
NoLocals == [curr_pid |-> 0, parent_pcb |-> 0]

Saved(s, a) == [stack |-> s, kind |-> Depth(a)]
AtUser      == ~lost /\ at[cpu] = "user"
Running     == program_pid[curr_terminal_executing]

(* Another thread still stands on the stack of pid q.                      *)
StackInUse(q) == at[q] \notin {"none", "gone"}

Cause(hazard, cond) == IF cond THEN {hazard} ELSE {}

-----------------------------------------------------------------------------
(* After boot: entry() has run init_terminal, init_PIT and                 *)
(* execute("shell"); the shell of terminal 0 is in user mode.              *)
Init ==
    /\ process = {0}
    /\ active = {0}
    /\ base_pid = [t \in Terminal |-> IF t = 0 THEN 0 ELSE NoPid]
    /\ program_pid = [t \in Terminal |-> IF t = 0 THEN 0 ELSE NoPid]
    /\ curr_terminal_visible = 0
    /\ curr_terminal_executing = 0
    /\ next_terminal_executing = 0
    /\ jammer = FALSE
    /\ hotjam = FALSE
    /\ parent_id = [p \in Pid |-> 0]
    /\ parent_esp = [p \in Pid |-> [stack |-> 0, kind |-> "boot"]]
    /\ esp = [p \in Pid |-> [stack |-> 0, kind |-> "boot"]]
    /\ locals = [p \in Pid |-> NoLocals]
    /\ mapped = 0
    /\ cpu = 0
    /\ at = [p \in Pid |-> IF p = 0 THEN "user" ELSE "none"]
    /\ lost = FALSE
    /\ hazards = {}

-----------------------------------------------------------------------------
(* execute, once a pid q is allocated: page, PCB with the frame of the     *)
(* execute itself as both the parent's and the own saved context, then     *)
(* iret into the new program.  `callerAt` is where the caller's stack is   *)
(* left standing.                                                          *)
StartProgram(parent, q, frame, callerAt) ==
    /\ parent_id' = [parent_id EXCEPT ![q] = parent]
    /\ parent_esp' = [parent_esp EXCEPT ![q] = frame]
    /\ esp' = [esp EXCEPT ![q] = frame]
    /\ mapped' = q
    /\ cpu' = q
    /\ at' = [at EXCEPT ![cpu] = callerAt, ![q] = "user"]

(* A user program calls execute.  When execute returns 0 because of jammer *)
(* or -1 (no such file, no free process) nothing in this state changes.    *)
Execute ==
    /\ AtUser
    /\ ~jammer \/ hotjam
    /\ ~TooMany(active, process)
    /\ \E q \in LowestFree(process) :
          /\ process' = process \cup {q}
          /\ program_pid' =
                [program_pid EXCEPT ![curr_terminal_executing] = q]
          /\ StartProgram(Running, q,
                          [stack |-> cpu, kind |-> "exec"], "exec")
          /\ hazards' = hazards \cup Cause("reuse", StackInUse(q))
    /\ UNCHANGED <<active, base_pid, curr_terminal_visible, schedule, flags,
                   locals, lost>>

-----------------------------------------------------------------------------
(* halt of a terminal's base shell: one cli'd sequence that frees the pid  *)
(* and restarts the shell on a new one, without recording it in base_pid.  *)
HaltBase ==
    /\ AtUser
    /\ Running = base_pid[curr_terminal_executing]
    /\ hotjam' = TRUE
    /\ active' = active \cup {curr_terminal_executing}
    /\ LET freed == process \ {Running} IN
       IF ~TooMany(active', freed)
       THEN \E q \in LowestFree(freed) :
              /\ process' = freed \cup {q}
              /\ program_pid' =
                    [program_pid EXCEPT ![curr_terminal_executing] = q]
              /\ StartProgram(Running, q,
                              [stack |-> cpu, kind |-> "restart"], "restart")
              /\ hazards' = hazards
                    \cup Cause("base", q # Running)
                    \cup Cause("reuse", q # cpu /\ StackInUse(q))
       ELSE /\ process' = freed
            /\ at' = [at EXCEPT ![cpu] = "halting"]
            /\ UNCHANGED <<program_pid, pcbs, mapped, cpu, hazards>>
    /\ locals' = [locals EXCEPT ![cpu] =
                    [curr_pid |-> Running, parent_pcb |-> parent_id[Running]]]
    /\ UNCHANGED <<base_pid, curr_terminal_visible, schedule, jammer, lost>>

(* halt of any other program, up to the local variables.                   *)
HaltEnter ==
    /\ AtUser
    /\ Running # base_pid[curr_terminal_executing]
    /\ locals' = [locals EXCEPT ![cpu] =
                    [curr_pid |-> Running, parent_pcb |-> parent_id[Running]]]
    /\ at' = [at EXCEPT ![cpu] = "halting"]
    /\ UNCHANGED <<process, terminals, schedule, flags, pcbs, mapped, cpu,
                   lost, hazards>>

(* Mutant: the process table entry is not cleared.                         *)
HaltFree_Leak ==
    /\ ~lost /\ at[cpu] = "halting"
    /\ process' = process
    /\ at' = [at EXCEPT ![cpu] = "freed"]
    /\ UNCHANGED <<terminals, schedule, flags, pcbs, locals, mapped, cpu,
                   lost, hazards>>

(* process[program_pid] = 0                                                *)
HaltFree ==
    /\ ~lost /\ at[cpu] = "halting"
    /\ process' = process \ {Running}
    /\ at' = [at EXCEPT ![cpu] = "freed"]
    /\ UNCHANGED <<terminals, schedule, flags, pcbs, locals, mapped, cpu,
                   lost, hazards>>

(* Mutants: the terminal returns to its base shell, what the comment on    *)
(* parent_id says; the parent is restored only once the terminal is        *)
(* visible, the wait that halt has commented out.                          *)
HaltRestore_Base ==
    /\ ~lost /\ at[cpu] = "freed"
    /\ program_pid' = [program_pid EXCEPT ![curr_terminal_executing] =
                          base_pid[curr_terminal_executing]]
    /\ at' = [at EXCEPT ![cpu] = "restored"]
    /\ UNCHANGED <<process, active, base_pid, curr_terminal_visible, schedule,
                   flags, pcbs, locals, mapped, cpu, lost, hazards>>

HaltRestore_Wait ==
    /\ ~lost /\ at[cpu] = "freed"
    /\ curr_terminal_executing = curr_terminal_visible
    /\ program_pid' = [program_pid EXCEPT ![curr_terminal_executing] =
                          locals[cpu].parent_pcb]
    /\ at' = [at EXCEPT ![cpu] = "restored"]
    /\ UNCHANGED <<process, active, base_pid, curr_terminal_visible, schedule,
                   flags, pcbs, locals, mapped, cpu, lost, hazards>>

(* program_pid = parent_pcb->pid                                           *)
HaltRestore ==
    /\ ~lost /\ at[cpu] = "freed"
    /\ program_pid' = [program_pid EXCEPT ![curr_terminal_executing] =
                          locals[cpu].parent_pcb]
    /\ at' = [at EXCEPT ![cpu] = "restored"]
    /\ UNCHANGED <<process, active, base_pid, curr_terminal_visible, schedule,
                   flags, pcbs, locals, mapped, cpu, lost, hazards>>

(* Mutant: the parent's page is not mapped.                                *)
HaltMap_Unmapped ==
    /\ ~lost /\ at[cpu] = "restored"
    /\ mapped' = mapped
    /\ at' = [at EXCEPT ![cpu] = "leaving"]
    /\ UNCHANGED <<process, terminals, schedule, flags, pcbs, locals, cpu,
                   lost, hazards>>

(* map_physical_memory(parent), closing the files, tss.esp0                *)
HaltMap ==
    /\ ~lost /\ at[cpu] = "restored"
    /\ mapped' = locals[cpu].parent_pcb
    /\ at' = [at EXCEPT ![cpu] = "leaving"]
    /\ UNCHANGED <<process, terminals, schedule, flags, pcbs, locals, cpu,
                   lost, hazards>>

(***************************************************************************)
(* Loading esp and ebp from frame f while page m is mapped.  It restores a *)
(* thread when f lies where the thread of that stack was left, and user    *)
(* code only runs if its own page is mapped.  Anything else executes       *)
(* whatever the stack or the page holds: lost.                             *)
(***************************************************************************)
Resumable(f, stands) == Depth(stands[f.stack]) = f.kind

Resume(f, m, stands) ==
    LET ok == /\ Resumable(f, stands)
              /\ f.kind \in {"user", "exec"} => m = f.stack
        s == f.stack IN
    /\ lost' = ~ok
    /\ cpu' = IF ok THEN s ELSE cpu
    /\ at' = CASE ok /\ f.kind = "exec" -> [stands EXCEPT ![s] = "user"]
               [] ok /\ f.kind = "restart" -> [stands EXCEPT ![s] = "halting"]
               [] OTHER -> stands
    /\ locals' = IF ok /\ f.kind = "restart"
                 THEN [locals EXCEPT ![s].parent_pcb =
                          parent_id[locals[s].curr_pid]]
                 ELSE [p \in Pid |-> IF stands[p] = "gone" THEN NoLocals
                                     ELSE locals[p]]

(* The jump into the execute that started the program: its caller goes on. *)
HaltJump ==
    /\ ~lost /\ at[cpu] = "leaving"
    /\ Resume(parent_esp[locals[cpu].curr_pid], mapped,
              [at EXCEPT ![cpu] = "gone"])
    /\ UNCHANGED <<process, terminals, schedule, flags, pcbs, mapped, hazards>>

-----------------------------------------------------------------------------
(* Mutant: the executing terminal is changed before the context is saved.  *)
PIT_handler_SaveLate ==
    /\ ~lost /\ at[cpu] \in Interruptible
    /\ next_terminal_executing' = NextActive(next_terminal_executing)
    /\ curr_terminal_executing' = next_terminal_executing'
    /\ mapped' = program_pid[next_terminal_executing']
    /\ esp' = [esp EXCEPT ![mapped'] = Saved(cpu, at[cpu])]
    /\ Resume(esp'[mapped'], mapped', at)
    /\ UNCHANGED <<process, terminals, flags, parent_id, parent_esp, hazards>>

(* The timer interrupt.  It saves the context in the PCB of the program    *)
(* the executing terminal names, and loads that of the next terminal's.    *)
PIT_handler ==
    /\ ~lost /\ at[cpu] \in Interruptible
    /\ next_terminal_executing' = NextActive(next_terminal_executing)
    /\ curr_terminal_executing' = next_terminal_executing'
    /\ esp' = [esp EXCEPT ![Running] = Saved(cpu, at[cpu])]
    /\ mapped' = program_pid[next_terminal_executing']
    /\ Resume(esp'[mapped'], mapped', at)
    /\ UNCHANGED <<process, terminals, flags, parent_id, parent_esp, hazards>>

-----------------------------------------------------------------------------
(* Mutant: the terminal switched to need not be in use.                    *)
SwitchTo_Unchecked(t) ==
    /\ ~lost /\ at[cpu] \in Interruptible
    /\ t # curr_terminal_visible
    /\ jammer' = TRUE
    /\ curr_terminal_visible' = t
    /\ UNCHANGED <<process, active, base_pid, program_pid, schedule, hotjam,
                   pcbs, threads, hazards>>

(* Alt-F(t+1), interrupting the running thread: switch_terminal to a       *)
(* terminal that is in use ...                                             *)
SwitchTo(t) ==
    /\ ~lost /\ at[cpu] \in Interruptible
    /\ t # curr_terminal_visible
    /\ t \in active
    /\ jammer' = TRUE
    /\ curr_terminal_visible' = t
    /\ UNCHANGED <<process, active, base_pid, program_pid, schedule, hotjam,
                   pcbs, threads, hazards>>

(* ... and to one that is not: it becomes the executing one, and a shell   *)
(* is started in it, unless execute returns early.                         *)
Open(t) ==
    /\ ~lost /\ at[cpu] \in Interruptible
    /\ t # curr_terminal_visible
    /\ t \notin active
    /\ curr_terminal_visible' = t
    /\ curr_terminal_executing' = t
    /\ active' = active \cup {t}
    /\ \E pid \in NextShellPid(process) :
          /\ base_pid' = [base_pid EXCEPT ![t] = pid]
          /\ IF (~jammer \/ hotjam) /\ ~TooMany(active', process)
             THEN \E q \in LowestFree(process) :
                    /\ process' = process \cup {q}
                    /\ program_pid' = [program_pid EXCEPT ![t] = q]
                    /\ StartProgram(pid, q,
                                    [stack |-> cpu, kind |-> "kbd"], at[cpu])
                    /\ hazards' = hazards
                         \cup Cause("stale", esp[Running] # Saved(cpu, at[cpu]))
                         \cup Cause("reuse", StackInUse(q))
             ELSE /\ program_pid' = [program_pid EXCEPT ![t] = pid]
                  /\ hazards' = hazards \cup {"jam"}
                  /\ UNCHANGED <<process, pcbs, mapped, cpu, at>>
    /\ UNCHANGED <<next_terminal_executing, flags, locals, lost>>

-----------------------------------------------------------------------------
(* write_terminal, where it swallows the output to reset a flag.           *)
Write ==
    /\ AtUser
    /\ jammer \/ hotjam
    /\ jammer' = FALSE
    /\ hotjam' = (hotjam /\ jammer)
    /\ UNCHANGED <<process, terminals, schedule, pcbs, threads, hazards>>

(* read_terminal: it waits for the enter flag of the visible terminal; ... *)
ReadBegin ==
    /\ AtUser
    /\ at' = [at EXCEPT ![cpu] = "read"]
    /\ UNCHANGED <<process, terminals, schedule, flags, pcbs, locals, mapped,
                   cpu, lost, hazards>>

(* ... a line that fits clears jammer, and is delivered once the reader's  *)
(* terminal is the visible one; ...                                        *)
ReadLine ==
    /\ ~lost /\ at[cpu] = "read"
    /\ jammer' = FALSE
    /\ at' = [at EXCEPT ![cpu] = "spin"]
    /\ UNCHANGED <<process, terminals, schedule, hotjam, pcbs, locals, mapped,
                   cpu, lost, hazards>>

(* The return from read_terminal to user mode.                             *)
ReturnToUser ==
    /\ lost' = (mapped # cpu)
    /\ at' = [at EXCEPT ![cpu] = "user"]
    /\ UNCHANGED <<process, terminals, schedule, flags, pcbs, locals, mapped,
                   cpu, hazards>>

ReadReturn ==
    /\ ~lost /\ at[cpu] = "spin"
    /\ curr_terminal_executing = curr_terminal_visible
    /\ ReturnToUser

(* ... one longer than the buffer is cut off and delivered at once.        *)
ReadCut ==
    /\ ~lost /\ at[cpu] = "read"
    /\ ReturnToUser

(* Lost machines are not followed any further.                             *)
Lost == lost /\ UNCHANGED vars

HaltStep == HaltFree \/ HaltRestore \/ HaltMap \/ HaltJump

Next ==
    \/ Execute \/ HaltBase \/ HaltEnter \/ HaltStep
    \/ PIT_handler
    \/ \E t \in Terminal : SwitchTo(t) \/ Open(t)
    \/ Write \/ ReadBegin \/ ReadLine \/ ReadReturn \/ ReadCut
    \/ Lost

Spec == Init /\ [][Next]_vars

(***************************************************************************)
(* The timer keeps ticking, and two ticks are far enough apart for a       *)
(* thread to go on between them: a halt that can go on again and again     *)
(* does.                                                                   *)
(***************************************************************************)
FairSpec == /\ Spec
            /\ WF_vars(PIT_handler)
            /\ \A p \in Pid : SF_vars(cpu = p /\ HaltStep)

-----------------------------------------------------------------------------
TypeOK ==
    /\ process \subseteq Pid
    /\ active \subseteq Terminal
    /\ base_pid \in [Terminal -> Pid \cup {NoPid}]
    /\ program_pid \in [Terminal -> Pid \cup {NoPid}]
    /\ curr_terminal_visible \in Terminal
    /\ curr_terminal_executing \in Terminal
    /\ next_terminal_executing \in Terminal
    /\ jammer \in BOOLEAN
    /\ hotjam \in BOOLEAN
    /\ parent_id \in [Pid -> Pid]
    /\ parent_esp \in [Pid -> Frame]
    /\ esp \in [Pid -> Frame]
    /\ locals \in [Pid -> [curr_pid : Pid, parent_pcb : Pid]]
    /\ mapped \in Pid
    /\ cpu \in Pid
    /\ at \in [Pid -> Points]
    /\ lost \in BOOLEAN
    /\ hazards \subseteq Hazards

(* A process stays free for the shell of every terminal not yet in use, so *)
(* the execute("shell") of switch_terminal and of halt never meets a full  *)
(* process table, whatever else has gone wrong (system_call.c:239-260).    *)
Reserve == T - Cardinality(active) <= N - Cardinality(process)

(* The terminal on the screen and the executing one are in use, and every  *)
(* terminal in use names a PCB, its base shell's too: PIT_handler never    *)
(* loads the PCB of pid -1 (terminal.c:346-352, scheduling.c:43-67).       *)
TerminalsInUse ==
    /\ {curr_terminal_visible, curr_terminal_executing} \subseteq active
    /\ \A t \in active : {base_pid[t], program_pid[t]} \subseteq Pid

(* The ways to get lost are the four hazards and no other: as long as no   *)
(* terminal is opened under jammer, none with a stale saved context, no    *)
(* stack is reallocated under its thread and no base shell changes its     *)
(* pid, every saved context that is loaded is the one last saved, and user *)
(* code runs in its own page.                                              *)
NeverLost == hazards = {} => ~lost

(* Under the same condition the context in the PCB of every program that   *)
(* waits for its terminal's turn is the one it was suspended in            *)
(* (scheduling.c:52-79).                                                   *)
ContextsSaved ==
    hazards = {} /\ ~lost =>
        \A t \in active \ {curr_terminal_executing} :
            Resumable(esp[program_pid[t]], at)

(* halt returns to the execute that started the program: the next thread   *)
(* is the one waiting in execute for it, on the stack of the program its   *)
(* terminal now names and in that program's page (system_call.c:66-105).   *)
HaltReturnsToCaller ==
    [][ (hazards = {} /\ at[cpu] = "leaving" /\ at'[cpu] = "gone") =>
           /\ at[cpu'] = "exec" /\ at'[cpu'] = "user"
           /\ cpu' = program_pid'[curr_terminal_executing']
           /\ mapped' = cpu' ]_vars

(* Round robin: every terminal in use gets the CPU again and again.        *)
RoundRobin ==
    \A t \in Terminal : (t \in active) ~> (curr_terminal_executing = t \/ lost)

(* How many terminals PIT_handler looks at until it is the turn of t.      *)
Away(t) == IF t > next_terminal_executing THEN t - next_terminal_executing
           ELSE t - next_terminal_executing + T

(* Every tick brings each terminal in use its turn or nearer to it, and    *)
(* nothing that happens between ticks - opening a terminal, which jumps    *)
(* the queue, a halt, a shell that restarts - puts one back                *)
(* (scheduling.c:44-49, terminal.c:231-260).                               *)
TurnKept ==
    [][ \A t \in active :
          IF PIT_handler THEN curr_terminal_executing' = t \/ Away(t)' < Away(t)
          ELSE Away(t)' <= Away(t) ]_vars

(* A program that has begun to halt gets off its kernel stack, although    *)
(* the timer and the keyboard interrupt halt at every step.                *)
HaltCompletes ==
    \A p \in Pid : (at[p] \in HaltPoints) ~> (at[p] \notin HaltPoints \/ lost)

=============================================================================
