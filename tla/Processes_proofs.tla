-------------------------- MODULE Processes_proofs --------------------------
(***************************************************************************)
(* Proofs about Processes and Exceptions, for every number of processes    *)
(* and terminals, in three parts.                                          *)
(*                                                                         *)
(* The first holds whatever happens. Its inductive invariant is TypeOK /\  *)
(* Reserve /\ TerminalsInUse: types alone are not inductive, because the   *)
(* pid written down for a new shell is one only while a process is free    *)
(* (Reserve), and the PCB the timer loads is one only for a terminal in    *)
(* use (TerminalsInUse). The second, on the sessions of the terminals,     *)
(* holds until a hazard strikes and has an invariant of its own, Sound.    *)
(*                                                                         *)
(* The third is on Exceptions.  That the flag is raised only while some    *)
(* program uses it is not inductive: a halt that has read the flag down    *)
(* must not be its last user.  The invariant says more of that user        *)
(* (Holder: its exception is not yet tested, or its halt has read the flag *)
(* up), and that a program between its exception and the reset stands at   *)
(* the depth of user mode, so that no tick, key or program on another      *)
(* stack moves it on.  For the status that execute returns, Blame ties the *)
(* kept status to the exception, as long as no two programs have used the  *)
(* flag at a time.                                                         *)
(***************************************************************************)
EXTENDS ProcessSessions, Exceptions, FiniteSetTheorems, WellFoundedInduction,
        TLAPS

IInv == TypeOK /\ Reserve /\ TerminalsInUse

-----------------------------------------------------------------------------
(* Every non-empty set of naturals has a least element.                    *)
LEMMA MinExists ==
    ASSUME NEW S, S \subseteq Nat, S # {}
    PROVE  \E m \in S : \A k \in S : m <= k
<1> DEFINE R == {ss \in Nat \X Nat : ss[1] < ss[2]}
<1>1. IsWellFoundedOn(R, Nat)
  BY NatLessThanWellFounded DEF OpToRel
<1>2. PICK m \in S : \A k \in S : ~ (<<k, m>> \in R)
  <2> HIDE DEF R
  <2> QED BY <1>1, WFMin
<1>3. ASSUME NEW k \in S PROVE m <= k
  <2>1. k \in Nat /\ m \in Nat
    OBVIOUS
  <2>2. <<k, m>> \in Nat \X Nat /\ ~ (<<k, m>> \in R)
    BY <1>2, <2>1
  <2>3. ~ (k < m)
    BY <2>2
  <2> QED BY <2>1, <2>3
<1> QED BY <1>3

(* get_pid finds an entry unless the table is full (system_call.c:666).    *)
LEMMA LowestFreeExists ==
    ASSUME NEW procs, procs \subseteq Pid, procs # Pid
    PROVE  LowestFree(procs) # {}
<1>1. Pid \ procs \subseteq Nat
  BY NTAssumption DEF Pid
<1>2. Pid \ procs # {}
  OBVIOUS
<1> QED BY <1>1, <1>2, MinExists DEF LowestFree

LEMMA LowestFreeType ==
    ASSUME NEW procs, NEW q \in LowestFree(procs)
    PROVE  q \in Pid /\ q \notin procs
  BY DEF LowestFree

(* The pid predicted for a new shell is a pid as long as one is free and   *)
(* there is a second terminal to open (terminal.c:348).                    *)
LEMMA NextShellPidType ==
    ASSUME NEW procs, procs \subseteq Pid, procs # Pid, N >= 2,
           NEW p \in NextShellPid(procs)
    PROVE  p \in Pid
<1>1. PICK c \in CurrentPid(procs) : p = c + 1
  BY DEF NextShellPid
<1>2. PICK q \in LowestFree(procs) : c = IF q = 0 THEN 0 ELSE q - 1
  BY <1>1 DEF CurrentPid
<1>3. q \in 0 .. N - 1
  BY LowestFreeType DEF Pid
<1> QED BY <1>1, <1>2, <1>3, NTAssumption DEF Pid

LEMMA FiniteTables ==
    /\ IsFiniteSet(Pid) /\ Cardinality(Pid) = N
    /\ IsFiniteSet(Terminal) /\ Cardinality(Terminal) = T
<1>1. N \in Nat /\ T \in Nat /\ 1 <= T /\ 1 <= N
  BY NTAssumption
<1>2. IsFiniteSet(0 .. N - 1) /\ Cardinality(0 .. N - 1) = N
  BY <1>1, FS_Interval
<1>3. IsFiniteSet(0 .. T - 1) /\ Cardinality(0 .. T - 1) = T
  BY <1>1, FS_Interval
<1> QED BY <1>2, <1>3 DEF Pid, Terminal

(* Sizes of a set of pids and of a set of terminals.                       *)
LEMMA PidSet ==
    ASSUME NEW procs, procs \subseteq Pid
    PROVE  /\ IsFiniteSet(procs) /\ Cardinality(procs) \in 0 .. N
           /\ Cardinality(procs) = N <=> procs = Pid
<1>1. procs \in SUBSET Pid
  OBVIOUS
<1>2. /\ IsFiniteSet(procs) /\ Cardinality(procs) <= Cardinality(Pid)
      /\ Cardinality(Pid) = Cardinality(procs) => Pid = procs
  BY <1>1, FiniteTables, FS_Subset
<1>3. Cardinality(procs) \in Nat
  BY <1>2, FS_CardinalityType
<1> QED BY <1>2, <1>3, FiniteTables, NTAssumption

LEMMA TerminalSet ==
    ASSUME NEW act, act \subseteq Terminal
    PROVE  /\ IsFiniteSet(act) /\ Cardinality(act) \in 0 .. T
<1>1. act \in SUBSET Terminal
  OBVIOUS
<1>2. IsFiniteSet(act) /\ Cardinality(act) <= Cardinality(Terminal)
  BY <1>1, FiniteTables, FS_Subset
<1>3. Cardinality(act) \in Nat
  BY <1>2, FS_CardinalityType
<1> QED BY <1>2, <1>3, FiniteTables, NTAssumption

LEMMA ModTerminal ==
    ASSUME NEW t \in Terminal
    PROVE  t % T = t /\ (t + T) % T = t
  BY NTAssumption DEF Terminal

(* The scan of PIT_handler stops at a terminal in use, if there is one,    *)
(* and at the first.                                                       *)
LEMMA NextActiveFirst ==
    ASSUME active \subseteq Terminal, active # {}, NEW n \in Terminal
    PROVE  /\ NextActive(n) \in active
           /\ \E i \in 1 .. T :
                 /\ NextActive(n) = (n + i) % T
                 /\ \A j \in 1 .. i - 1 : (n + j) % T \notin active
<1> DEFINE Steps == {i \in 1 .. T : (n + i) % T \in active}
<1>1. PICK t \in active : TRUE
  OBVIOUS
<1>2. t \in Terminal /\ t \in 0 .. T - 1 /\ n \in 0 .. T - 1 /\ T \in Nat
  BY <1>1, NTAssumption DEF Terminal
<1>3. \E i \in 1 .. T : (n + i) % T = t
  <2>1. CASE t > n
    <3>1. t - n \in 1 .. T /\ n + (t - n) = t
      BY <1>2, <2>1
    <3> QED BY <3>1, <1>2, ModTerminal
  <2>2. CASE t <= n
    <3>1. t - n + T \in 1 .. T /\ n + (t - n + T) = t + T
      BY <1>2, <2>2
    <3> QED BY <3>1, <1>2, ModTerminal
  <2> QED BY <1>2, <2>1, <2>2
<1>4. Steps \subseteq Nat /\ Steps # {}
  <2>1. Steps \subseteq Nat
    BY <1>2
  <2>2. PICK i \in 1 .. T : (n + i) % T = t
    BY <1>3
  <2>3. i \in Steps
    BY <1>1, <2>2
  <2> QED BY <2>1, <2>3
<1>5. PICK m \in Steps : \A k \in Steps : m <= k
  BY <1>4, MinExists
<1>6. m \in 1 .. T /\ \A j \in 1 .. m - 1 : (n + j) % T \notin active
  <2>1. m \in 1 .. T
    BY <1>5
  <2>2. ASSUME NEW j \in 1 .. m - 1 PROVE (n + j) % T \notin active
    <3>1. j \in 1 .. T /\ ~ (m <= j)
      BY <2>1, <2>2, <1>2
    <3>2. j \notin Steps
      BY <3>1, <1>5
    <3> QED BY <3>1, <3>2
  <2> QED BY <2>1, <2>2
<1>7. \E u \in active : \E i \in 1 .. T :
          /\ u = (n + i) % T
          /\ \A j \in 1 .. i - 1 : (n + j) % T \notin active
  BY <1>5, <1>6
<1>8. \E i \in 1 .. T : (n + i) % T \in active
  BY <1>5
<1> QED BY <1>7, <1>8 DEF NextActive

LEMMA NextActiveInUse ==
    ASSUME active \subseteq Terminal, active # {}, NEW n \in Terminal
    PROVE  NextActive(n) \in active
  BY NextActiveFirst

-----------------------------------------------------------------------------
(* Opening a terminal never meets a full process table: the early return   *)
(* "too many processes" of execute is not the fate of a new shell          *)
(* (system_call.c:239-260).                                                *)
LEMMA RoomForShell ==
    ASSUME TypeOK, Reserve, NEW t \in Terminal, t \notin active
    PROVE  ~ TooMany(active \cup {t}, process) /\ process # Pid
<1> DEFINE a == Cardinality(active)  p == Cardinality(process)
<1>1. active \subseteq Terminal /\ process \subseteq Pid
  BY DEF TypeOK
<1>2. active \cup {t} \subseteq Terminal
  BY <1>1
<1>3. Cardinality(active \cup {t}) = a + 1
  BY <1>1, TerminalSet, FS_AddElement
<1>4. a + 1 \in 0 .. T /\ a \in Nat /\ p \in 0 .. N
  BY <1>1, <1>2, <1>3, TerminalSet, PidSet
<1>5. T - a <= N - p
  BY DEF Reserve
<1>6. p < N
  BY <1>4, <1>5, NTAssumption
<1>7. process # Pid
  BY <1>1, <1>6, <1>4, PidSet, NTAssumption
<1>8. ~ (T - (a + 1) >= N - p)
  BY <1>4, <1>5, NTAssumption
<1> QED BY <1>3, <1>7, <1>8 DEF TooMany

(* What execute's check leaves: allocating one more pid keeps the reserve. *)
LEMMA ReserveAfterExecute ==
    ASSUME NEW act, act \subseteq Terminal, NEW procs, procs \subseteq Pid,
           NEW q \in Pid, q \notin procs, ~ TooMany(act, procs)
    PROVE  T - Cardinality(act) <= N - Cardinality(procs \cup {q})
<1> DEFINE a == Cardinality(act)  p == Cardinality(procs)
<1>1. a \in 0 .. T /\ p \in 0 .. N
  BY TerminalSet, PidSet
<1>2. p # N
  BY PidSet DEF TooMany
<1>3. Cardinality(procs \cup {q}) = p + 1
  BY PidSet, FS_AddElement
<1>4. a < T => ~ (T - a >= N - p)
  BY DEF TooMany
<1> QED BY <1>1, <1>2, <1>3, <1>4, NTAssumption

LEMMA ReserveSmaller ==
    ASSUME NEW procs, procs \subseteq Pid, NEW q
    PROVE  Cardinality(procs \ {q}) <= Cardinality(procs)
<1>1. IsFiniteSet(procs) /\ procs \ {q} \in SUBSET procs
  BY PidSet
<1> QED BY <1>1, FS_Subset

(* The shapes of the variables a new program and a loaded context change.  *)
LEMMA StartProgramType ==
    ASSUME TypeOK, NEW parent \in Pid, NEW q \in Pid, NEW frame \in Frame,
           NEW callerAt \in Points, StartProgram(parent, q, frame, callerAt)
    PROVE  /\ parent_id' \in [Pid -> Pid]
           /\ parent_esp' \in [Pid -> Frame]
           /\ esp' \in [Pid -> Frame]
           /\ mapped' \in Pid
           /\ cpu' \in Pid
           /\ at' \in [Pid -> Points]
<1>1. "user" \in Points
  BY DEF Points, Interruptible
<1> QED BY <1>1 DEF StartProgram, TypeOK

LEMMA SavedType ==
    ASSUME NEW s \in Pid, NEW a \in Interruptible
    PROVE  Saved(s, a) \in Frame
  BY DEF Saved, Frame, FrameKinds, Depth, Interruptible, HaltPoints

LEMMA ResumeType ==
    ASSUME TypeOK, NEW f \in Frame, NEW m, NEW stands \in [Pid -> Points],
           Resume(f, m, stands)
    PROVE  /\ lost' \in BOOLEAN
           /\ cpu' \in Pid
           /\ at' \in [Pid -> Points]
           /\ locals' \in [Pid -> [curr_pid : Pid, parent_pcb : Pid]]
<1>1. f.stack \in Pid
  BY DEF Frame
<1>2. lost' \in BOOLEAN
  BY DEF Resume
<1>3. cpu' \in Pid
  BY <1>1 DEF Resume, TypeOK
<1>4. at' \in [Pid -> Points]
  <2>1. {"user", "halting"} \subseteq Points
    BY DEF Points, Interruptible, HaltPoints
  <2>2. /\ [stands EXCEPT ![f.stack] = "user"] \in [Pid -> Points]
        /\ [stands EXCEPT ![f.stack] = "halting"] \in [Pid -> Points]
    BY <1>1, <2>1
  <2> QED BY <2>2 DEF Resume
<1>5. locals' \in [Pid -> [curr_pid : Pid, parent_pcb : Pid]]
  <2> DEFINE L == [curr_pid : Pid, parent_pcb : Pid]
  <2>1. locals \in [Pid -> L] /\ parent_id \in [Pid -> Pid]
    BY DEF TypeOK
  <2>2. NoLocals \in L
    BY NTAssumption DEF NoLocals, Pid
  <2>3. [p \in Pid |-> IF stands[p] = "gone" THEN NoLocals ELSE locals[p]]
            \in [Pid -> L]
    BY <2>1, <2>2
  <2>4. [locals EXCEPT ![f.stack].parent_pcb =
              parent_id[locals[f.stack].curr_pid]] \in [Pid -> L]
    <3>1. locals[f.stack] \in L
      BY <1>1, <2>1
    <3>2. parent_id[locals[f.stack].curr_pid] \in Pid
      BY <3>1, <2>1
    <3> QED BY <1>1, <2>1, <3>1, <3>2
  <2> QED BY <2>3, <2>4 DEF Resume
<1> QED BY <1>2, <1>3, <1>4, <1>5

-----------------------------------------------------------------------------
LEMMA InitInv == Init => IInv
<1> SUFFICES ASSUME Init PROVE IInv
  OBVIOUS
<1>1. 0 \in Pid /\ 0 \in Terminal
  BY NTAssumption DEF Pid, Terminal
<1>2. TypeOK
  <2>1. [stack |-> 0, kind |-> "boot"] \in Frame
    BY <1>1 DEF Frame, FrameKinds
  <2>2. NoLocals \in [curr_pid : Pid, parent_pcb : Pid]
    BY <1>1 DEF NoLocals
  <2>3. {"user", "none"} \subseteq Points
    BY DEF Points, Interruptible
  <2> QED BY <1>1, <2>1, <2>2, <2>3 DEF Init, TypeOK
<1>3. Reserve
  <2>1. Cardinality({0}) = 1
    BY FS_Singleton
  <2> QED BY <2>1, NTAssumption DEF Init, Reserve
<1>4. TerminalsInUse
  BY <1>1 DEF Init, TerminalsInUse
<1> QED BY <1>2, <1>3, <1>4 DEF IInv

(* The program of the executing terminal is a pid.                         *)
LEMMA RunningType ==
    ASSUME IInv
    PROVE  Running \in Pid /\ cpu \in Pid /\ curr_terminal_executing \in active
  BY DEF IInv, TypeOK, TerminalsInUse, Running

LEMMA ExecuteInv == ASSUME IInv, Execute PROVE IInv'
<1> USE DEF IInv
<1>1. PICK q \in LowestFree(process) :
          /\ process' = process \cup {q}
          /\ program_pid' = [program_pid EXCEPT ![curr_terminal_executing] = q]
          /\ StartProgram(Running, q, [stack |-> cpu, kind |-> "exec"], "exec")
          /\ hazards' = hazards \cup Cause("reuse", StackInUse(q))
  BY DEF Execute
<1>2. q \in Pid /\ q \notin process /\ Running \in Pid /\ cpu \in Pid
  BY LowestFreeType, RunningType
<1>3. TypeOK'
  <2>1. [stack |-> cpu, kind |-> "exec"] \in Frame /\ "exec" \in Points
    BY <1>2 DEF Frame, FrameKinds, Points
  <2>2. /\ parent_id' \in [Pid -> Pid]
        /\ parent_esp' \in [Pid -> Frame]
        /\ esp' \in [Pid -> Frame]
        /\ mapped' \in Pid
        /\ cpu' \in Pid
        /\ at' \in [Pid -> Points]
    BY <1>1, <1>2, <2>1, StartProgramType
  <2>3. hazards' \subseteq Hazards
    BY <1>1 DEF Cause, Hazards, TypeOK
  <2> QED BY <1>1, <1>2, <2>2, <2>3
          DEF Execute, TypeOK, terminals, schedule, flags
<1>4. Reserve'
  <2>1. ~ TooMany(active, process) /\ active' = active
    BY DEF Execute
  <2> QED BY <1>1, <1>2, <2>1, ReserveAfterExecute DEF Reserve, TypeOK
<1>5. TerminalsInUse'
  BY <1>1, <1>2 DEF Execute, TypeOK, TerminalsInUse, schedule
<1> QED BY <1>3, <1>4, <1>5

LEMMA HaltBaseInv == ASSUME IInv, HaltBase PROVE IInv'
<1> USE DEF IInv
<1> DEFINE freed == process \ {Running}
           callee == [stack |-> cpu, kind |-> "restart"]
<1>1. Running \in Pid /\ cpu \in Pid /\ freed \subseteq Pid
  BY RunningType DEF TypeOK
<1>2. active' = active
  BY RunningType DEF HaltBase
<1>3. locals' \in [Pid -> [curr_pid : Pid, parent_pcb : Pid]]
  BY <1>1 DEF HaltBase, TypeOK
<1>4. CASE ~ TooMany(active', freed)
  <2>1. PICK q \in LowestFree(freed) :
            /\ process' = freed \cup {q}
            /\ program_pid' =
                  [program_pid EXCEPT ![curr_terminal_executing] = q]
            /\ StartProgram(Running, q, callee, "restart")
            /\ hazards' = hazards \cup Cause("base", q # Running)
                              \cup Cause("reuse", q # cpu /\ StackInUse(q))
    BY <1>4 DEF HaltBase
  <2>2. q \in Pid /\ q \notin freed
    BY LowestFreeType
  <2>3. TypeOK'
    <3>1. callee \in Frame /\ "restart" \in Points
      BY <1>1 DEF Frame, FrameKinds, Points
    <3>2. /\ parent_id' \in [Pid -> Pid]
          /\ parent_esp' \in [Pid -> Frame]
          /\ esp' \in [Pid -> Frame]
          /\ mapped' \in Pid
          /\ cpu' \in Pid
          /\ at' \in [Pid -> Points]
      BY <1>1, <2>1, <2>2, <3>1, StartProgramType
    <3>3. hazards' \subseteq Hazards
      BY <2>1 DEF Cause, Hazards, TypeOK
    <3> QED BY <1>1, <1>2, <1>3, <2>1, <2>2, <3>2, <3>3
            DEF HaltBase, TypeOK, schedule
  <2>4. Reserve'
    BY <1>1, <1>2, <1>4, <2>1, <2>2, ReserveAfterExecute DEF Reserve, TypeOK
  <2>5. TerminalsInUse'
    BY <1>2, <2>1, <2>2 DEF HaltBase, TypeOK, TerminalsInUse, schedule
  <2> QED BY <2>3, <2>4, <2>5
<1>5. CASE TooMany(active', freed)
  <2>1. /\ process' = freed
        /\ at' = [at EXCEPT ![cpu] = "halting"]
        /\ UNCHANGED <<program_pid, pcbs, mapped, cpu, hazards>>
    BY <1>5 DEF HaltBase
  <2>2. TypeOK'
    <3>1. "halting" \in Points
      BY DEF Points, Interruptible, HaltPoints
    <3> QED BY <1>1, <1>2, <1>3, <2>1, <3>1
            DEF HaltBase, TypeOK, schedule, pcbs
  <2>3. Reserve'
    <3>1. Cardinality(freed) <= Cardinality(process)
      BY ReserveSmaller DEF TypeOK
    <3>2. Cardinality(freed) \in Nat /\ Cardinality(process) \in Nat
          /\ Cardinality(active) \in Nat
      BY <1>1, PidSet, TerminalSet DEF TypeOK
    <3> QED BY <1>2, <2>1, <3>1, <3>2, NTAssumption DEF Reserve
  <2>4. TerminalsInUse'
    BY <1>2, <2>1 DEF HaltBase, TypeOK, TerminalsInUse, schedule
  <2> QED BY <2>2, <2>3, <2>4
<1> QED BY <1>4, <1>5

(* The steps of halt that run with interrupts enabled.                     *)
LEMMA HaltEnterInv == ASSUME IInv, HaltEnter PROVE IInv'
<1> USE DEF IInv
<1>1. Running \in Pid /\ cpu \in Pid /\ "halting" \in Points
  BY RunningType DEF Points, Interruptible, HaltPoints
<1>2. TypeOK'
  BY <1>1 DEF HaltEnter, TypeOK, terminals, schedule, flags, pcbs
<1>3. Reserve' /\ TerminalsInUse'
  BY DEF HaltEnter, Reserve, TerminalsInUse, terminals, schedule
<1> QED BY <1>2, <1>3

LEMMA HaltFreeInv == ASSUME IInv, HaltFree PROVE IInv'
<1> USE DEF IInv
<1>1. cpu \in Pid /\ "freed" \in Points
  BY RunningType DEF Points, Interruptible, HaltPoints
<1>2. TypeOK'
  BY <1>1 DEF HaltFree, TypeOK, terminals, schedule, flags, pcbs
<1>3. Reserve'
  <2>1. /\ process \subseteq Pid /\ active \subseteq Terminal
        /\ process' = process \ {Running} /\ active' = active
    BY DEF HaltFree, TypeOK, terminals
  <2>2. /\ Cardinality(process) \in 0 .. N
        /\ Cardinality(process \ {Running}) \in 0 .. N
        /\ Cardinality(active) \in 0 .. T
    <3>1. process \ {Running} \subseteq Pid
      BY <2>1
    <3> QED BY <2>1, <3>1, PidSet, TerminalSet
  <2>3. Cardinality(process \ {Running}) <= Cardinality(process)
    BY <2>1, ReserveSmaller
  <2> QED BY <2>1, <2>2, <2>3, NTAssumption DEF Reserve
<1>4. TerminalsInUse'
  BY DEF HaltFree, TerminalsInUse, terminals, schedule
<1> QED BY <1>2, <1>3, <1>4

LEMMA HaltRestoreInv == ASSUME IInv, HaltRestore PROVE IInv'
<1> USE DEF IInv
<1>1. /\ cpu \in Pid /\ "restored" \in Points
      /\ locals[cpu].parent_pcb \in Pid
  BY RunningType DEF Points, Interruptible, HaltPoints, TypeOK
<1>2. TypeOK'
  BY <1>1 DEF HaltRestore, TypeOK, schedule, flags, pcbs
<1>3. Reserve'
  BY DEF HaltRestore, Reserve
<1>4. TerminalsInUse'
  BY <1>1 DEF HaltRestore, TypeOK, TerminalsInUse, schedule
<1> QED BY <1>2, <1>3, <1>4

LEMMA HaltMapInv == ASSUME IInv, HaltMap PROVE IInv'
<1> USE DEF IInv
<1>1. /\ cpu \in Pid /\ "leaving" \in Points
      /\ locals[cpu].parent_pcb \in Pid
  BY RunningType DEF Points, Interruptible, HaltPoints, TypeOK
<1>2. TypeOK'
  BY <1>1 DEF HaltMap, TypeOK, terminals, schedule, flags, pcbs
<1>3. Reserve' /\ TerminalsInUse'
  BY DEF HaltMap, Reserve, TerminalsInUse, terminals, schedule
<1> QED BY <1>2, <1>3

LEMMA HaltJumpInv == ASSUME IInv, HaltJump PROVE IInv'
<1> USE DEF IInv
<1> DEFINE frame == parent_esp[locals[cpu].curr_pid]
           stands == [at EXCEPT ![cpu] = "gone"]
<1>1. frame \in Frame /\ stands \in [Pid -> Points]
  BY RunningType DEF Points, TypeOK
<1>2. Resume(frame, mapped, stands)
  BY DEF HaltJump
<1>3. TypeOK'
  <2>1. /\ lost' \in BOOLEAN
        /\ cpu' \in Pid
        /\ at' \in [Pid -> Points]
        /\ locals' \in [Pid -> [curr_pid : Pid, parent_pcb : Pid]]
    BY <1>1, <1>2, ResumeType
  <2> QED BY <2>1 DEF HaltJump, TypeOK, terminals, schedule, flags, pcbs
<1>4. Reserve' /\ TerminalsInUse'
  BY DEF HaltJump, Reserve, TerminalsInUse, terminals, schedule
<1> QED BY <1>3, <1>4

(* The timer: it goes on with a terminal in use, hence with a PCB.         *)
LEMMA PITInv == ASSUME IInv, PIT_handler PROVE IInv'
<1> USE DEF IInv
<1> DEFINE next == NextActive(next_terminal_executing)
<1>1. next \in active /\ next \in Terminal
  <2>1. active # {} /\ active \subseteq Terminal
        /\ next_terminal_executing \in Terminal
    BY RunningType DEF TypeOK
  <2> QED BY <2>1, NextActiveInUse
<1>2. /\ next_terminal_executing' = next /\ curr_terminal_executing' = next
      /\ mapped' = program_pid[next]
      /\ esp' = [esp EXCEPT ![Running] = Saved(cpu, at[cpu])]
      /\ Resume(esp'[mapped'], mapped', at)
      /\ at[cpu] \in Interruptible
  BY DEF PIT_handler
<1>3. mapped' \in Pid
  BY <1>1, <1>2 DEF TerminalsInUse
<1>4. esp' \in [Pid -> Frame]
  <2>1. Saved(cpu, at[cpu]) \in Frame
    BY <1>2, RunningType, SavedType
  <2> QED BY <1>2, <2>1 DEF TypeOK
<1>5. TypeOK'
  <2>1. esp'[mapped'] \in Frame /\ at \in [Pid -> Points]
    BY <1>3, <1>4 DEF TypeOK
  <2>2. /\ lost' \in BOOLEAN
        /\ cpu' \in Pid
        /\ at' \in [Pid -> Points]
        /\ locals' \in [Pid -> [curr_pid : Pid, parent_pcb : Pid]]
    BY <1>2, <2>1, ResumeType
  <2> QED BY <1>1, <1>2, <1>3, <1>4, <2>2
          DEF PIT_handler, TypeOK, terminals, flags
<1>6. Reserve' /\ TerminalsInUse'
  BY <1>1, <1>2 DEF PIT_handler, Reserve, TerminalsInUse, terminals
<1> QED BY <1>5, <1>6

LEMMA SwitchToInv ==
    ASSUME IInv, NEW t \in Terminal, SwitchTo(t) PROVE IInv'
<1> USE DEF IInv
<1>1. TypeOK'
  BY DEF SwitchTo, TypeOK, schedule, pcbs, threads
<1>2. Reserve' /\ TerminalsInUse'
  BY DEF SwitchTo, Reserve, TerminalsInUse, schedule
<1> QED BY <1>1, <1>2

(* A terminal is opened: there is a second terminal, so there are two      *)
(* processes, and one is free.                                             *)
LEMMA OpenInv == ASSUME IInv, NEW t \in Terminal, Open(t) PROVE IInv'
<1> USE DEF IInv
<1>1. /\ t \notin active /\ t # curr_terminal_visible
      /\ active' = active \cup {t}
      /\ curr_terminal_visible' = t /\ curr_terminal_executing' = t
      /\ at[cpu] \in Interruptible
  BY DEF Open
<1>2. N >= 2
  BY <1>1, NTAssumption DEF TypeOK, Terminal
<1>3. ~ TooMany(active', process) /\ process # Pid
  BY <1>1, RoomForShell
<1>4. Cardinality(active') = Cardinality(active) + 1
      /\ Cardinality(active) \in Nat /\ Cardinality(process) \in Nat
  <2>1. active \subseteq Terminal /\ process \subseteq Pid
    BY DEF TypeOK
  <2>2. IsFiniteSet(active) /\ Cardinality(active) \in 0 .. T
    BY <2>1, TerminalSet
  <2>3. Cardinality(process) \in 0 .. N
    BY <2>1, PidSet
  <2>4. Cardinality(active \cup {t}) = Cardinality(active) + 1
    BY <1>1, <2>2, FS_AddElement
  <2> QED BY <1>1, <2>2, <2>3, <2>4, NTAssumption
<1>5. PICK pid \in NextShellPid(process) :
          /\ base_pid' = [base_pid EXCEPT ![t] = pid]
          /\ IF (~jammer \/ hotjam) /\ ~TooMany(active', process)
             THEN \E q \in LowestFree(process) :
                    /\ process' = process \cup {q}
                    /\ program_pid' = [program_pid EXCEPT ![t] = q]
                    /\ StartProgram(pid, q, [stack |-> cpu, kind |-> "kbd"],
                                    at[cpu])
                    /\ hazards' = hazards
                         \cup Cause("stale", esp[Running] # Saved(cpu, at[cpu]))
                         \cup Cause("reuse", StackInUse(q))
             ELSE /\ program_pid' = [program_pid EXCEPT ![t] = pid]
                  /\ hazards' = hazards \cup {"jam"}
                  /\ UNCHANGED <<process, pcbs, mapped, cpu, at>>
  BY DEF Open
<1>6. pid \in Pid
  BY <1>2, <1>3, NextShellPidType DEF TypeOK
<1>7. CASE ~jammer \/ hotjam
  <2>1. PICK q \in LowestFree(process) :
            /\ process' = process \cup {q}
            /\ program_pid' = [program_pid EXCEPT ![t] = q]
            /\ StartProgram(pid, q, [stack |-> cpu, kind |-> "kbd"], at[cpu])
            /\ hazards' = hazards
                 \cup Cause("stale", esp[Running] # Saved(cpu, at[cpu]))
                 \cup Cause("reuse", StackInUse(q))
    BY <1>3, <1>5, <1>7
  <2>2. q \in Pid /\ q \notin process
    BY LowestFreeType
  <2>3. TypeOK'
    <3>1. [stack |-> cpu, kind |-> "kbd"] \in Frame /\ at[cpu] \in Points
      BY RunningType DEF Frame, FrameKinds, TypeOK
    <3>2. /\ parent_id' \in [Pid -> Pid]
          /\ parent_esp' \in [Pid -> Frame]
          /\ esp' \in [Pid -> Frame]
          /\ mapped' \in Pid
          /\ cpu' \in Pid
          /\ at' \in [Pid -> Points]
      BY <1>6, <2>1, <2>2, <3>1, StartProgramType
    <3>3. hazards' \subseteq Hazards
      BY <2>1 DEF Cause, Hazards, TypeOK
    <3> QED BY <1>1, <1>5, <1>6, <2>1, <2>2, <3>2, <3>3
            DEF Open, TypeOK, flags
  <2>4. Reserve'
    <3>1. Cardinality(process') = Cardinality(process) + 1
      BY <2>1, <2>2, PidSet, FS_AddElement DEF TypeOK
    <3> QED BY <1>4, <3>1, NTAssumption DEF Reserve
  <2>5. TerminalsInUse'
    BY <1>1, <1>5, <1>6, <2>1, <2>2 DEF TypeOK, TerminalsInUse
  <2> QED BY <2>3, <2>4, <2>5
<1>8. CASE ~ (~jammer \/ hotjam)
  <2>1. /\ program_pid' = [program_pid EXCEPT ![t] = pid]
        /\ hazards' = hazards \cup {"jam"}
        /\ UNCHANGED <<process, pcbs, mapped, cpu, at>>
    BY <1>5, <1>8
  <2>2. TypeOK'
    <3>1. hazards' \subseteq Hazards
      BY <2>1 DEF Hazards, TypeOK
    <3> QED BY <1>1, <1>5, <1>6, <2>1, <3>1 DEF Open, TypeOK, flags, pcbs
  <2>3. Reserve'
    BY <1>4, <2>1, NTAssumption DEF Reserve
  <2>4. TerminalsInUse'
    BY <1>1, <1>5, <1>6, <2>1 DEF TypeOK, TerminalsInUse
  <2> QED BY <2>2, <2>3, <2>4
<1> QED BY <1>7, <1>8

(* read_terminal, write_terminal, and the machine that is lost.            *)
LEMMA InputOutputInv ==
    ASSUME IInv, Write \/ ReadBegin \/ ReadLine \/ ReadReturn \/ ReadCut \/ Lost
    PROVE  IInv'
<1> USE DEF IInv
<1>1. cpu \in Pid /\ {"user", "read", "spin"} \subseteq Points
  BY RunningType DEF Points, Interruptible
<1>2. CASE Write
  <2>1. TypeOK'
    BY <1>2 DEF Write, TypeOK, terminals, schedule, pcbs, threads
  <2>2. Reserve' /\ TerminalsInUse'
    BY <1>2 DEF Write, Reserve, TerminalsInUse, terminals, schedule
  <2> QED BY <2>1, <2>2
<1>3. CASE ReadBegin
  <2>1. TypeOK'
    BY <1>1, <1>3 DEF ReadBegin, TypeOK, terminals, schedule, flags, pcbs
  <2>2. Reserve' /\ TerminalsInUse'
    BY <1>3 DEF ReadBegin, Reserve, TerminalsInUse, terminals, schedule
  <2> QED BY <2>1, <2>2
<1>4. CASE ReadLine
  <2>1. TypeOK'
    BY <1>1, <1>4 DEF ReadLine, TypeOK, terminals, schedule, pcbs
  <2>2. Reserve' /\ TerminalsInUse'
    BY <1>4 DEF ReadLine, Reserve, TerminalsInUse, terminals, schedule
  <2> QED BY <2>1, <2>2
<1>5. CASE ReadReturn \/ ReadCut
  <2>1. ReturnToUser
    BY <1>5 DEF ReadReturn, ReadCut
  <2>2. TypeOK'
    BY <1>1, <2>1 DEF ReturnToUser, TypeOK, terminals, schedule, flags, pcbs
  <2>3. Reserve' /\ TerminalsInUse'
    BY <2>1 DEF ReturnToUser, Reserve, TerminalsInUse, terminals, schedule
  <2> QED BY <2>2, <2>3
<1>6. CASE Lost
  BY <1>6 DEF Lost, vars, terminals, schedule, flags, pcbs, threads, TypeOK,
              Reserve, TerminalsInUse
<1> QED BY <1>2, <1>3, <1>4, <1>5, <1>6

LEMMA StepInv == IInv /\ [Next]_vars => IInv'
<1> SUFFICES ASSUME IInv, [Next]_vars PROVE IInv'
  OBVIOUS
<1>1. CASE Execute \/ HaltBase \/ HaltEnter
  BY <1>1, ExecuteInv, HaltBaseInv, HaltEnterInv
<1>2. CASE HaltStep
  BY <1>2, HaltFreeInv, HaltRestoreInv, HaltMapInv, HaltJumpInv DEF HaltStep
<1>3. CASE PIT_handler
  BY <1>3, PITInv
<1>4. CASE \E t \in Terminal : SwitchTo(t) \/ Open(t)
  BY <1>4, SwitchToInv, OpenInv
<1>5. CASE Write \/ ReadBegin \/ ReadLine \/ ReadReturn \/ ReadCut \/ Lost
  BY <1>5, InputOutputInv
<1>6. CASE UNCHANGED vars
  BY <1>6 DEF vars, terminals, schedule, flags, pcbs, threads, IInv, TypeOK,
              Reserve, TerminalsInUse
<1> QED BY <1>1, <1>2, <1>3, <1>4, <1>5, <1>6 DEF Next

(* The invariant holds in every reachable state.                           *)
THEOREM Invariance == Spec => []IInv
  BY InitInv, StepInv, PTL DEF Spec

-----------------------------------------------------------------------------
(* Every variable keeps its type, for any N and T: no pid leaves           *)
(* process[], no terminal number leaves multi_terminal[].                  *)
THEOREM TypeCorrect == Spec => []TypeOK
<1>1. IInv => TypeOK
  BY DEF IInv
<1> QED BY Invariance, <1>1, PTL

(* The reservation of system_call.c:239-250 works: whatever the order of   *)
(* executes, halts, ticks and keys, a process is left for the shell of     *)
(* every terminal that is not in use.                                      *)
THEOREM ReserveKept == Spec => []Reserve
<1>1. IInv => Reserve
  BY DEF IInv
<1> QED BY Invariance, <1>1, PTL

(* The visible and the executing terminal are in use and every terminal in *)
(* use names PCBs, so PIT_handler only loads contexts from PCBs.           *)
THEOREM InUse == Spec => []TerminalsInUse
<1>1. IInv => TerminalsInUse
  BY DEF IInv
<1> QED BY Invariance, <1>1, PTL

(* The terminals PIT_handler looks at until it comes to t, and where the   *)
(* scan goes on from.                                                      *)
LEMMA AwayIs ==
    ASSUME next_terminal_executing \in Terminal, NEW t \in Terminal
    PROVE  Away(t) \in 1 .. T /\ (next_terminal_executing + Away(t)) % T = t
<1>1. PICK n \in 0 .. T - 1 : n = next_terminal_executing
  BY DEF Terminal
<1>2. t \in 0 .. T - 1 /\ T \in Nat /\ T >= 1
  BY NTAssumption DEF Terminal
<1>3. CASE t > n
  BY <1>1, <1>2, <1>3, ModTerminal DEF Away
<1>4. CASE ~(t > n)
  <2>1. Away(t) = t - n + T /\ n + (t - n + T) = t + T
    BY <1>1, <1>2, <1>4 DEF Away
  <2> QED BY <1>1, <1>2, <1>4, <2>1, ModTerminal
<1> QED BY <1>3, <1>4

LEMMA AddMod ==
    ASSUME NEW n \in Terminal, NEW i \in 1 .. T
    PROVE  (n + i) % T = IF n + i < T THEN n + i ELSE n + i - T
<1>1. n \in 0 .. T - 1 /\ T \in Nat /\ T >= 1
  BY NTAssumption DEF Terminal
<1>2. CASE n + i < T
  <2>1. n + i \in Terminal
    BY <1>1, <1>2 DEF Terminal
  <2> QED BY <1>2, <2>1, ModTerminal
<1>3. CASE ~(n + i < T)
  <2>1. n + i - T \in Terminal /\ n + i - T + T = n + i
    BY <1>1, <1>3 DEF Terminal
  <2> QED BY <1>3, <2>1, ModTerminal
<1> QED BY <1>2, <1>3

(* TurnKept: the scan passes over no terminal in use, and nothing else     *)
(* moves where it goes on from (scheduling.c:44-49, terminal.c:231-260).   *)
THEOREM TurnsComeNearer == Spec => TurnKept
<1> DEFINE Kept ==
        \A t \in active :
            IF PIT_handler
            THEN curr_terminal_executing' = t \/ Away(t)' < Away(t)
            ELSE Away(t)' <= Away(t)
<1>1. IInv /\ [Next]_vars => [Kept]_vars
  <2> SUFFICES ASSUME IInv, Next, NEW t \in active
               PROVE  IF PIT_handler
                      THEN curr_terminal_executing' = t \/ Away(t)' < Away(t)
                      ELSE Away(t)' <= Away(t)
    OBVIOUS
  <2>1. /\ active \subseteq Terminal /\ active # {} /\ t \in Terminal
        /\ next_terminal_executing \in Terminal
    BY DEF IInv, TypeOK
  <2>2. PICK n \in Terminal : n = next_terminal_executing
    BY <2>1
  <2>3. PICK a \in 1 .. T : a = Away(t) /\ (n + a) % T = t
    BY <2>1, <2>2, AwayIs
  <2>4. CASE PIT_handler
    <3>1. /\ next_terminal_executing' = NextActive(n)
          /\ curr_terminal_executing' = NextActive(n)
      BY <2>2, <2>4 DEF PIT_handler
    <3>2. PICK i \in 1 .. T :
             /\ NextActive(n) = (n + i) % T
             /\ \A j \in 1 .. i - 1 : (n + j) % T \notin active
      BY <2>1, NextActiveFirst
    <3>3. PICK m \in Terminal : m = NextActive(n)
      BY <2>1, NextActiveInUse
    <3> SUFFICES ASSUME m # t PROVE Away(t)' < a
      BY <2>3, <2>4, <3>1, <3>3
    <3>4. i < a
      BY <2>3, <3>2, <3>3, NTAssumption
    <3>5. /\ m = IF n + i < T THEN n + i ELSE n + i - T
          /\ t = IF n + a < T THEN n + a ELSE n + a - T
      BY <2>3, <3>2, <3>3, AddMod
    <3>6. Away(t)' = IF t > m THEN t - m ELSE t - m + T
      BY <3>1, <3>3 DEF Away
    <3>7. n \in 0 .. T - 1 /\ T \in Nat
      BY NTAssumption DEF Terminal
    <3> QED BY <3>4, <3>5, <3>6, <3>7
  <2>5. CASE ~PIT_handler
    <3>1. next_terminal_executing' = next_terminal_executing
      BY <2>5 DEF Next, Execute, HaltBase, HaltEnter, HaltStep, HaltFree,
         HaltRestore, HaltMap, HaltJump, SwitchTo, Open, Write, ReadBegin,
         ReadLine, ReadReturn, ReadCut, ReturnToUser, Lost, vars, schedule
    <3>2. Away(t)' = Away(t)
      BY <3>1 DEF Away
    <3> QED BY <2>3, <2>5, <3>2
  <2> QED BY <2>4, <2>5
<1>2. Spec => [][Kept]_vars
  BY <1>1, Invariance, PTL DEF Spec
<1> QED BY <1>2 DEF TurnKept

(* No new terminal is turned away with "too many processes".               *)
THEOREM ShellAlwaysStarts ==
    Spec => [](\A t \in Terminal \ active : ~TooMany(active \cup {t}, process))
<1>1. IInv => \A t \in Terminal \ active : ~TooMany(active \cup {t}, process)
  BY RoomForShell DEF IInv
<1> QED BY Invariance, <1>1, PTL

-----------------------------------------------------------------------------
(***************************************************************************)
(* The sessions of the terminals: as long as no hazard has                 *)
(* struck, the machine is never lost, every saved context is good, halt    *)
(* returns to its caller, the process table is exact, and Processes        *)
(* implements Sessions.                                                    *)
(*                                                                         *)
(* TypeOK, Reserve and TerminalsInUse do not carry these. The inductive    *)
(* invariant adds Sound: without a hazard there is a `home`, a function    *)
(* from programs to terminals, under which the state is Coherent. One      *)
(* thread of every terminal in use can be interrupted, its place and the   *)
(* terminal's program_pid agree, and the esp of its PCB is of the depth    *)
(* it stands at (ThreadsStand); each program that was called has a         *)
(* caller of its own, waiting in execute at the frame the program kept     *)
(* (CallersWait); a halt knows its program and the caller (HaltsKnow);     *)
(* no base shell ever leaves (ShellsStay); the page that is mapped is      *)
(* the running program's (PageMapped); process[] holds the programs not    *)
(* yet freed (Accounted). Homes is what separates the terminals: the       *)
(* thread, the top, the shell and all callers of a terminal have it as     *)
(* their home, so two terminals share none of them, and a step of one      *)
(* changes nothing the other relies on.                                    *)
(***************************************************************************)
(* The stacks some thread stands on; those of called programs; the last    *)
(* two places of halt, after program_pid went back to the parent; and      *)
(* the places of a program that has its process[] entry.                   *)
Live   == {p \in Pid : at[p] \notin {"none", "gone"}}
Sons   == Live \ BaseShell
Left   == {"restored", "leaving"}
Listed == {"user", "read", "spin", "exec", "halting"}

(* The thread of terminal t: the running one, or the one whose frame is    *)
(* in the PCB of the terminal's program.                                   *)
Thread(t) == IF t = curr_terminal_executing THEN cpu
             ELSE esp[program_pid[t]].stack

(* Each terminal's thread, its program and its saved frame agree.          *)
ThreadsStand ==
    \A t \in active :
        /\ at[Thread(t)] \in Interruptible
        /\ program_pid[t] = IF at[Thread(t)] \in Left
                            THEN parent_id[Thread(t)] ELSE Thread(t)
        /\ t # curr_terminal_executing =>
              esp[program_pid[t]].kind = Depth(at[Thread(t)])

(* A called program's parent_esp is the frame of the execute its parent    *)
(* still waits in, and no parent waits for two.                            *)
CallersWait ==
    \A p \in Sons :
        /\ parent_esp[p] = [stack |-> parent_id[p], kind |-> "exec"]
        /\ at[parent_id[p]] = "exec"
        /\ \A q \in Sons : parent_id[p] = parent_id[q] => p = q

(* The local variables of halt name its own program and its parent, and    *)
(* only called programs take this branch (system_call.c:66-75).            *)
HaltsKnow ==
    \A p \in Pid : at[p] \in HaltPoints =>
        /\ p \notin BaseShell
        /\ locals[p] = [curr_pid |-> p, parent_pcb |-> parent_id[p]]

(* The shells keep their pids and process[] entries, the first is pid 0    *)
(* of terminal 0, for ever.                                                *)
ShellsStay ==
    /\ 0 \in active /\ base_pid[0] = 0
    /\ \A t \in active : at[base_pid[t]] \in Listed

(* The page of the running program is mapped, except between the two       *)
(* statements of halt that change the program and the page.                *)
PageMapped == at[cpu] # "restored" => mapped = Running

(* Every program belongs to one terminal.                                  *)
Homes(home) ==
    /\ \A t \in active : /\ home[Thread(t)] = t
                         /\ home[program_pid[t]] = t
                         /\ home[base_pid[t]] = t
    /\ \A p \in Sons : home[parent_id[p]] = home[p]

(* process[] is exact, nobody waits for a program that has left, and no    *)
(* thread is without a terminal.                                           *)
Accounted ==
    /\ \A p \in Pid : at[p] # "restart"
    /\ process = {p \in Pid : at[p] \in Listed}
    /\ \A p \in Pid : at[p] = "exec" => \E q \in Sons : parent_id[q] = p
    /\ \A p \in Pid : at[p] \in Interruptible =>
          \E t \in active : Thread(t) = p

Coherent(home) == /\ ThreadsStand /\ CallersWait /\ HaltsKnow /\ ShellsStay
                  /\ PageMapped /\ Homes(home) /\ Accounted

Homing == [Pid -> Terminal]

-----------------------------------------------------------------------------
(* What the invariant says of the running thread, spelled out.             *)
LEMMA Basics ==
    ASSUME IInv, NEW home \in Homing, Coherent(home)
    PROVE  /\ curr_terminal_executing \in active /\ cpu \in Pid
           /\ Thread(curr_terminal_executing) = cpu
           /\ at[cpu] \in Interruptible
           /\ Running = IF at[cpu] \in Left THEN parent_id[cpu] ELSE cpu
           /\ \A t \in active : /\ t \in Terminal /\ Thread(t) \in Pid
                                /\ program_pid[t] \in Pid
                                /\ base_pid[t] \in Pid
           /\ BaseShell \subseteq Pid
           /\ \A p \in Pid : at[p] \in Points /\ parent_id[p] \in Pid
<1>1. /\ curr_terminal_executing \in active /\ cpu \in Pid
      /\ active \subseteq Terminal
      /\ \A t \in active : program_pid[t] \in Pid /\ base_pid[t] \in Pid
  BY DEF IInv, TypeOK, TerminalsInUse
<1>2. \A p \in Pid : /\ at[p] \in Points /\ parent_id[p] \in Pid
                     /\ esp[p].stack \in Pid
  BY DEF IInv, TypeOK, Frame
<1>3. \A t \in active : Thread(t) \in Pid
  BY <1>1, <1>2 DEF Thread
<1>4. BaseShell \subseteq Pid
  BY <1>1 DEF BaseShell
<1>5. Thread(curr_terminal_executing) = cpu
  BY DEF Thread
<1>6. /\ at[cpu] \in Interruptible
      /\ Running = IF at[cpu] \in Left THEN parent_id[cpu] ELSE cpu
  BY <1>1, <1>5 DEF Coherent, ThreadsStand, Running
<1> QED BY <1>1, <1>2, <1>3, <1>4, <1>5, <1>6

(* Two terminals in use share no program.                                  *)
LEMMA Distinct ==
    ASSUME NEW home, Homes(home), NEW t \in active, NEW u \in active, t # u
    PROVE  /\ Thread(t) # Thread(u) /\ Thread(t) # program_pid[u]
           /\ Thread(t) # base_pid[u]
           /\ program_pid[t] # program_pid[u] /\ program_pid[t] # base_pid[u]
           /\ base_pid[t] # base_pid[u]
  BY DEF Homes

(* The stacks a terminal depends on are in use, so a pid that get_pid      *)
(* hands out without the hazard `reuse` is none of them.                   *)
LEMMA Alive ==
    ASSUME IInv, NEW home \in Homing, Coherent(home)
    PROVE  /\ \A t \in active : Thread(t) \in Live /\ base_pid[t] \in Live
                                /\ program_pid[t] \in Live
           /\ BaseShell \subseteq Live
<1>1. \A t \in active : Thread(t) \in Live
  BY Basics DEF Coherent, ThreadsStand, Live, Interruptible, HaltPoints
<1>2. \A t \in active : base_pid[t] \in Live
  BY Basics DEF Coherent, ShellsStay, Live, Listed
<1>3. ASSUME NEW t \in active, at[Thread(t)] \in Left
      PROVE  program_pid[t] \in Live
  <2>1. Thread(t) \in Sons /\ program_pid[t] = parent_id[Thread(t)]
    BY <1>1, <1>3, Basics
       DEF Coherent, ThreadsStand, HaltsKnow, Left, HaltPoints, Sons
  <2>2. at[program_pid[t]] = "exec"
    BY <2>1 DEF Coherent, CallersWait
  <2> QED BY <2>2, Basics DEF Live
<1>4. ASSUME NEW t \in active, at[Thread(t)] \notin Left
      PROVE  program_pid[t] \in Live
  BY <1>1, <1>4 DEF Coherent, ThreadsStand
<1>5. BaseShell \subseteq Live
  BY <1>2 DEF BaseShell
<1> QED BY <1>1, <1>2, <1>3, <1>4, <1>5

-----------------------------------------------------------------------------
(* execute: the new program is at home where its caller is.                *)
LEMMA ExecuteCoherent ==
    ASSUME IInv, NEW home \in Homing, Coherent(home), ~lost,
           Execute, hazards' = {}
    PROVE  ~lost' /\ \E h \in Homing : Coherent(h)'
<1> DEFINE E == curr_terminal_executing
<1>1. PICK q \in LowestFree(process) :
          /\ process' = process \cup {q}
          /\ program_pid' = [program_pid EXCEPT ![E] = q]
          /\ StartProgram(Running, q, [stack |-> cpu, kind |-> "exec"], "exec")
          /\ hazards' = hazards \cup Cause("reuse", StackInUse(q))
  BY DEF Execute
<1>2. /\ at[cpu] = "user" /\ active' = active /\ base_pid' = base_pid
      /\ curr_terminal_executing' = E /\ locals' = locals /\ lost' = lost
  BY DEF Execute, AtUser, schedule
<1>3. q \in Pid /\ q \notin Live /\ at[q] \in {"none", "gone"}
  BY <1>1, LowestFreeType DEF Cause, StackInUse, Live
<1>4. q # cpu /\ Running = cpu /\ cpu \in Pid
  BY <1>2, <1>3, Basics DEF Left
<1>5. /\ mapped' = q /\ cpu' = q
      /\ \A p \in Pid :
            /\ at'[p] = IF p = q THEN "user"
                        ELSE IF p = cpu THEN "exec" ELSE at[p]
            /\ parent_id'[p] = IF p = q THEN cpu ELSE parent_id[p]
            /\ parent_esp'[p] = IF p = q THEN [stack |-> cpu, kind |-> "exec"]
                                ELSE parent_esp[p]
            /\ esp'[p] = IF p = q THEN [stack |-> cpu, kind |-> "exec"]
                         ELSE esp[p]
  BY <1>1, <1>3, <1>4 DEF StartProgram, IInv, TypeOK
<1>6. \A t \in active : program_pid'[t] = IF t = E THEN q ELSE program_pid[t]
  BY <1>1, Basics DEF IInv, TypeOK
<1>7. \A t \in active : Thread(t)' = IF t = E THEN q ELSE Thread(t)
  <2> SUFFICES ASSUME NEW t \in active
               PROVE  Thread(t)' = IF t = E THEN q ELSE Thread(t)
    OBVIOUS
  <2>1. CASE t = E
    BY <2>1, <1>2, <1>5 DEF Thread
  <2>2. CASE t # E
    BY <2>2, <1>2, <1>3, <1>5, <1>6, Alive, Basics DEF Thread
  <2> QED BY <2>1, <2>2
<1>8. BaseShell' = BaseShell /\ Sons' = Sons \cup {q} /\ q \notin Sons
  <2>1. BaseShell' = BaseShell
    BY <1>2 DEF BaseShell
  <2>2. Live' = Live \cup {q}
    BY <1>2, <1>3, <1>4, <1>5 DEF Live
  <2>3. q \notin BaseShell
    BY <1>3, Alive
  <2> QED BY <2>1, <2>2, <2>3, <1>3 DEF Sons
<1>9. ThreadsStand'
  <2> SUFFICES ASSUME NEW t \in active
               PROVE  /\ at'[Thread(t)'] \in Interruptible
                      /\ program_pid'[t] = IF at'[Thread(t)'] \in Left
                            THEN parent_id'[Thread(t)'] ELSE Thread(t)'
                      /\ t # E => esp'[program_pid'[t]].kind
                                    = Depth(at'[Thread(t)'])
    BY <1>2 DEF ThreadsStand
  <2>1. CASE t = E
    BY <2>1, <1>3, <1>5, <1>6, <1>7 DEF Interruptible, Left
  <2>2. CASE t # E
    <3>1. Thread(t) # cpu /\ Thread(t) # q /\ program_pid[t] # q
      BY <2>2, <1>3, Distinct, Alive, Basics DEF Coherent
    <3> QED BY <2>2, <3>1, <1>5, <1>6, <1>7, Basics DEF Coherent, ThreadsStand
  <2> QED BY <2>1, <2>2
<1>10. CallersWait'
  <2>1. \A p \in Sons : p \in Pid /\ parent_id[p] # cpu /\ parent_id[p] # q
    BY <1>2, <1>3 DEF Coherent, CallersWait, Sons, Live
  <2> QED BY <1>3, <1>4, <1>5, <1>8, <2>1, Basics DEF Coherent, CallersWait
<1>11. HaltsKnow'
  BY <1>2, <1>3, <1>4, <1>5, <1>8 DEF Coherent, HaltsKnow, HaltPoints
<1>12. ShellsStay'
  BY <1>2, <1>3, <1>5, Alive, Basics DEF Coherent, ShellsStay, Listed
<1>13. PageMapped'
  BY <1>2, <1>5, <1>6, Basics DEF PageMapped, Running
<1>14. PICK h \in Homing : h[q] = E /\ \A p \in Pid : p # q => h[p] = home[p]
  <2>1. [home EXCEPT ![q] = E] \in Homing
    BY <1>3, Basics DEF Homing
  <2> QED BY <2>1, <1>3 DEF Homing
<1>15. Homes(h)'
  <2>1. \A t \in active : /\ h[Thread(t)'] = t
                          /\ h[program_pid'[t]] = t
                          /\ h[base_pid[t]] = t
    BY <1>3, <1>6, <1>7, <1>14, Alive, Basics DEF Coherent, Homes
  <2>2. \A p \in Sons' : h[parent_id'[p]] = h[p]
    <3>1. h[cpu] = E
      BY <1>4, <1>14, Basics DEF Coherent, Homes
    <3>2. \A p \in Sons : /\ parent_id[p] \in Pid /\ parent_id[p] # q
                          /\ p \in Pid /\ p # q
      BY <1>3, Basics DEF Coherent, CallersWait, Sons, Live
    <3>3. \A p \in Sons : h[parent_id'[p]] = h[p]
      BY <3>2, <1>5, <1>14 DEF Coherent, Homes
    <3> QED BY <3>1, <3>3, <1>3, <1>5, <1>8, <1>14
  <2> QED BY <2>1, <2>2, <1>2 DEF Homes
<1>16. Accounted'
  <2>1. \A p \in Pid : at'[p] # "restart"
    BY <1>5 DEF Coherent, Accounted
  <2>2. process' = {p \in Pid : at'[p] \in Listed}
    BY <1>1, <1>2, <1>3, <1>4, <1>5 DEF Coherent, Accounted, Listed
  <2>3. \A p \in Pid : at'[p] = "exec" => \E r \in Sons' : parent_id'[r] = p
    BY <1>3, <1>4, <1>5, <1>8 DEF Coherent, Accounted, Sons, Live
  <2>4. \A p \in Pid : at'[p] \in Interruptible =>
            \E t \in active : Thread(t)' = p
    <3> SUFFICES ASSUME NEW p \in Pid, at'[p] \in Interruptible
                 PROVE  \E t \in active : Thread(t)' = p
      OBVIOUS
    <3>1. CASE p = q
      BY <3>1, <1>7, Basics
    <3>2. CASE p # q
      <4>1. p # cpu /\ at[p] \in Interruptible
        BY <3>2, <1>5 DEF Interruptible, HaltPoints
      <4>2. PICK t \in active : Thread(t) = p
        BY <4>1 DEF Coherent, Accounted
      <4> QED BY <4>1, <4>2, <1>7, Basics
    <3> QED BY <3>1, <3>2
  <2> QED BY <2>1, <2>2, <2>3, <2>4, <1>2 DEF Accounted
<1> QED BY <1>2, <1>9, <1>10, <1>11, <1>12, <1>13, <1>14, <1>15, <1>16
        DEF Coherent

(* A step that changes nothing the invariant looks at.                     *)
LEMMA Untouched ==
    ASSUME NEW home \in Homing, Coherent(home),
           UNCHANGED <<process, active, base_pid, program_pid,
                       curr_terminal_executing, pcbs, threads>>
    PROVE  Coherent(home)'
  BY DEF Coherent, ThreadsStand, CallersWait, HaltsKnow, ShellsStay, PageMapped,
         Homes, Accounted, Thread, Sons, Live, BaseShell, Running, pcbs, threads

(* A step that moves the running thread from one place to another in its   *)
(* own terminal: read_terminal and the steps of halt.                      *)
LEMMA MoveCoherent ==
    ASSUME IInv, NEW home \in Homing, Coherent(home),
           NEW a \in Interruptible, a # "restored", mapped' = Running,
           a \in Left <=> at[cpu] \in Left,
           at' = [at EXCEPT ![cpu] = a],
           UNCHANGED <<active, base_pid, program_pid, curr_terminal_executing,
                       pcbs, cpu>>,
           \A p \in Pid \ {cpu} : locals'[p] = locals[p],
           a \in HaltPoints =>
              /\ cpu \notin BaseShell
              /\ locals'[cpu] = [curr_pid |-> cpu, parent_pcb |-> parent_id[cpu]],
           process' = IF a = "freed" THEN process \ {cpu} ELSE process,
           a # "freed" => (a \in Listed <=> at[cpu] \in Listed)
    PROVE  Coherent(home)'
<1> DEFINE E == curr_terminal_executing
<1>1. \A p \in Pid : at'[p] = IF p = cpu THEN a ELSE at[p]
  BY Basics DEF IInv, TypeOK
<1>2. /\ parent_id' = parent_id /\ parent_esp' = parent_esp /\ esp' = esp
  BY DEF pcbs
<1>3. /\ Live' = Live /\ BaseShell' = BaseShell /\ Sons' = Sons
      /\ Running' = Running
  <2>1. \A p \in Pid : p \in Live' <=> p \in Live
    BY <1>1, Basics DEF Live, Interruptible, HaltPoints
  <2>2. Live' = Live
    BY <2>1 DEF Live
  <2> QED BY <2>2 DEF Sons, BaseShell, Running
<1>4. \A t \in active : Thread(t)' = Thread(t)
  BY <1>2 DEF Thread
<1>5. cpu \in Pid /\ at[cpu] \in Interruptible
  BY Basics
<1>6. ThreadsStand'
  <2> SUFFICES ASSUME NEW t \in active
               PROVE  /\ at'[Thread(t)] \in Interruptible
                      /\ program_pid[t] = IF at'[Thread(t)] \in Left
                            THEN parent_id[Thread(t)] ELSE Thread(t)
                      /\ t # E => esp[program_pid[t]].kind = Depth(at'[Thread(t)])
    BY <1>2, <1>4 DEF ThreadsStand
  <2>1. CASE t = E
    BY <2>1, <1>1, <1>5, Basics DEF Coherent, ThreadsStand
  <2>2. CASE t # E
    <3>1. Thread(t) # cpu
      BY <2>2, Distinct, Basics DEF Coherent
    <3> QED BY <2>2, <3>1, <1>1, Basics DEF Coherent, ThreadsStand
  <2> QED BY <2>1, <2>2
<1>7. CallersWait'
  <2>1. \A p \in Sons : parent_id[p] # cpu
    BY <1>5 DEF Coherent, CallersWait, Interruptible, HaltPoints
  <2> QED BY <1>1, <1>2, <1>3, <2>1, Basics DEF Coherent, CallersWait, Sons, Live
<1>8. HaltsKnow'
  BY <1>1, <1>2, <1>3 DEF Coherent, HaltsKnow
<1>9. ShellsStay'
  <2>1. cpu \in BaseShell => a \in Listed
    BY DEF Listed, Interruptible, HaltPoints
  <2>2. \A t \in active : base_pid[t] \in Pid /\ base_pid[t] \in BaseShell
    BY Basics DEF BaseShell
  <2> QED BY <1>1, <2>1, <2>2 DEF Coherent, ShellsStay
<1>10. PageMapped'
  BY <1>3 DEF PageMapped
<1>11. Homes(home)'
  BY <1>2, <1>3, <1>4 DEF Coherent, Homes
<1>12. Accounted'
  <2>1. \A p \in Pid : at'[p] # "restart"
    BY <1>1 DEF Coherent, Accounted, Interruptible, HaltPoints
  <2>2. process' = {p \in Pid : at'[p] \in Listed}
    <3>1. CASE a = "freed"
      BY <3>1, <1>1, <1>5 DEF Coherent, Accounted, Listed
    <3>2. CASE a # "freed"
      BY <3>2, <1>1, <1>5 DEF Coherent, Accounted
    <3> QED BY <3>1, <3>2
  <2>3. \A p \in Pid : at'[p] = "exec" => \E r \in Sons' : parent_id'[r] = p
    BY <1>1, <1>2, <1>3 DEF Coherent, Accounted, Interruptible, HaltPoints
  <2>4. \A p \in Pid : at'[p] \in Interruptible =>
            \E t \in active : Thread(t)' = p
    BY <1>1, <1>4, <1>5 DEF Coherent, Accounted
  <2> QED BY <2>1, <2>2, <2>3, <2>4 DEF Accounted
<1> QED BY <1>6, <1>7, <1>8, <1>9, <1>10, <1>11, <1>12 DEF Coherent

(* program_pid = parent_pcb->pid names a program of the same terminal,     *)
(* so the thread of no other terminal moves.                               *)
LEMMA HaltRestoreCoherent ==
    ASSUME IInv, NEW home \in Homing, Coherent(home), HaltRestore
    PROVE  Coherent(home)'
<1> DEFINE E == curr_terminal_executing
           parent == parent_id[cpu]
<1>1. at[cpu] = "freed" /\ cpu \in Pid /\ Running = cpu
  BY Basics DEF HaltRestore, Left
<1>2. /\ cpu \in Sons /\ parent \in Pid
      /\ locals[cpu] = [curr_pid |-> cpu, parent_pcb |-> parent]
  BY <1>1, Basics DEF Coherent, HaltsKnow, HaltPoints, Sons, Live
<1>3. /\ \A p \in Pid : at'[p] = IF p = cpu THEN "restored" ELSE at[p]
      /\ \A t \in active : program_pid'[t] = IF t = E THEN parent
                                             ELSE program_pid[t]
      /\ UNCHANGED <<process, active, base_pid, curr_terminal_executing,
                     parent_id, parent_esp, esp, locals, mapped, cpu>>
  BY <1>1, <1>2, Basics DEF HaltRestore, IInv, TypeOK, schedule, pcbs
<1>4. /\ Live' = Live /\ BaseShell' = BaseShell /\ Sons' = Sons
  <2>1. \A p \in Pid : p \in Live' <=> p \in Live
    BY <1>1, <1>3 DEF Live
  <2>2. Live' = Live
    BY <2>1 DEF Live
  <2> QED BY <1>3, <2>2 DEF Sons, BaseShell
<1>5. \A t \in active : Thread(t)' = Thread(t)
  BY <1>3 DEF Thread
<1>6. ThreadsStand'
  <2> SUFFICES ASSUME NEW t \in active
               PROVE  /\ at'[Thread(t)] \in Interruptible
                      /\ program_pid'[t] = IF at'[Thread(t)] \in Left
                            THEN parent_id[Thread(t)] ELSE Thread(t)
                      /\ t # E => esp[program_pid'[t]].kind
                                      = Depth(at'[Thread(t)])
    BY <1>3, <1>5 DEF ThreadsStand
  <2>1. CASE t = E
    BY <2>1, <1>1, <1>3, Basics DEF Interruptible, HaltPoints, Left
  <2>2. CASE t # E
    <3>1. Thread(t) # cpu
      BY <2>2, Distinct, Basics DEF Coherent
    <3> QED BY <2>2, <3>1, <1>3, Basics DEF Coherent, ThreadsStand
  <2> QED BY <2>1, <2>2
<1>7. CallersWait'
  <2>1. \A p \in Sons : parent_id[p] # cpu
    BY <1>1 DEF Coherent, CallersWait
  <2> QED BY <1>3, <1>4, <2>1, Basics DEF Coherent, CallersWait, Sons, Live
<1>8. HaltsKnow'
  BY <1>1, <1>3, <1>4 DEF Coherent, HaltsKnow, HaltPoints
<1>9. ShellsStay'
  BY <1>1, <1>3, Basics DEF Coherent, ShellsStay, Listed
<1>10. PageMapped'
  BY <1>1, <1>3 DEF PageMapped
<1>11. Homes(home)'
  <2>1. home[parent] = E
    BY <1>2, Basics DEF Coherent, Homes
  <2> QED BY <2>1, <1>3, <1>4, <1>5 DEF Coherent, Homes
<1>12. Accounted'
  <2>1. process' = {p \in Pid : at'[p] \in Listed}
    BY <1>1, <1>3 DEF Coherent, Accounted, Listed
  <2>2. \A p \in Pid : at'[p] # "restart"
    BY <1>3 DEF Coherent, Accounted
  <2>3. \A p \in Pid : at'[p] = "exec" => \E r \in Sons' : parent_id'[r] = p
    BY <1>3, <1>4 DEF Coherent, Accounted
  <2>4. \A p \in Pid : at'[p] \in Interruptible =>
            \E t \in active : Thread(t)' = p
    BY <1>1, <1>3, <1>5, Basics DEF Coherent, Accounted
  <2> QED BY <2>1, <2>2, <2>3, <2>4, <1>3 DEF Accounted
<1> QED BY <1>6, <1>7, <1>8, <1>9, <1>10, <1>11, <1>12 DEF Coherent

(* map_physical_memory(parent) maps the program the terminal now names.    *)
LEMMA HaltMapCoherent ==
    ASSUME IInv, NEW home \in Homing, Coherent(home), HaltMap
    PROVE  Coherent(home)'
<1>1. at[cpu] = "restored" /\ cpu \in Pid /\ Running = parent_id[cpu]
  BY Basics DEF HaltMap, Left
<1>2. /\ cpu \notin BaseShell
      /\ locals[cpu] = [curr_pid |-> cpu, parent_pcb |-> parent_id[cpu]]
  BY <1>1 DEF Coherent, HaltsKnow, HaltPoints
<1>3. /\ mapped' = Running /\ locals' = locals /\ process' = process
      /\ at' = [at EXCEPT ![cpu] = "leaving"]
      /\ UNCHANGED <<active, base_pid, program_pid, curr_terminal_executing,
                     pcbs, cpu>>
  BY <1>1, <1>2 DEF HaltMap, schedule, terminals
<1> QED BY <1>1, <1>2, <1>3, MoveCoherent
        DEF Interruptible, HaltPoints, Left, Listed

(* The jump of halt finds the parent's thread where it called execute,     *)
(* with the parent's page mapped (system_call.c:96-105).                   *)
LEMMA HaltJumpCoherent ==
    ASSUME IInv, NEW home \in Homing, Coherent(home), HaltJump
    PROVE  /\ ~lost' /\ Coherent(home)'
           /\ at[cpu'] = "exec" /\ at'[cpu'] = "user"
           /\ cpu' = Running' /\ mapped' = cpu'
<1> DEFINE E == curr_terminal_executing
           parent == parent_id[cpu]
           stands == [at EXCEPT ![cpu] = "gone"]
<1>1. /\ at[cpu] = "leaving" /\ cpu \in Pid /\ Running = parent
      /\ mapped = parent /\ parent \in Pid
  BY Basics DEF HaltJump, Left, Coherent, PageMapped
<1>2. /\ cpu \in Sons
      /\ locals[cpu] = [curr_pid |-> cpu, parent_pcb |-> parent]
  BY <1>1, Basics DEF Coherent, HaltsKnow, HaltPoints, Sons, Live
<1>3. /\ parent_esp[cpu] = [stack |-> parent, kind |-> "exec"]
      /\ at[parent] = "exec" /\ parent # cpu
  BY <1>1, <1>2 DEF Coherent, CallersWait
<1>4. /\ Resume(parent_esp[cpu], mapped, stands)
      /\ UNCHANGED <<process, active, base_pid, program_pid,
                     curr_terminal_executing, parent_id, parent_esp, esp,
                     mapped>>
  BY <1>2 DEF HaltJump, terminals, schedule, pcbs
<1>5. Resumable(parent_esp[cpu], stands)
  BY <1>1, <1>3 DEF Resumable, Depth, HaltPoints, IInv, TypeOK
<1>6. /\ lost' = FALSE /\ cpu' = parent
      /\ at' = [stands EXCEPT ![parent] = "user"]
      /\ locals' = [p \in Pid |-> IF stands[p] = "gone" THEN NoLocals
                                  ELSE locals[p]]
  <2> DEFINE f == parent_esp[cpu]
  <2>1. f.stack = parent /\ f.kind = "exec"
    BY <1>3
  <2>2. mapped = f.stack
    BY <1>1, <2>1
  <2> HIDE DEF f, stands, parent
  <2>3. Resume(f, mapped, stands) /\ Resumable(f, stands)
    BY <1>4, <1>5 DEF f
  <2> QED BY <2>1, <2>2, <2>3 DEF Resume
<1>7. \A p \in Pid :
          /\ at'[p] = IF p = parent THEN "user"
                      ELSE IF p = cpu THEN "gone" ELSE at[p]
          /\ at'[p] # "gone" => locals'[p] = locals[p]
  BY <1>1, <1>3, <1>6 DEF IInv, TypeOK
<1>8. /\ BaseShell' = BaseShell /\ Sons' = Sons \ {cpu} /\ Running' = Running
  <2>1. Live' = Live \ {cpu}
    BY <1>1, <1>3, <1>7 DEF Live
  <2> QED BY <1>4, <2>1 DEF Sons, BaseShell, Running
<1>9. \A t \in active : Thread(t)' = IF t = E THEN parent ELSE Thread(t)
  BY <1>4, <1>6 DEF Thread
<1>10. ThreadsStand'
  <2> SUFFICES ASSUME NEW t \in active
               PROVE  /\ at'[Thread(t)'] \in Interruptible
                      /\ program_pid[t] = IF at'[Thread(t)'] \in Left
                            THEN parent_id[Thread(t)'] ELSE Thread(t)'
                      /\ t # E => esp[program_pid[t]].kind
                                      = Depth(at'[Thread(t)'])
    BY <1>4 DEF ThreadsStand
  <2>1. CASE t = E
    BY <2>1, <1>1, <1>7, <1>9 DEF Interruptible, Left, Running
  <2>2. CASE t # E
    <3>1. Thread(t) # cpu /\ Thread(t) # parent
      BY <2>2, <1>1, Distinct, Basics DEF Coherent, Running
    <3> QED BY <2>2, <3>1, <1>7, <1>9, Basics DEF Coherent, ThreadsStand
  <2> QED BY <2>1, <2>2
<1>11. CallersWait'
  <2>1. \A p \in Sons \ {cpu} : /\ p \in Pid
                                /\ parent_id[p] # cpu /\ parent_id[p] # parent
    BY <1>1, <1>2 DEF Coherent, CallersWait, Sons, Live
  <2> QED BY <2>1, <1>4, <1>7, <1>8, Basics DEF Coherent, CallersWait
<1>12. HaltsKnow'
  BY <1>4, <1>7, <1>8 DEF Coherent, HaltsKnow, HaltPoints
<1>13. ShellsStay'
  BY <1>1, <1>4, <1>7, Basics DEF Coherent, ShellsStay, Listed
<1>14. PageMapped'
  BY <1>1, <1>4, <1>8 DEF PageMapped
<1>15. Homes(home)'
  <2>1. home[parent] = E
    BY <1>1, Basics DEF Coherent, Homes, Running
  <2> QED BY <2>1, <1>4, <1>8, <1>9 DEF Coherent, Homes
<1>16. Accounted'
  <2>1. process' = {p \in Pid : at'[p] \in Listed}
    BY <1>1, <1>3, <1>4, <1>7 DEF Coherent, Accounted, Listed
  <2>2. \A p \in Pid : at'[p] # "restart"
    BY <1>7 DEF Coherent, Accounted
  <2>3. \A p \in Pid : at'[p] = "exec" => \E r \in Sons' : parent_id'[r] = p
    BY <1>4, <1>7, <1>8 DEF Coherent, Accounted
  <2>4. \A p \in Pid : at'[p] \in Interruptible =>
            \E t \in active : Thread(t)' = p
    BY <1>7, <1>9, Basics DEF Coherent, Accounted, Interruptible, HaltPoints
  <2> QED BY <2>1, <2>2, <2>3, <2>4, <1>4 DEF Accounted
<1>17. Coherent(home)'
  BY <1>10, <1>11, <1>12, <1>13, <1>14, <1>15, <1>16
        DEF Coherent
<1> QED BY <1>1, <1>3, <1>4, <1>6, <1>7, <1>8, <1>17

(* The timer stores the running thread's frame in the PCB it will be       *)
(* looked up in, and the frame it loads is the one last stored there       *)
(* (scheduling.c:52-79).                                                   *)
LEMMA PITCoherent ==
    ASSUME IInv, NEW home \in Homing, Coherent(home), PIT_handler
    PROVE  ~lost' /\ Coherent(home)' /\ at' = at
<1> DEFINE E == curr_terminal_executing
           next == NextActive(next_terminal_executing)
           page == program_pid[next]
<1>1. next \in active
  BY Basics, NextActiveInUse DEF IInv, TypeOK
<1>2. /\ curr_terminal_executing' = next /\ mapped' = page
      /\ esp' = [esp EXCEPT ![Running] = Saved(cpu, at[cpu])]
      /\ Resume(esp'[page], page, at)
      /\ UNCHANGED <<process, active, base_pid, program_pid, parent_id,
                     parent_esp>>
  BY DEF PIT_handler, terminals
<1>3. /\ Running \in Pid /\ page \in Pid /\ cpu \in Pid
      /\ at[cpu] \in Interruptible
  BY <1>1, Basics DEF Running
<1>4. \A p \in Pid : esp'[p] = IF p = Running THEN Saved(cpu, at[cpu])
                               ELSE esp[p]
  BY <1>2, <1>3 DEF IInv, TypeOK
<1>5. /\ esp'[page].stack = Thread(next)
      /\ esp'[page].kind = Depth(at[Thread(next)])
  <2>1. CASE next = E
    BY <2>1, <1>3, <1>4, Basics DEF Running, Saved
  <2>2. CASE next # E
    <3>1. page # Running
      BY <1>1, <2>2, Distinct, Basics DEF Coherent, Running
    <3> QED BY <1>1, <1>3, <1>4, <2>2, <3>1 DEF Coherent, ThreadsStand, Thread
  <2> QED BY <2>1, <2>2
<1>6. /\ at[Thread(next)] \in Interruptible /\ Thread(next) \in Pid
      /\ at[Thread(next)] = "user" => page = Thread(next)
  BY <1>1, Basics DEF Coherent, ThreadsStand, Left
<1>7. /\ esp'[page].kind \notin {"exec", "restart"}
      /\ esp'[page].kind = "user" => at[Thread(next)] = "user"
  BY <1>5, <1>6 DEF Depth, Interruptible, HaltPoints
<1>8. /\ lost' = FALSE /\ cpu' = Thread(next) /\ at' = at
      /\ locals' = [p \in Pid |-> IF at[p] = "gone" THEN NoLocals
                                  ELSE locals[p]]
  BY <1>2, <1>5, <1>6, <1>7 DEF Resume, Resumable
<1>9. \A t \in active : Thread(t)' = Thread(t)
  <2> SUFFICES ASSUME NEW t \in active
               PROVE  Thread(t)' = Thread(t)
    OBVIOUS
  <2>1. CASE t = next
    BY <2>1, <1>2, <1>8 DEF Thread
  <2>2. CASE t # next /\ t = E
    BY <2>2, <1>2, <1>3, <1>4 DEF Thread, Running, Saved
  <2>3. CASE t # next /\ t # E
    <3>1. program_pid[t] # Running
      BY <2>3, Distinct, Basics DEF Coherent, Running
    <3> QED BY <2>3, <3>1, <1>2, <1>4, Basics DEF Thread
  <2> QED BY <2>1, <2>2, <2>3
<1>10. /\ Live' = Live /\ BaseShell' = BaseShell /\ Sons' = Sons
       /\ Running' = page
  BY <1>2, <1>8 DEF Live, BaseShell, Sons, Running
<1>11. ThreadsStand'
  <2> SUFFICES ASSUME NEW t \in active, t # next
               PROVE  esp'[program_pid[t]].kind = Depth(at[Thread(t)])
    BY <1>2, <1>8, <1>9 DEF Coherent, ThreadsStand
  <2>1. CASE t = E
    BY <2>1, <1>3, <1>4, Basics DEF Running, Saved
  <2>2. CASE t # E
    <3>1. program_pid[t] # Running
      BY <2>2, Distinct, Basics DEF Coherent, Running
    <3> QED BY <2>2, <3>1, <1>4, Basics DEF Coherent, ThreadsStand
  <2> QED BY <2>1, <2>2
<1>12. CallersWait' /\ ShellsStay' /\ PageMapped' /\ Homes(home)'
  BY <1>2, <1>8, <1>9, <1>10
     DEF Coherent, CallersWait, ShellsStay, PageMapped, Homes
<1>13. HaltsKnow'
  BY <1>2, <1>8, <1>10 DEF Coherent, HaltsKnow, HaltPoints
<1>14. Accounted'
  BY <1>2, <1>8, <1>9, <1>10 DEF Coherent, Accounted
<1> QED BY <1>8, <1>11, <1>12, <1>13, <1>14 DEF Coherent

(* The table is never full for a base shell that restarts.                 *)
LEMMA RoomForRestart ==
    ASSUME IInv, Running \in process
    PROVE  ~TooMany(active, process \ {Running})
<1> DEFINE freed == process \ {Running}
<1>1. /\ process \subseteq Pid /\ active \subseteq Terminal
      /\ freed \subseteq Pid /\ freed # Pid
      /\ T - Cardinality(active) <= N - Cardinality(process)
  BY DEF IInv, TypeOK, Reserve
<1>2. /\ Cardinality(process) \in 0 .. N /\ Cardinality(freed) \in 0 .. N
      /\ Cardinality(active) \in 0 .. T /\ IsFiniteSet(freed)
  BY <1>1, PidSet, TerminalSet
<1>3. Cardinality(process) = Cardinality(freed) + 1
  <2>1. process = freed \cup {Running} /\ Running \notin freed
    OBVIOUS
  <2> HIDE DEF freed
  <2> QED BY <2>1, <1>2, FS_AddElement
<1> QED BY <1>1, <1>2, <1>3, NTAssumption DEF TooMany

(* A base shell that halts is restarted on its own pid, unless the         *)
(* hazard `base` strikes: nothing the invariant speaks of changes.         *)
LEMMA HaltBaseCoherent ==
    ASSUME IInv, NEW home \in Homing, Coherent(home), ~lost,
           HaltBase, hazards' = {}
    PROVE  /\ ~lost' /\ Coherent(home)'
           /\ process' = process /\ active' = active /\ at' = at
           /\ program_pid' = program_pid
           /\ \A p \in Pid : p # Running => parent_id'[p] = parent_id[p]
<1> DEFINE E == curr_terminal_executing
           freed == process \ {Running}
           callee == [stack |-> cpu, kind |-> "restart"]
<1>1. /\ at[cpu] = "user" /\ cpu \in Pid /\ Running = cpu
      /\ Running = base_pid[E]
  BY Basics DEF HaltBase, AtUser, Left
<1>2. Running \in process /\ active' = active
  BY <1>1, Basics DEF Coherent, Accounted, Listed, HaltBase
<1>3. PICK q \in LowestFree(freed) :
          /\ process' = freed \cup {q}
          /\ program_pid' = [program_pid EXCEPT ![E] = q]
          /\ StartProgram(Running, q, callee, "restart")
          /\ hazards' = hazards \cup Cause("base", q # Running)
                            \cup Cause("reuse", q # cpu /\ StackInUse(q))
  BY <1>2, RoomForRestart DEF HaltBase
<1>4. q = Running
  BY <1>3 DEF Cause
<1>5. /\ process' = process /\ program_pid' = program_pid
      /\ mapped' = cpu /\ cpu' = cpu /\ at' = at
  BY <1>1, <1>2, <1>3, <1>4 DEF StartProgram, IInv, TypeOK, Running
<1>6. /\ \A p \in Pid \ {cpu} : /\ parent_id'[p] = parent_id[p]
                                /\ parent_esp'[p] = parent_esp[p]
                                /\ esp'[p] = esp[p]
                                /\ locals'[p] = locals[p]
      /\ base_pid' = base_pid /\ curr_terminal_executing' = E /\ lost' = lost
  BY <1>1, <1>3, <1>4 DEF StartProgram, HaltBase, IInv, TypeOK, schedule
<1>7. /\ Live' = Live /\ BaseShell' = BaseShell /\ Sons' = Sons
      /\ Running' = Running /\ cpu \notin Sons
  <2>1. cpu \in BaseShell
    BY <1>1, Basics DEF BaseShell
  <2> QED BY <1>2, <1>5, <1>6, <2>1 DEF Live, BaseShell, Sons, Running
<1>8. \A t \in active : /\ t # E => program_pid[t] # cpu /\ Thread(t) # cpu
                        /\ Thread(t)' = Thread(t)
  <2>1. \A t \in active : t # E => program_pid[t] # cpu /\ Thread(t) # cpu
    BY Distinct, Basics DEF Coherent
  <2> QED BY <2>1, <1>5, <1>6, Basics DEF Thread
<1>9. ThreadsStand'
  BY <1>1, <1>2, <1>5, <1>6, <1>8, Basics DEF Coherent, ThreadsStand, Left
<1>10. CallersWait'
  BY <1>5, <1>6, <1>7 DEF Coherent, CallersWait, Sons, Live
<1>11. HaltsKnow'
  BY <1>1, <1>5, <1>6, <1>7 DEF Coherent, HaltsKnow, HaltPoints
<1>12. ShellsStay' /\ PageMapped'
  BY <1>1, <1>2, <1>5, <1>6, <1>7 DEF Coherent, ShellsStay, PageMapped
<1>13. Homes(home)'
  BY <1>2, <1>5, <1>6, <1>7, <1>8 DEF Coherent, Homes, Sons, Live
<1>14. Accounted'
  <2>1. \A p \in Pid : at[p] = "exec" => \E r \in Sons' : parent_id'[r] = p
    BY <1>6, <1>7 DEF Coherent, Accounted, Sons, Live
  <2> QED BY <2>1, <1>2, <1>5, <1>8 DEF Coherent, Accounted
<1> QED BY <1>1, <1>2, <1>5, <1>6, <1>9, <1>10, <1>11, <1>12, <1>13, <1>14
        DEF Coherent

(* Without the hazard "jam" a shell is started, and on the pid predicted.  *)
LEMMA OpenStarts ==
    ASSUME IInv, NEW home \in Homing, Coherent(home),
           NEW t \in Terminal, Open(t), hazards' = {}
    PROVE  \E q \in LowestFree(process) :
              /\ base_pid' = [base_pid EXCEPT ![t] = q]
              /\ process' = process \cup {q}
              /\ program_pid' = [program_pid EXCEPT ![t] = q]
              /\ StartProgram(q, q, [stack |-> cpu, kind |-> "kbd"], at[cpu])
              /\ esp[Running] = Saved(cpu, at[cpu]) /\ ~StackInUse(q)
<1>1. PICK pid \in NextShellPid(process) :
          /\ base_pid' = [base_pid EXCEPT ![t] = pid]
          /\ IF (~jammer \/ hotjam) /\ ~TooMany(active', process)
             THEN \E q \in LowestFree(process) :
                    /\ process' = process \cup {q}
                    /\ program_pid' = [program_pid EXCEPT ![t] = q]
                    /\ StartProgram(pid, q, [stack |-> cpu, kind |-> "kbd"],
                                    at[cpu])
                    /\ hazards' = hazards
                         \cup Cause("stale", esp[Running] # Saved(cpu, at[cpu]))
                         \cup Cause("reuse", StackInUse(q))
             ELSE /\ program_pid' = [program_pid EXCEPT ![t] = pid]
                  /\ hazards' = hazards \cup {"jam"}
                  /\ UNCHANGED <<process, pcbs, mapped, cpu, at>>
  BY DEF Open
<1>2. PICK q \in LowestFree(process) :
          /\ process' = process \cup {q}
          /\ program_pid' = [program_pid EXCEPT ![t] = q]
          /\ StartProgram(pid, q, [stack |-> cpu, kind |-> "kbd"], at[cpu])
          /\ hazards' = hazards
               \cup Cause("stale", esp[Running] # Saved(cpu, at[cpu]))
               \cup Cause("reuse", StackInUse(q))
  BY <1>1
<1>3. pid = q
  <2>1. 0 \in process
    <3>1. at[0] \in Listed /\ 0 \in Pid
      BY Basics DEF Coherent, ShellsStay
    <3> QED BY <3>1 DEF Coherent, Accounted
  <2>2. q \in Pid /\ q \notin process /\ q # 0
    BY <2>1, LowestFreeType
  <2>3. process # Pid
    BY <2>2
  <2>4. PICK r \in LowestFree(process) : pid = (IF r = 0 THEN 0 ELSE r - 1) + 1
    BY <1>1, <2>3 DEF NextShellPid, CurrentPid
  <2>5. r = q
    <3>1. r <= q /\ q <= r /\ r \in Pid
      BY <2>2, <2>4, LowestFreeType DEF LowestFree
    <3> QED BY <2>2, <3>1, NTAssumption DEF Pid
  <2> QED BY <2>2, <2>4, <2>5, NTAssumption DEF Pid
<1> QED BY <1>1, <1>2, <1>3 DEF Cause

(* A new terminal is the home of its shell; the interrupted thread is      *)
(* saved because the hazard `stale` did not strike.                        *)
LEMMA OpenCoherent ==
    ASSUME IInv, NEW home \in Homing, Coherent(home), ~lost,
           NEW t \in Terminal, Open(t), hazards' = {}
    PROVE  ~lost' /\ \E h \in Homing : Coherent(h)'
<1> DEFINE E == curr_terminal_executing
<1>1. PICK q \in LowestFree(process) :
          /\ base_pid' = [base_pid EXCEPT ![t] = q]
          /\ process' = process \cup {q}
          /\ program_pid' = [program_pid EXCEPT ![t] = q]
          /\ StartProgram(q, q, [stack |-> cpu, kind |-> "kbd"], at[cpu])
          /\ esp[Running] = Saved(cpu, at[cpu]) /\ ~StackInUse(q)
  BY OpenStarts
<1>2. /\ t \notin active /\ active' = active \cup {t}
      /\ curr_terminal_executing' = t /\ locals' = locals /\ lost' = lost
  BY DEF Open
<1>3. q \in Pid /\ q \notin Live /\ at[q] \in {"none", "gone"} /\ q # cpu
  <2>1. q \in Pid /\ at[q] \in {"none", "gone"}
    BY <1>1, LowestFreeType DEF StackInUse
  <2> QED BY <2>1, Basics DEF Live, Interruptible, HaltPoints
<1>4. /\ mapped' = q /\ cpu' = q
      /\ \A p \in Pid :
            /\ at'[p] = IF p = q THEN "user" ELSE at[p]
            /\ p # q => /\ parent_id'[p] = parent_id[p]
                        /\ parent_esp'[p] = parent_esp[p]
                        /\ esp'[p] = esp[p]
  BY <1>1, <1>3, Basics DEF StartProgram, IInv, TypeOK
<1>5. \A u \in active' : /\ program_pid'[u] = IF u = t THEN q ELSE program_pid[u]
                         /\ base_pid'[u] = IF u = t THEN q ELSE base_pid[u]
  BY <1>1, <1>2, Basics DEF IInv, TypeOK
<1>6. \A u \in active : u # t /\ program_pid[u] # q /\ base_pid[u] # q
                        /\ Thread(u) # q
  BY <1>2, <1>3, Alive
<1>7. \A u \in active' : Thread(u)' = IF u = t THEN q ELSE Thread(u)
  <2> SUFFICES ASSUME NEW u \in active'
               PROVE  Thread(u)' = IF u = t THEN q ELSE Thread(u)
    OBVIOUS
  <2>1. CASE u = t
    BY <2>1, <1>2, <1>4 DEF Thread
  <2>2. CASE u # t /\ u = E
    <3>1. program_pid[u] = Running /\ Running \in Pid /\ Running # q
      BY <2>2, <1>6, Basics DEF Running
    <3>2. esp'[program_pid'[u]] = Saved(cpu, at[cpu])
      BY <2>2, <3>1, <1>1, <1>4, <1>5
    <3> QED BY <2>2, <3>2, <1>2 DEF Thread, Saved
  <2>3. CASE u # t /\ u # E
    BY <2>3, <1>2, <1>4, <1>5, <1>6, Basics DEF Thread
  <2> QED BY <2>1, <2>2, <2>3
<1>8. BaseShell' = BaseShell \cup {q} /\ Sons' = Sons /\ q \notin Sons
  <2>1. BaseShell' = BaseShell \cup {q}
    BY <1>2, <1>5, <1>6 DEF BaseShell
  <2>2. Live' = Live \cup {q}
    BY <1>3, <1>4 DEF Live
  <2> QED BY <2>1, <2>2, <1>3 DEF Sons
<1>9. ThreadsStand'
  <2> SUFFICES ASSUME NEW u \in active'
               PROVE  /\ at'[Thread(u)'] \in Interruptible
                      /\ program_pid'[u] = IF at'[Thread(u)'] \in Left
                            THEN parent_id'[Thread(u)'] ELSE Thread(u)'
                      /\ u # t => esp'[program_pid'[u]].kind
                                      = Depth(at'[Thread(u)'])
    BY <1>2 DEF ThreadsStand
  <2>1. CASE u = t
    BY <2>1, <1>3, <1>4, <1>5, <1>7 DEF Interruptible, Left
  <2>2. CASE u # t
    <3>1. /\ u \in active /\ Thread(u)' = Thread(u) /\ Thread(u) # q
          /\ program_pid'[u] = program_pid[u] /\ program_pid[u] # q
          /\ Thread(u) \in Pid /\ program_pid[u] \in Pid
      BY <2>2, <1>2, <1>5, <1>6, <1>7, Basics
    <3>2. esp[program_pid[u]].kind = Depth(at[Thread(u)])
      <4>1. CASE u = E
        BY <4>1, <1>1, Basics DEF Running, Saved
      <4>2. CASE u # E
        BY <4>2, <3>1 DEF Coherent, ThreadsStand
      <4> QED BY <4>1, <4>2
    <3> QED BY <3>1, <3>2, <1>4 DEF Coherent, ThreadsStand
  <2> QED BY <2>1, <2>2
<1>10. CallersWait'
  <2>1. \A p \in Sons : p \in Pid /\ p # q /\ parent_id[p] # q
                        /\ parent_id[p] \in Pid
    BY <1>3, <1>8, Basics DEF Coherent, CallersWait, Sons, Live
  <2> QED BY <1>4, <1>8, <2>1 DEF Coherent, CallersWait
<1>11. HaltsKnow'
  BY <1>2, <1>4, <1>8 DEF Coherent, HaltsKnow, HaltPoints
<1>12. ShellsStay'
  <2>1. \A u \in active' : at'[base_pid'[u]] \in Listed
    BY <1>2, <1>3, <1>4, <1>5, <1>6, Basics DEF Coherent, ShellsStay, Listed
  <2> QED BY <2>1, <1>2, <1>5 DEF Coherent, ShellsStay
<1>13. PageMapped'
  BY <1>2, <1>4, <1>5 DEF PageMapped, Running
<1>14. PICK h \in Homing : h[q] = t /\ \A p \in Pid : p # q => h[p] = home[p]
  <2>1. [home EXCEPT ![q] = t] \in Homing
    BY <1>3 DEF Homing
  <2> QED BY <2>1, <1>3 DEF Homing
<1>15. Homes(h)'
  <2>1. \A u \in active' : /\ h[Thread(u)'] = u
                           /\ h[program_pid'[u]] = u
                           /\ h[base_pid'[u]] = u
    BY <1>2, <1>5, <1>6, <1>7, <1>14, Basics DEF Coherent, Homes
  <2>2. \A p \in Sons' : h[parent_id'[p]] = h[p]
    <3>1. \A p \in Sons : /\ p \in Pid /\ p # q
                          /\ parent_id[p] # q /\ parent_id[p] \in Pid
      BY <1>3, <1>8, Basics DEF Coherent, CallersWait, Sons, Live
    <3> QED BY <3>1, <1>4, <1>8, <1>14 DEF Coherent, Homes
  <2> QED BY <2>1, <2>2 DEF Homes
<1>16. Accounted'
  <2>1. process' = {p \in Pid : at'[p] \in Listed}
    BY <1>1, <1>3, <1>4 DEF Coherent, Accounted, Listed
  <2>2. \A p \in Pid : at'[p] # "restart"
    BY <1>4 DEF Coherent, Accounted
  <2>3. \A p \in Pid : at'[p] = "exec" => \E r \in Sons' : parent_id'[r] = p
    BY <1>4, <1>8 DEF Coherent, Accounted, Sons, Live
  <2>4. \A p \in Pid : at'[p] \in Interruptible =>
            \E u \in active' : Thread(u)' = p
    <3> SUFFICES ASSUME NEW p \in Pid, at'[p] \in Interruptible
                 PROVE  \E u \in active' : Thread(u)' = p
      OBVIOUS
    <3>1. CASE p = q
      BY <3>1, <1>2, <1>7
    <3>2. CASE p # q
      <4>1. PICK u \in active : Thread(u) = p
        BY <3>2, <1>4 DEF Coherent, Accounted
      <4> QED BY <4>1, <1>2, <1>6, <1>7
    <3> QED BY <3>1, <3>2
  <2> QED BY <2>1, <2>2, <2>3, <2>4 DEF Accounted
<1> QED BY <1>2, <1>9, <1>10, <1>11, <1>12, <1>13, <1>14, <1>15, <1>16
        DEF Coherent

-----------------------------------------------------------------------------
-----------------------------------------------------------------------------
(* The inductive invariant, next to IInv.                                  *)
Sound == hazards = {} => ~lost /\ \E home \in Homing : Coherent(home)

LEMMA InitSound == Init => Sound
<1> SUFFICES ASSUME Init PROVE ~lost /\ \E home \in Homing : Coherent(home)
  BY DEF Sound
<1>1. 0 \in Pid /\ 0 \in Terminal
  BY NTAssumption DEF Pid, Terminal
<1>2. PICK home \in Homing : home[0] = 0
  <2>1. [p \in Pid |-> 0] \in Homing
    BY <1>1 DEF Homing
  <2> QED BY <2>1, <1>1
<1>3. /\ active = {0} /\ base_pid[0] = 0 /\ program_pid[0] = 0
      /\ curr_terminal_executing = 0 /\ cpu = 0 /\ mapped = 0 /\ ~lost
      /\ process = {0}
      /\ \A p \in Pid : at[p] = IF p = 0 THEN "user" ELSE "none"
  BY <1>1 DEF Init
<1>4. /\ BaseShell = {0} /\ Live = {0} /\ Sons = {} /\ Running = 0
      /\ Thread(0) = 0
  BY <1>1, <1>3 DEF BaseShell, Live, Sons, Running, Thread
<1>5. ThreadsStand /\ CallersWait /\ HaltsKnow
  BY <1>1, <1>3, <1>4
     DEF ThreadsStand, CallersWait, HaltsKnow, Interruptible, HaltPoints, Left
<1>6. ShellsStay /\ PageMapped /\ Homes(home) /\ Accounted
  BY <1>1, <1>2, <1>3, <1>4
     DEF ShellsStay, PageMapped, Homes, Accounted, Listed, Interruptible,
         HaltPoints
<1> QED BY <1>2, <1>3, <1>5, <1>6 DEF Coherent

(* A hazard that has struck stays recorded.                                *)
LEMMA HazardsGrow == [Next]_vars => hazards \subseteq hazards'
  BY DEF Next, vars, Execute, HaltBase, HaltEnter, HaltStep, HaltFree,
         HaltRestore, HaltMap, HaltJump, PIT_handler, SwitchTo, Open, Write,
         ReadBegin, ReadLine, ReadReturn, ReadCut, ReturnToUser, Lost

(* The system calls that stay in their terminal.                           *)
LEMMA ReadWriteCoherent ==
    ASSUME IInv, NEW home \in Homing, Coherent(home), ~lost,
           Write \/ ReadBegin \/ ReadLine \/ ReadReturn \/ ReadCut \/ HaltEnter
             \/ HaltFree \/ \E t \in Terminal : SwitchTo(t)
    PROVE  ~lost' /\ Coherent(home)'
<1> DEFINE E == curr_terminal_executing
<1>1. CASE Write \/ \E t \in Terminal : SwitchTo(t)
  <2>1. UNCHANGED <<process, active, base_pid, program_pid,
                    curr_terminal_executing, pcbs, threads>>
    BY <1>1 DEF Write, SwitchTo, terminals, schedule
  <2> QED BY <2>1, Untouched DEF threads
<1>2. at[cpu] \notin Left => cpu \in Pid /\ Running = cpu
  BY Basics
<1>3. at[cpu] # "restored" => mapped = Running
  BY DEF Coherent, PageMapped
<1>4. ASSUME NEW a \in {"user", "read", "spin"},
             at[cpu] \in {"user", "read", "spin"},
             at' = [at EXCEPT ![cpu] = a],
             UNCHANGED <<process, terminals, schedule, pcbs, locals, mapped,
                         cpu>>
      PROVE  Coherent(home)'
  <2>1. mapped' = Running
    BY <1>3, <1>4
  <2> QED BY <1>4, <2>1, MoveCoherent
          DEF Interruptible, HaltPoints, Left, Listed, terminals, schedule
<1>5. CASE ReadBegin \/ ReadLine
  <2>1. lost' = lost
    BY <1>5 DEF ReadBegin, ReadLine
  <2> QED BY <2>1, <1>4, <1>5 DEF ReadBegin, ReadLine, AtUser
<1>6. CASE ReadReturn \/ ReadCut
  <2>1. /\ at[cpu] \in {"read", "spin"} /\ at' = [at EXCEPT ![cpu] = "user"]
        /\ lost' = (mapped # cpu)
        /\ UNCHANGED <<process, terminals, schedule, pcbs, locals, mapped,
                       cpu>>
    BY <1>6 DEF ReadReturn, ReadCut, ReturnToUser
  <2>2. mapped = cpu
    BY <2>1, <1>2, <1>3 DEF Left
  <2> QED BY <2>1, <2>2, <1>4
<1>7. CASE HaltEnter
  <2>1. /\ at[cpu] = "user" /\ at' = [at EXCEPT ![cpu] = "halting"]
        /\ Running # base_pid[E] /\ lost' = lost
        /\ locals' = [locals EXCEPT ![cpu] = [curr_pid |-> Running,
                                      parent_pcb |-> parent_id[Running]]]
        /\ UNCHANGED <<process, terminals, schedule, pcbs, mapped, cpu>>
    BY <1>7 DEF HaltEnter, AtUser
  <2>2. cpu \in Pid /\ Running = cpu /\ mapped' = Running
    BY <2>1, <1>2, <1>3 DEF Left
  <2>3. cpu \notin BaseShell
    BY <2>1, <2>2, Distinct, Basics DEF Coherent, BaseShell
  <2>4. /\ locals'[cpu] = [curr_pid |-> cpu, parent_pcb |-> parent_id[cpu]]
        /\ \A p \in Pid \ {cpu} : locals'[p] = locals[p]
    BY <2>1, <2>2 DEF IInv, TypeOK
  <2> QED BY <2>1, <2>2, <2>3, <2>4, MoveCoherent
          DEF Interruptible, HaltPoints, Left, Listed, terminals, schedule
<1>8. CASE HaltFree
  <2>1. /\ at[cpu] = "halting" /\ at' = [at EXCEPT ![cpu] = "freed"]
        /\ process' = process \ {Running} /\ lost' = lost
        /\ UNCHANGED <<terminals, schedule, pcbs, locals, mapped, cpu>>
    BY <1>8 DEF HaltFree
  <2>2. cpu \in Pid /\ Running = cpu /\ mapped' = Running
    BY <2>1, <1>2, <1>3 DEF Left
  <2>3. /\ cpu \notin BaseShell
        /\ locals'[cpu] = [curr_pid |-> cpu, parent_pcb |-> parent_id[cpu]]
    BY <2>1, <2>2 DEF Coherent, HaltsKnow, HaltPoints
  <2> QED BY <2>1, <2>2, <2>3, MoveCoherent
          DEF Interruptible, HaltPoints, Left, Listed, terminals, schedule
<1> QED BY <1>1, <1>5, <1>6, <1>7, <1>8

LEMMA StepSound == IInv /\ Sound /\ [Next]_vars => Sound'
<1> SUFFICES ASSUME IInv, Sound, [Next]_vars, hazards' = {}
             PROVE  ~lost' /\ \E home \in Homing : Coherent(home)'
  BY DEF Sound
<1>1. hazards = {} /\ ~lost
  BY HazardsGrow DEF Sound
<1>2. PICK home \in Homing : Coherent(home)
  BY <1>1 DEF Sound
<1>3. CASE Execute
  BY <1>1, <1>2, <1>3, ExecuteCoherent
<1>4. CASE HaltBase
  BY <1>1, <1>2, <1>4, HaltBaseCoherent
<1>5. CASE HaltRestore \/ HaltMap
  <2>1. lost' = lost
    BY <1>5 DEF HaltRestore, HaltMap
  <2> QED BY <2>1, <1>1, <1>2, <1>5, HaltRestoreCoherent, HaltMapCoherent
<1>6. CASE HaltJump
  BY <1>2, <1>6, HaltJumpCoherent
<1>7. CASE PIT_handler
  BY <1>2, <1>7, PITCoherent
<1>8. CASE \E t \in Terminal : Open(t)
  BY <1>1, <1>2, <1>8, OpenCoherent
<1>9. CASE Write \/ ReadBegin \/ ReadLine \/ ReadReturn \/ ReadCut \/ HaltEnter
             \/ HaltFree \/ \E t \in Terminal : SwitchTo(t)
  BY <1>1, <1>2, <1>9, ReadWriteCoherent
<1>10. CASE Lost
  BY <1>1, <1>10 DEF Lost
<1>11. CASE UNCHANGED vars
  <2>1. UNCHANGED <<process, active, base_pid, program_pid,
                    curr_terminal_executing, pcbs, threads>>
    BY <1>11 DEF vars, terminals, schedule
  <2> QED BY <2>1, <1>1, <1>2, Untouched DEF threads
<1> QED BY <1>3, <1>4, <1>5, <1>6, <1>7, <1>8, <1>9, <1>10, <1>11
        DEF Next, HaltStep

-----------------------------------------------------------------------------
(* The inductive invariant holds of every behaviour, for any number of     *)
(* processes and terminals.                                                *)
THEOREM AlwaysSound == Spec => [](IInv /\ Sound)
<1>1. Init => IInv /\ Sound
  BY InitInv, InitSound
<1>2. IInv /\ Sound /\ [Next]_vars => (IInv /\ Sound)'
  BY StepInv, StepSound
<1> QED BY <1>1, <1>2, PTL DEF Spec

(* No thread is ever resumed at a frame that is not its own, and none      *)
(* runs in another's page, unless one of the four hazards has struck       *)
(* (system_call.c:96-105, scheduling.c:52-79).                             *)
THEOREM NotLost == Spec => []NeverLost
<1>1. Sound => NeverLost
  BY DEF Sound, NeverLost
<1> QED BY AlwaysSound, <1>1, PTL

(* The context in the PCB of every waiting program is the one it was       *)
(* suspended in (scheduling.c:52-79).                                      *)
THEOREM ContextsKept == Spec => []ContextsSaved
<1>1. IInv /\ Sound => ContextsSaved
  <2> SUFFICES ASSUME IInv, Sound, hazards = {},
                      NEW t \in active \ {curr_terminal_executing}
               PROVE  Resumable(esp[program_pid[t]], at)
    BY DEF ContextsSaved
  <2>1. PICK home \in Homing : Coherent(home)
    BY DEF Sound
  <2> QED BY <2>1 DEF Coherent, ThreadsStand, Resumable, Thread
<1> QED BY AlwaysSound, <1>1, PTL

(* Only the jump of halt leaves a stack.                                   *)
LEMMA OnlyJumpLeaves ==
    ASSUME IInv, NEW home \in Homing, Coherent(home), ~lost, hazards = {},
           [Next]_vars, at[cpu] = "leaving", at'[cpu] = "gone"
    PROVE  HaltJump
<1>1. CASE Execute \/ HaltBase \/ HaltEnter \/ HaltFree \/ HaltRestore \/ HaltMap
  BY <1>1 DEF Execute, HaltBase, HaltEnter, HaltFree, HaltRestore, HaltMap, AtUser
<1>2. CASE PIT_handler
  <2>1. at' = at
    BY <1>2, PITCoherent
  <2> QED BY <2>1
<1>3. CASE \E t \in Terminal : Open(t)
  <2>1. PICK t \in Terminal : Open(t)
    BY <1>3
  <2>2. CASE UNCHANGED at
    BY <2>2
  <2>3. CASE \E q, pid : StartProgram(pid, q, [stack |-> cpu, kind |-> "kbd"],
                                        at[cpu])
    BY <2>3, Basics DEF StartProgram, IInv, TypeOK
  <2> QED BY <2>1, <2>2, <2>3 DEF Open
<1>4. CASE (\E t \in Terminal : SwitchTo(t)) \/ Write \/ Lost \/ UNCHANGED vars
  BY <1>4 DEF SwitchTo, Write, Lost, vars, threads
<1>5. CASE ReadBegin \/ ReadLine \/ ReadReturn \/ ReadCut
  BY <1>5 DEF ReadBegin, ReadLine, ReadReturn, ReadCut, AtUser
<1> QED BY <1>1, <1>2, <1>3, <1>4, <1>5 DEF Next, HaltStep

(* halt returns to the execute that called the program, in the program     *)
(* its terminal names and with its page mapped (system_call.c:66-105).     *)
THEOREM HaltReturns == Spec => HaltReturnsToCaller
<1> DEFINE Returns ==
        (hazards = {} /\ at[cpu] = "leaving" /\ at'[cpu] = "gone") =>
           /\ at[cpu'] = "exec" /\ at'[cpu'] = "user"
           /\ cpu' = program_pid'[curr_terminal_executing']
           /\ mapped' = cpu'
<1>1. IInv /\ Sound /\ [Next]_vars => Returns
  <2> SUFFICES ASSUME IInv, Sound, [Next]_vars, hazards = {},
                      at[cpu] = "leaving", at'[cpu] = "gone"
               PROVE  Returns
    OBVIOUS
  <2>1. PICK home \in Homing : Coherent(home) /\ ~lost
    BY DEF Sound
  <2>2. HaltJump
    BY <2>1, OnlyJumpLeaves
  <2> QED BY <2>1, <2>2, HaltJumpCoherent DEF Running
<1>2. IInv /\ Sound /\ [Next]_vars => [Returns]_vars
  BY <1>1
<1> HIDE DEF Returns
<1>3. Spec => [][Returns]_vars
  BY AlwaysSound, <1>2, PTL DEF Spec
<1> QED BY <1>3 DEF HaltReturnsToCaller, Returns

-----------------------------------------------------------------------------
(* The places of programs that are on a terminal.                          *)
LEMMA OnTerminalPlaces ==
    ASSUME IInv, NEW home \in Homing, Coherent(home)
    PROVE  /\ OnTerminal = {p \in Pid : at[p] \in Listed \cup {"freed"}}
           /\ Called = {p \in Sons : at[p] \notin Left}
           /\ OnTerminal \subseteq Live
<1>1. OnTerminal = {p \in Pid : at[p] \in Listed \cup {"freed"}}
  BY DEF OnTerminal, Coherent, Accounted
<1>2. \A p \in Pid : at[p] \in Listed \cup {"freed"} <=>
                         p \in Live /\ at[p] \notin Left
  BY Basics DEF Coherent, Accounted, Listed, Live, Left, Points, Interruptible,
                HaltPoints
<1>3. Called = {p \in Sons : at[p] \notin Left}
  BY <1>1, <1>2 DEF Called, Sons, Live
<1> QED BY <1>1, <1>2, <1>3

(* What a program on a terminal is: on top of one, or the parent of one.   *)
LEMMA TopOrCaller ==
    ASSUME IInv, NEW home \in Homing, Coherent(home), NEW p \in Pid
    PROVE  LET tops == {t \in active : program_pid[t] = p}
               sons == {q \in Called : parent_id[q] = p} IN
           IF p \in OnTerminal
           THEN \/ sons = {} /\ \E t : tops = {t}
                \/ tops = {} /\ \E q : sons = {q}
           ELSE tops = {} /\ sons = {}
<1> DEFINE tops == {t \in active : program_pid[t] = p}
           sons == {q \in Called : parent_id[q] = p}
<1>1. \A t, u \in tops : t = u
  BY DEF Coherent, Homes
<1>2. \A q, r \in sons : q = r
  BY OnTerminalPlaces DEF Coherent, CallersWait
<1>3. sons # {} => at[p] = "exec"
  BY OnTerminalPlaces DEF Coherent, CallersWait
<1>4. \A t \in tops : \/ Thread(t) = p /\ at[p] \in Interruptible \ Left
                      \/ /\ at[Thread(t)] \in Left /\ Thread(t) \in Sons
                         /\ parent_id[Thread(t)] = p /\ at[p] = "exec"
  <2> SUFFICES ASSUME NEW t \in tops
               PROVE  \/ Thread(t) = p /\ at[p] \in Interruptible \ Left
                      \/ /\ at[Thread(t)] \in Left /\ Thread(t) \in Sons
                         /\ parent_id[Thread(t)] = p /\ at[p] = "exec"
    OBVIOUS
  <2>1. CASE at[Thread(t)] \in Left
    <3>1. Thread(t) \in Sons /\ parent_id[Thread(t)] = p
      BY <2>1, Basics, Alive
         DEF Coherent, ThreadsStand, HaltsKnow, Left, HaltPoints, Sons
    <3> QED BY <2>1, <3>1 DEF Coherent, CallersWait
  <2>2. CASE at[Thread(t)] \notin Left
    BY <2>2 DEF Coherent, ThreadsStand
  <2> QED BY <2>1, <2>2
<1>5. CASE at[p] = "exec"
  <2>1. PICK q \in Sons : parent_id[q] = p
    BY <1>5 DEF Coherent, Accounted
  <2>2. p \in OnTerminal
    BY <1>5, OnTerminalPlaces DEF Listed
  <2>3. CASE at[q] \in Left
    <3>1. PICK t \in active : Thread(t) = q
      BY <2>3 DEF Coherent, Accounted, Sons, Live, Left, Interruptible, HaltPoints
    <3>2. t \in tops
      BY <2>1, <2>3, <3>1 DEF Coherent, ThreadsStand
    <3>3. sons = {}
      BY <2>1, <2>3, OnTerminalPlaces DEF Coherent, CallersWait
    <3> QED BY <1>1, <2>2, <3>2, <3>3
  <2>4. CASE at[q] \notin Left
    <3>1. q \in sons
      BY <2>1, <2>4, OnTerminalPlaces
    <3>2. tops = {}
      BY <1>4, <1>5, <2>1, <2>4
         DEF Coherent, CallersWait, Interruptible, HaltPoints
    <3> QED BY <1>2, <2>2, <3>1, <3>2
  <2> QED BY <2>3, <2>4
<1>6. CASE at[p] \in Interruptible \ Left
  <2>1. PICK t \in active : Thread(t) = p
    BY <1>6 DEF Coherent, Accounted
  <2>2. t \in tops
    BY <1>6, <2>1 DEF Coherent, ThreadsStand
  <2>3. sons = {} /\ p \in OnTerminal
    BY <1>3, <1>6, OnTerminalPlaces DEF Interruptible, HaltPoints, Left, Listed
  <2> QED BY <1>1, <2>2, <2>3
<1>7. CASE at[p] # "exec" /\ at[p] \notin Interruptible \ Left
  <2>1. p \notin OnTerminal
    BY <1>7, OnTerminalPlaces DEF Interruptible, HaltPoints, Left, Listed
  <2> QED BY <1>3, <1>4, <1>7, <2>1
<1> QED BY <1>5, <1>6, <1>7

(* No process[] entry leaks and none is freed while a session needs it     *)
(* (system_call.c:69, 276-296, 673-676).                                   *)
THEOREM TableKept == Spec => []TableExact
<1>1. IInv /\ Sound => TableExact
  <2> SUFFICES ASSUME IInv, Sound, hazards = {}, NEW p \in Pid
               PROVE  Cardinality({t \in active : program_pid[t] = p})
                          + Cardinality({q \in Called : parent_id[q] = p})
                      = IF p \in OnTerminal THEN 1 ELSE 0
    BY DEF TableExact, Intact
  <2> DEFINE tops == {t \in active : program_pid[t] = p}
             sons == {q \in Called : parent_id[q] = p}
  <2>1. IF p \in OnTerminal
        THEN \/ sons = {} /\ \E t : tops = {t}
             \/ tops = {} /\ \E q : sons = {q}
        ELSE tops = {} /\ sons = {}
    BY TopOrCaller DEF Sound
  <2> SUFFICES Cardinality(tops) + Cardinality(sons)
                   = IF p \in OnTerminal THEN 1 ELSE 0
    OBVIOUS
  <2> HIDE DEF tops, sons
  <2>2. ASSUME NEW S, \E x : S = {x} PROVE Cardinality(S) = 1 /\ S # {}
    BY <2>2, FS_Singleton
  <2>3. Cardinality({}) = 0
    BY FS_EmptySet
  <2>4. CASE p \in OnTerminal
    <3>1. \/ Cardinality(tops) = 1 /\ Cardinality(sons) = 0
          \/ Cardinality(tops) = 0 /\ Cardinality(sons) = 1
      BY <2>1, <2>2, <2>3, <2>4
    <3> QED BY <2>4, <3>1
  <2>5. CASE p \notin OnTerminal
    BY <2>1, <2>3, <2>5
  <2> QED BY <2>4, <2>5
<1> QED BY AlwaysSound, <1>1, PTL

-----------------------------------------------------------------------------
(* The refinement mapping, read off a coherent state.                      *)
LEMMA Mapping ==
    ASSUME hazards = {}
    PROVE  /\ Intact /\ Turn = curr_terminal_executing
           /\ Caller = [p \in Pid |-> IF p \in Called THEN parent_id[p]
                                     ELSE NoPid]
           /\ Root = [t \in Terminal |-> IF t \in active THEN base_pid[t]
                                        ELSE NoPid]
           /\ Top = [t \in Terminal |-> IF t \in active THEN program_pid[t]
                                       ELSE NoPid]
  BY DEF Intact, Turn, Caller, Root, Top

(* ... and in the next one.                                                *)
LEMMA MappingNext ==
    ASSUME hazards' = {}
    PROVE  /\ Intact' /\ Turn' = curr_terminal_executing'
           /\ Caller' = [p \in Pid |-> IF p \in Called' THEN parent_id'[p]
                                      ELSE NoPid]
           /\ Root' = [t \in Terminal |-> IF t \in active' THEN base_pid'[t]
                                         ELSE NoPid]
           /\ Top' = [t \in Terminal |-> IF t \in active' THEN program_pid'[t]
                                        ELSE NoPid]
  BY DEF Intact, Turn, Caller, Root, Top

(* Steps that Sessions does not see.                                       *)
LEMMA Stutter ==
    ASSUME hazards = {}, hazards' = {}, Called' = Called,
           \A p \in Called : parent_id'[p] = parent_id[p],
           UNCHANGED <<active, base_pid, program_pid>>
    PROVE  /\ UNCHANGED <<Caller, Root, Top, Intact>>
           /\ curr_terminal_executing' = curr_terminal_executing =>
                 UNCHANGED Promise!vars
  BY Mapping, MappingNext DEF Promise!vars

(* After boot there is one session, of one shell.                          *)
LEMMA InitRefines == Init => Promise!Init
<1> SUFFICES ASSUME Init PROVE Promise!Init
  OBVIOUS
<1>1. 0 \in Pid /\ 0 \in Terminal
  BY NTAssumption DEF Pid, Terminal
<1>2. hazards = {} /\ active = {0} /\ curr_terminal_executing = 0
      /\ base_pid[0] = 0 /\ program_pid[0] = 0
  BY <1>1 DEF Init
<1>3. Called = {}
  BY <1>1, <1>2 DEF Init, Called, OnTerminal, BaseShell
<1>4. /\ Caller = [p \in Pid |-> NoPid] /\ Turn = 0 /\ Intact = TRUE
      /\ Root = [[t \in Terminal |-> NoPid] EXCEPT ![0] = 0] /\ Top = Root
  BY <1>1, <1>2, <1>3, Mapping
<1> QED BY <1>1, <1>4 DEF Promise!Init, Promise!Nothing

(* execute pushes a program that is on no terminal.                        *)
LEMMA ExecutePushes ==
    ASSUME IInv, NEW home \in Homing, Coherent(home),
           hazards = {}, hazards' = {}, Execute
    PROVE  \E q \in Pid : Promise!Push(q)
<1> DEFINE E == curr_terminal_executing
<1>1. PICK q \in LowestFree(process) :
          /\ process' = process \cup {q}
          /\ program_pid' = [program_pid EXCEPT ![E] = q]
          /\ StartProgram(Running, q, [stack |-> cpu, kind |-> "exec"], "exec")
          /\ hazards' = hazards \cup Cause("reuse", StackInUse(q))
  BY DEF Execute
<1>2. /\ at[cpu] = "user" /\ active' = active /\ base_pid' = base_pid
      /\ curr_terminal_executing' = E
  BY DEF Execute, AtUser, schedule
<1>3. q \in Pid /\ q \notin Live
  BY <1>1, LowestFreeType DEF Cause, StackInUse, Live
<1>4. /\ \A p \in Pid : /\ at'[p] = "freed" <=> at[p] = "freed"
                        /\ p # q => parent_id'[p] = parent_id[p]
      /\ parent_id'[q] = Running
  BY <1>1, <1>2, <1>3, Basics DEF StartProgram, IInv, TypeOK, Live
<1>5. Called' = Called \cup {q} /\ q \notin Called /\ q \notin BaseShell
  <2>1. OnTerminal' = OnTerminal \cup {q}
    BY <1>1, <1>4 DEF OnTerminal
  <2>2. BaseShell' = BaseShell
    BY <1>2 DEF BaseShell
  <2> QED BY <2>1, <2>2, <1>3, Alive, OnTerminalPlaces DEF Called
<1>6. E \in Terminal /\ E \in active
      /\ program_pid \in [Terminal -> Pid \cup {NoPid}]
  BY Basics DEF IInv, TypeOK
<1>7. Called \subseteq Pid
  BY OnTerminalPlaces DEF Called
<1>8. q \notin Promise!Busy
  BY <1>3, <1>5, Mapping, Basics
     DEF Promise!Busy, Promise!Roots, BaseShell, NoPid, Pid
<1>9. Caller' = [Caller EXCEPT ![q] = Top[Turn]]
  BY <1>3, <1>4, <1>5, <1>6, <1>7, Mapping, MappingNext DEF Running
<1>10. Top' = [Top EXCEPT ![Turn] = q]
  BY <1>1, <1>2, <1>3, <1>6, Mapping, MappingNext
<1>11. UNCHANGED <<Root, Turn, Intact>>
  BY <1>2, Mapping, MappingNext
<1>12. Intact
  BY Mapping
<1> QED BY <1>3, <1>8, <1>9, <1>10, <1>11, <1>12 DEF Promise!Push

(* The statement of halt that restores program_pid is the one at which     *)
(* the session pops; the others are stuttering steps.                      *)
LEMMA HaltRestorePops ==
    ASSUME IInv, NEW home \in Homing, Coherent(home),
           hazards = {}, hazards' = {}, HaltRestore
    PROVE  Promise!Pop
<1> DEFINE E == curr_terminal_executing
<1>1. at[cpu] = "freed" /\ cpu \in Pid /\ Running = cpu
  BY Basics DEF HaltRestore, Left
<1>2. /\ cpu \in Called /\ cpu \notin BaseShell /\ cpu \notin process
      /\ locals[cpu].parent_pcb = parent_id[cpu]
  <2>1. /\ cpu \notin BaseShell
        /\ locals[cpu] = [curr_pid |-> cpu, parent_pcb |-> parent_id[cpu]]
    BY <1>1 DEF Coherent, HaltsKnow, HaltPoints
  <2> QED BY <1>1, <2>1 DEF Called, OnTerminal, Coherent, Accounted, Listed
<1>3. /\ program_pid' = [program_pid EXCEPT ![E] = parent_id[cpu]]
      /\ at' = [at EXCEPT ![cpu] = "restored"]
      /\ UNCHANGED <<process, active, base_pid, curr_terminal_executing,
                     parent_id>>
  BY <1>2 DEF HaltRestore, schedule, pcbs
<1>4. Called' = Called \ {cpu}
  <2>1. OnTerminal' = OnTerminal \ {cpu}
    BY <1>1, <1>2, <1>3 DEF OnTerminal, IInv, TypeOK
  <2> QED BY <2>1, <1>3 DEF Called, BaseShell
<1>5. /\ E \in Terminal /\ E \in active /\ base_pid[E] \in BaseShell
      /\ program_pid \in [Terminal -> Pid \cup {NoPid}] /\ program_pid[E] = cpu
  BY <1>1, Basics DEF IInv, TypeOK, BaseShell, Running
<1>6. /\ Turn = E /\ Intact /\ Top[E] = cpu /\ Root[E] = base_pid[E]
      /\ Caller[cpu] = parent_id[cpu]
  BY <1>1, <1>2, <1>5, Mapping
<1>7. Top' = [Top EXCEPT ![E] = parent_id[cpu]]
  BY <1>3, <1>5, Mapping, MappingNext
<1>8. Caller' = [Caller EXCEPT ![cpu] = NoPid]
  BY <1>1, <1>3, <1>4, Mapping, MappingNext
<1>9. UNCHANGED <<Root, Turn, Intact>>
  BY <1>3, Mapping, MappingNext
<1>10. Top' = [Top EXCEPT ![Turn] = Caller[@]]
  BY <1>6, <1>7
<1> QED BY <1>2, <1>5, <1>6, <1>8, <1>9, <1>10 DEF Promise!Pop

(* Opening a terminal starts a session of one shell.                       *)
LEMMA OpenRefines ==
    ASSUME IInv, NEW home \in Homing, Coherent(home),
           hazards = {}, hazards' = {}, NEW t \in Terminal, Open(t)
    PROVE  \E q \in Pid : Promise!OpenShell(t, q)
<1>1. PICK q \in LowestFree(process) :
          /\ base_pid' = [base_pid EXCEPT ![t] = q]
          /\ process' = process \cup {q}
          /\ program_pid' = [program_pid EXCEPT ![t] = q]
          /\ StartProgram(q, q, [stack |-> cpu, kind |-> "kbd"], at[cpu])
          /\ ~StackInUse(q)
  BY OpenStarts
<1>2. /\ t \notin active /\ active' = active \cup {t}
      /\ curr_terminal_executing' = t
  BY DEF Open
<1>3. q \in Pid /\ q \notin Live
  BY <1>1, LowestFreeType DEF StackInUse, Live
<1>4. \A p \in Pid : /\ at'[p] = "freed" <=> at[p] = "freed"
                     /\ p # q => parent_id'[p] = parent_id[p]
  BY <1>1, <1>3, Basics DEF StartProgram, IInv, TypeOK, Live
<1>5. q \notin Called /\ q \notin BaseShell
  BY <1>3, Alive, OnTerminalPlaces DEF Called
<1>6. base_pid \in [Terminal -> Pid \cup {NoPid}]
      /\ program_pid \in [Terminal -> Pid \cup {NoPid}]
      /\ active \subseteq Terminal
  BY DEF IInv, TypeOK
<1>7. Called' = Called
  <2>1. OnTerminal' = OnTerminal \cup {q}
    BY <1>1, <1>4 DEF OnTerminal
  <2>2. BaseShell' = BaseShell \cup {q}
    BY <1>1, <1>2, <1>6 DEF BaseShell
  <2> QED BY <2>1, <2>2, <1>5 DEF Called
<1>8. q \notin Promise!Busy
  BY <1>3, <1>5, Mapping, Basics
     DEF Promise!Busy, Promise!Roots, BaseShell, NoPid, Pid
<1>9. Root[t] = NoPid /\ Intact /\ UNCHANGED <<Caller, Intact>> /\ Turn' = t
  BY <1>2, <1>4, <1>5, <1>7, Mapping, MappingNext
<1>10. /\ Root' = [Root EXCEPT ![t] = q]
       /\ Top' = [Top EXCEPT ![t] = q]
  BY <1>1, <1>2, <1>6, Mapping, MappingNext
<1> QED BY <1>3, <1>8, <1>9, <1>10 DEF Promise!OpenShell

(* The timer passes the turn to an open terminal.                          *)
LEMMA PITRefines ==
    ASSUME IInv, NEW home \in Homing, Coherent(home),
           hazards = {}, hazards' = {}, PIT_handler
    PROVE  \E t \in Terminal : Promise!Schedule(t)
<1> DEFINE next == NextActive(next_terminal_executing)
<1>1. next \in active /\ next \in Terminal
  BY Basics, NextActiveInUse DEF IInv, TypeOK
<1>2. /\ curr_terminal_executing' = next /\ at' = at
      /\ UNCHANGED <<process, active, base_pid, program_pid, parent_id>>
  BY PITCoherent DEF PIT_handler, terminals
<1>3. Called' = Called
  BY <1>2 DEF Called, OnTerminal, BaseShell
<1>4. UNCHANGED <<Caller, Root, Top, Intact>>
  BY <1>2, <1>3, Stutter
<1>5. next \in Promise!Open
  BY <1>1, Mapping, Basics DEF Promise!Open, NoPid, Pid
<1>6. Intact /\ Turn' = next
  BY <1>2, Mapping, MappingNext
<1> QED BY <1>1, <1>4, <1>5, <1>6 DEF Promise!Schedule

(* What Sessions does not see: every other action, the rest of halt among  *)
(* them, leaves the sessions and the turn as they are.                     *)
LEMMA OthersStutter ==
    ASSUME IInv, NEW home \in Homing, Coherent(home), ~lost,
           hazards = {}, hazards' = {},
           \/ HaltBase \/ HaltEnter \/ HaltFree \/ HaltMap \/ HaltJump
           \/ Write \/ ReadBegin \/ ReadLine \/ ReadReturn \/ ReadCut
           \/ \E t \in Terminal : SwitchTo(t)
           \/ UNCHANGED vars
    PROVE  UNCHANGED Promise!vars
<1>1. Called \subseteq Pid /\ cpu \in Pid
  BY Basics, OnTerminalPlaces DEF Called
<1>2. CASE HaltBase
  <2>1. Running \in BaseShell
    BY <1>2, Basics DEF HaltBase, BaseShell
  <2>2. /\ curr_terminal_executing' = curr_terminal_executing
        /\ UNCHANGED <<process, active, base_pid, program_pid, at>>
        /\ \A p \in Pid : p # Running => parent_id'[p] = parent_id[p]
    BY <1>2, HaltBaseCoherent DEF HaltBase, schedule
  <2>3. Called' = Called /\ Running \notin Called
    BY <2>1, <2>2 DEF Called, OnTerminal, BaseShell
  <2> QED BY <2>2, <2>3, <1>1, Stutter
<1>3. ASSUME UNCHANGED <<OnTerminal, active, base_pid, program_pid,
                         parent_id, curr_terminal_executing>>
      PROVE  UNCHANGED Promise!vars
  <2>1. Called' = Called
    BY <1>3 DEF Called, BaseShell
  <2> QED BY <2>1, <1>3, Stutter
<1>4. CASE HaltFree
  <2>1. at[cpu] = "halting" /\ Running = cpu /\ cpu \in process
    BY <1>4, Basics DEF HaltFree, Left, Coherent, Accounted, Listed
  <2>2. OnTerminal' = OnTerminal
    BY <1>1, <1>4, <2>1 DEF HaltFree, OnTerminal, IInv, TypeOK
  <2> QED BY <2>2, <1>3, <1>4 DEF HaltFree, terminals, schedule, pcbs
<1>5. ASSUME process' = process,
             \A p \in Pid : at'[p] = "freed" <=> at[p] = "freed",
             UNCHANGED <<active, base_pid, program_pid, parent_id,
                         curr_terminal_executing>>
      PROVE  UNCHANGED Promise!vars
  <2>1. OnTerminal' = OnTerminal
    BY <1>5 DEF OnTerminal
  <2> QED BY <2>1, <1>3, <1>5
<1>6. CASE HaltEnter \/ HaltMap
  <2>1. \A p \in Pid : at'[p] = "freed" <=> at[p] = "freed"
    BY <1>1, <1>6 DEF HaltEnter, HaltMap, AtUser, IInv, TypeOK
  <2> QED BY <2>1, <1>5, <1>6 DEF HaltEnter, HaltMap, terminals, schedule, pcbs
<1>7. CASE HaltJump
  <2>1. \A p \in Pid : at'[p] = "freed" <=> at[p] = "freed"
    <3> DEFINE stands == [at EXCEPT ![cpu] = "gone"]
               f == parent_esp[locals[cpu].curr_pid]
    <3>1. /\ at[cpu] = "leaving" /\ Resume(f, mapped, stands)
          /\ f.stack \in Pid /\ ~lost' /\ at \in [Pid -> Points]
      BY <1>1, <1>7, HaltJumpCoherent DEF HaltJump, IInv, TypeOK, Frame
    <3>2. stands[f.stack] # "freed" \/ f.kind \notin {"exec", "restart"}
      BY <3>1 DEF Resume, Resumable, Depth, HaltPoints
    <3>3. \A p \in Pid : stands[p] = "freed" <=> at[p] = "freed"
      BY <1>1, <3>1
    <3>4. stands \in [Pid -> Points]
      BY <3>1 DEF Points
    <3> HIDE DEF stands, f
    <3>5. \A p \in Pid : at'[p] = "freed" <=> stands[p] = "freed"
      BY <3>1, <3>2, <3>4 DEF Resume
    <3> QED BY <3>3, <3>5
  <2> QED BY <2>1, <1>5, <1>7 DEF HaltJump, terminals, schedule, pcbs
<1>8. CASE ReadBegin \/ ReadLine \/ ReadReturn \/ ReadCut
  <2>1. \A p \in Pid : at'[p] = "freed" <=> at[p] = "freed"
    BY <1>1, <1>8 DEF ReadBegin, ReadLine, ReadReturn, ReadCut, ReturnToUser,
                      AtUser, IInv, TypeOK
  <2> QED BY <2>1, <1>5, <1>8 DEF ReadBegin, ReadLine, ReadReturn, ReadCut,
                                  ReturnToUser, terminals, schedule, pcbs
<1>9. CASE Write \/ (\E t \in Terminal : SwitchTo(t)) \/ UNCHANGED vars
  BY <1>5, <1>9 DEF Write, SwitchTo, vars, terminals, schedule, pcbs, threads
<1> QED BY <1>2, <1>4, <1>6, <1>7, <1>8, <1>9

(* Every step of the kernel is a step of Sessions or a stuttering one;     *)
(* the step of the first hazard is its Break.                              *)
LEMMA StepRefines ==
    IInv /\ Sound /\ [Next]_vars => [Promise!Next]_(Promise!vars)
<1> SUFFICES ASSUME IInv, Sound, [Next]_vars
             PROVE  Promise!Next \/ UNCHANGED Promise!vars
  OBVIOUS
<1>1. CASE hazards # {}
  <2>1. hazards' # {}
    BY <1>1, HazardsGrow
  <2> QED BY <1>1, <2>1 DEF Promise!vars, Caller, Root, Top, Turn, Intact
<1>2. CASE hazards = {} /\ hazards' # {}
  <2>1. Promise!Break
    BY <1>2 DEF Promise!Break, Promise!Nothing, Caller, Root, Top, Turn, Intact
  <2> QED BY <2>1 DEF Promise!Next
<1>3. CASE hazards = {} /\ hazards' = {}
  <2>1. PICK home \in Homing : Coherent(home) /\ ~lost
    BY <1>3 DEF Sound
  <2>2. CASE Execute
    BY <2>1, <2>2, <1>3, ExecutePushes DEF Promise!Next
  <2>3. CASE HaltRestore
    BY <2>1, <2>3, <1>3, HaltRestorePops DEF Promise!Next
  <2>4. CASE \E t \in Terminal : Open(t)
    BY <2>1, <2>4, <1>3, OpenRefines DEF Promise!Next
  <2>5. CASE PIT_handler
    BY <2>1, <2>5, <1>3, PITRefines DEF Promise!Next
  <2>6. CASE Lost
    BY <2>1, <2>6 DEF Lost
  <2>7. CASE \/ HaltBase \/ HaltEnter \/ HaltFree \/ HaltMap \/ HaltJump
             \/ Write \/ ReadBegin \/ ReadLine \/ ReadReturn \/ ReadCut
             \/ \E t \in Terminal : SwitchTo(t)
             \/ UNCHANGED vars
    BY <2>1, <2>7, <1>3, OthersStutter
  <2> QED BY <2>2, <2>3, <2>4, <2>5, <2>6, <2>7 DEF Next, HaltStep
<1> QED BY <1>1, <1>2, <1>3

(* The kernel implements Sessions: until a hazard strikes, execute and     *)
(* halt change the session of the terminal that calls them, at its top,    *)
(* and nothing else changes any (system_call.c:66-75, 276-296,             *)
(* terminal.c:346-355).                                                    *)
THEOREM Refinement == Spec => ImplementsSessions
<1>1. Spec => Promise!Spec
  BY InitRefines, StepRefines, AlwaysSound, PTL DEF Spec, Promise!Spec
<1> QED BY <1>1 DEF ImplementsSessions

-----------------------------------------------------------------------------
(* The exceptions.                                                         *)
StatusType ==
    /\ exception_flag \in BOOLEAN
    /\ phase \in [Pid -> Phases]
    /\ local_status \in [Pid -> {"own", "256"}]

Standing == \A p \in Pid : phase[p] # "run" => at[p] = "user"

Holds(p) == \/ phase[p] = "raised"
            \/ phase[p] = "tested" /\ local_status[p] = "256"

Holder == exception_flag => \E p \in Pid : Holds(p)

EInv == IInv /\ StatusType /\ Standing /\ Holder

(* As long as the flag has had one user at a time: a program between its   *)
(* exception and its test finds the flag up, and the status kept for a     *)
(* halt is 256 just when it halts because of an exception.                 *)
Blame ==
    /\ guilty \in [Pid -> BOOLEAN] /\ overlap \in BOOLEAN
    /\ ~overlap =>
          /\ \A p, q \in Pid : phase[p] # "run" /\ phase[q] # "run" => p = q
          /\ \A p \in Pid : phase[p] = "raised" => exception_flag
          /\ \A p \in Pid : guilty[p] <=> local_status[p] = "256"

-----------------------------------------------------------------------------
(* Every step is one of Processes, or leaves its state alone.              *)
LEMMA ProcessStep == ExceptionNext => [Next]_vars
<1> SUFFICES ASSUME ExceptionNext PROVE [Next]_vars
  OBVIOUS
<1>1. CASE Raise \/ HaltTest \/ \E number \in 0 .. 11 : SystemCall(number)
  <2>1. UNCHANGED vars
    BY <1>1 DEF Raise, HaltTest, SystemCall
  <2> QED BY <2>1
<1>2. CASE HaltReset \/ HaltReturn
  BY <1>2 DEF HaltReset, HaltReturn, HaltStep, Next
<1>3. CASE Others
  BY <1>3 DEF Others, HaltStep, Next
<1> QED BY <1>1, <1>2, <1>3 DEF ExceptionNext

(* Loading a context leaves a thread in user mode where it stands.         *)
LEMMA ResumeUser ==
    ASSUME NEW f \in Frame, NEW m, NEW stands \in [Pid -> Points],
           Resume(f, m, stands), NEW p \in Pid, stands[p] = "user"
    PROVE  at'[p] = "user"
<1>1. f.stack \in Pid
  BY DEF Frame
<1>2. (Resumable(f, stands) /\ f.kind = "restart") => f.stack # p
  BY DEF Resumable, Depth, HaltPoints
<1> QED BY <1>1, <1>2 DEF Resume

(* A step of the running thread leaves every other one in user mode there. *)
LEMMA OthersStay ==
    ASSUME IInv, NEW p \in Pid, p # cpu, at[p] = "user",
           \/ Execute \/ HaltBase \/ HaltEnter \/ HaltStep
           \/ Write \/ ReadBegin \/ ReadLine \/ ReadReturn \/ ReadCut
    PROVE  at'[p] = "user"
<1>1. TypeOK
  BY DEF IInv
<1>2. at \in [Pid -> Points] /\ cpu \in Pid
  BY <1>1 DEF TypeOK
<1>3. CASE Execute
  <2>1. PICK q \in LowestFree(process) :
          StartProgram(Running, q, [stack |-> cpu, kind |-> "exec"], "exec")
    BY <1>3 DEF Execute
  <2> QED BY <1>2, <2>1 DEF StartProgram
<1>4. CASE HaltBase
  <2>1. CASE \E q \in LowestFree(process \ {Running}) :
               StartProgram(Running, q, [stack |-> cpu, kind |-> "restart"],
                            "restart")
    BY <1>2, <2>1 DEF StartProgram
  <2>2. CASE at' = [at EXCEPT ![cpu] = "halting"]
    BY <1>2, <2>2
  <2> QED BY <1>4, <2>1, <2>2 DEF HaltBase
<1>5. CASE HaltEnter \/ HaltFree \/ HaltRestore \/ HaltMap
  BY <1>2, <1>5 DEF HaltEnter, HaltFree, HaltRestore, HaltMap
<1>6. CASE HaltJump
  <2> DEFINE stands == [at EXCEPT ![cpu] = "gone"]
  <2>1. parent_esp[locals[cpu].curr_pid] \in Frame
    BY <1>1 DEF TypeOK
  <2>2. stands \in [Pid -> Points] /\ stands[p] = "user"
    BY <1>2 DEF Points
  <2>3. Resume(parent_esp[locals[cpu].curr_pid], mapped, stands)
    BY <1>6 DEF HaltJump
  <2> HIDE DEF stands
  <2> QED BY <2>1, <2>2, <2>3, ResumeUser
<1>7. CASE Write
  BY <1>7 DEF Write, threads
<1>8. CASE ReadBegin \/ ReadLine \/ ReadReturn \/ ReadCut
  BY <1>2, <1>8 DEF ReadBegin, ReadLine, ReadReturn, ReadCut, ReturnToUser
<1> QED BY <1>3, <1>4, <1>5, <1>6, <1>7, <1>8 DEF HaltStep

(* An interrupt leaves every thread in user mode there, the running one    *)
(* too.                                                                    *)
LEMMA InterruptStays ==
    ASSUME IInv, NEW p \in Pid, at[p] = "user",
           PIT_handler \/ \E t \in Terminal : SwitchTo(t) \/ Open(t)
    PROVE  at'[p] = "user"
<1>1. at \in [Pid -> Points] /\ cpu \in Pid
  BY DEF IInv, TypeOK
<1>2. CASE PIT_handler
  <2>1. TypeOK'
    BY <1>2, PITInv DEF IInv
  <2>2. esp'[mapped'] \in Frame
    <3>1. esp' \in [Pid -> Frame] /\ mapped' \in Pid
      BY <2>1 DEF TypeOK
    <3> QED BY <3>1
  <2>3. Resume(esp'[mapped'], mapped', at)
    BY <1>2 DEF PIT_handler
  <2> QED BY <1>1, <2>2, <2>3, ResumeUser
<1>3. CASE \E t \in Terminal : SwitchTo(t)
  BY <1>3 DEF SwitchTo, threads
<1>4. ASSUME NEW t \in Terminal, Open(t) PROVE at'[p] = "user"
  <2>1. CASE \E pid, q : StartProgram(pid, q, [stack |-> cpu, kind |-> "kbd"],
                                      at[cpu])
    BY <1>1, <2>1 DEF StartProgram
  <2>2. CASE UNCHANGED at
    BY <2>2
  <2> QED BY <1>4, <2>1, <2>2 DEF Open
<1> QED BY <1>2, <1>3, <1>4

-----------------------------------------------------------------------------
LEMMA InitEInv == ExceptionInit => EInv
<1> SUFFICES ASSUME ExceptionInit PROVE EInv
  OBVIOUS
<1>1. IInv
  BY InitInv DEF ExceptionInit
<1> QED BY <1>1 DEF ExceptionInit, EInv, StatusType, Standing, Holder, Phases

(* A fault: the flag goes up, and its program holds it.                    *)
LEMMA RaiseEInv == ASSUME EInv, Raise PROVE (StatusType /\ Standing /\ Holder)'
<1>1. cpu \in Pid /\ at[cpu] = "user"
  BY DEF EInv, IInv, TypeOK, Raise, AtUser
<1>2. /\ phase' = [phase EXCEPT ![cpu] = "raised"]
      /\ exception_flag' = TRUE /\ local_status' = local_status /\ at' = at
  BY DEF Raise, Goto, vars, threads
<1>3. StatusType' /\ Standing'
  BY <1>1, <1>2 DEF EInv, StatusType, Standing, Phases
<1>4. phase'[cpu] = "raised"
  BY <1>1, <1>2 DEF EInv, StatusType
<1> QED BY <1>1, <1>3, <1>4 DEF Holder, Holds

(* The test: a halt that finds the flag up holds it; one that finds it     *)
(* down leaves it to whoever holds it.                                     *)
LEMMA TestEInv ==
    ASSUME EInv, HaltTest PROVE (StatusType /\ Standing /\ Holder)'
<1>1. cpu \in Pid /\ at[cpu] = "user"
  BY DEF EInv, IInv, TypeOK, HaltTest, AtUser
<1>2. /\ phase' = [phase EXCEPT ![cpu] = "tested"]
      /\ local_status' = [local_status EXCEPT ![cpu] =
                             IF exception_flag THEN "256" ELSE "own"]
      /\ exception_flag' = exception_flag /\ at' = at
  BY DEF HaltTest, Goto, vars, threads
<1>3. StatusType' /\ Standing'
  BY <1>1, <1>2 DEF EInv, StatusType, Standing, Phases
<1>4. exception_flag => phase'[cpu] = "tested" /\ local_status'[cpu] = "256"
  BY <1>1, <1>2 DEF EInv, StatusType
<1> QED BY <1>1, <1>2, <1>3, <1>4 DEF Holder, Holds

(* The reset: a halt that held the flag lowers it; one that did not is not *)
(* its holder, which stays.                                                *)
LEMMA ResetEInv ==
    ASSUME EInv, HaltReset PROVE (StatusType /\ Standing /\ Holder)'
<1>1. cpu \in Pid /\ phase[cpu] = "tested"
  BY DEF EInv, IInv, TypeOK, HaltReset
<1>2. /\ phase' = [phase EXCEPT ![cpu] = "run"]
      /\ local_status' = local_status
      /\ exception_flag' = (exception_flag /\ local_status[cpu] # "256")
  BY DEF HaltReset, Goto
<1>3. StatusType'
  BY <1>1, <1>2 DEF EInv, StatusType, Phases
<1>4. Standing'
  <2>1. ASSUME NEW p \in Pid, phase'[p] # "run" PROVE at'[p] = "user"
    <3>1. p # cpu /\ phase[p] # "run"
      BY <1>1, <1>2, <2>1 DEF EInv, StatusType
    <3>2. at[p] = "user"
      BY <3>1 DEF EInv, Standing
    <3> QED BY <3>1, <3>2, OthersStay DEF EInv, HaltReset
  <2> QED BY <2>1 DEF Standing
<1>5. Holder'
  <2> SUFFICES ASSUME exception_flag, local_status[cpu] # "256"
               PROVE  \E p \in Pid : Holds(p)'
    BY <1>2 DEF Holder
  <2>1. PICK p \in Pid : Holds(p)
    BY DEF EInv, Holder
  <2>2. p # cpu
    BY <1>1, <2>1 DEF Holds
  <2>3. Holds(p)'
    BY <1>1, <1>2, <2>1, <2>2 DEF Holds, EInv, StatusType
  <2> QED BY <2>3
<1> QED BY <1>3, <1>4, <1>5

(* The return to the caller's execute: the halt stands past its reset, so  *)
(* it is no holder.                                                        *)
LEMMA ReturnEInv ==
    ASSUME EInv, HaltReturn PROVE (StatusType /\ Standing /\ Holder)'
<1>1. cpu \in Pid /\ phase[cpu] = "run"
  BY DEF EInv, IInv, TypeOK, Standing, HaltReturn, HaltJump
<1>2. /\ phase' = phase /\ exception_flag' = exception_flag
      /\ local_status' = [local_status EXCEPT ![cpu] = "own"]
  BY DEF HaltReturn
<1>3. StatusType'
  BY <1>1, <1>2 DEF EInv, StatusType
<1>4. Standing'
  <2>1. ASSUME NEW p \in Pid, phase'[p] # "run" PROVE at'[p] = "user"
    BY <1>1, <1>2, <2>1, OthersStay DEF EInv, Standing, HaltReturn, HaltStep
  <2> QED BY <2>1 DEF Standing
<1>5. \A p \in Pid : Holds(p) => Holds(p)'
  BY <1>1, <1>2 DEF Holds, EInv, StatusType
<1> QED BY <1>2, <1>3, <1>4, <1>5 DEF Holder, EInv

(* Anything else leaves the flag, its holder and where it stands alone.    *)
LEMMA OthersEInv ==
    ASSUME EInv, Others PROVE (StatusType /\ Standing /\ Holder)'
<1>1. UNCHANGED <<exception_flag, phase, local_status>>
  BY DEF Others
<1>2. StatusType' /\ Holder'
  BY <1>1 DEF EInv, StatusType, Holder, Holds
<1>3. ASSUME NEW p \in Pid, phase'[p] # "run" PROVE at'[p] = "user"
  <2>1. phase[p] # "run" /\ at[p] = "user"
    BY <1>1, <1>3 DEF EInv, Standing
  <2>2. CASE /\ phase[cpu] = "run"
             /\ \/ Execute \/ HaltStep \/ Write \/ ReadBegin
                \/ ReadLine \/ ReadReturn \/ ReadCut
    BY <2>1, <2>2, OthersStay DEF EInv
  <2>3. CASE PIT_handler \/ \E t \in Terminal : SwitchTo(t) \/ Open(t)
    BY <2>1, <2>3, InterruptStays DEF EInv
  <2>4. CASE Lost
    BY <2>1, <2>4 DEF Lost, vars, threads
  <2> QED BY <2>2, <2>3, <2>4 DEF Others, HaltStep
<1> QED BY <1>2, <1>3 DEF Standing

LEMMA StepEInv == EInv /\ [ExceptionNext]_allVars => EInv'
<1> SUFFICES ASSUME EInv, [ExceptionNext]_allVars PROVE EInv'
  OBVIOUS
<1>1. IInv'
  <2>1. [Next]_vars
    BY ProcessStep DEF allVars
  <2> QED BY <2>1, StepInv DEF EInv
<1>2. CASE Raise \/ \E number \in 0 .. 11 :
                     SystemCall(number) /\ Entry(number) = "wild"
  <2>1. Raise
    BY <1>2 DEF SystemCall
  <2> QED BY <1>1, <2>1, RaiseEInv DEF EInv
<1>3. CASE HaltTest
  BY <1>1, <1>3, TestEInv DEF EInv
<1>4. CASE HaltReset
  BY <1>1, <1>4, ResetEInv DEF EInv
<1>5. CASE HaltReturn
  BY <1>1, <1>5, ReturnEInv DEF EInv
<1>6. CASE Others
  BY <1>1, <1>6, OthersEInv DEF EInv
<1>7. CASE UNCHANGED <<vars, exception_flag, phase, local_status>>
  <2>1. at' = at
    BY <1>7 DEF vars, threads
  <2> QED BY <1>1, <1>7, <2>1 DEF EInv, StatusType, Standing, Holder, Holds
<1> QED BY <1>2, <1>3, <1>4, <1>5, <1>6, <1>7
        DEF ExceptionNext, SystemCall, allVars, status

(* The inductive invariant of the kernel with exceptions                   *)
(* (system_call.c:36-42).                                                  *)
THEOREM EInvariance == ExceptionSpec => []EInv
  BY InitEInv, StepEInv, PTL DEF ExceptionSpec

-----------------------------------------------------------------------------
(* Whatever interrupts exceptions and halts and in whatever order they are *)
(* done, the flag is up only while some program is between its exception   *)
(* or its test and its reset: a program that halts when none is gets its   *)
(* own status (system_call.c:36-42).                                       *)
THEOREM FlagOnlyInUse == ExceptionSpec => []FlagInUse
<1>1. EInv => FlagInUse
  BY DEF EInv, Holder, Holds, FlagInUse
<1> QED BY EInvariance, <1>1, PTL
----------------------------------------------------------------------------
LEMMA InitBlame == ExceptionInit => Blame
  BY DEF ExceptionInit, Blame

(* A program that faults while nobody uses the flag raises it.             *)
LEMMA RaiseBlame == ASSUME EInv, Blame, Raise PROVE Blame'
<1>1. cpu \in Pid
  BY DEF EInv, IInv, TypeOK
<1>2. /\ phase' = [phase EXCEPT ![cpu] = "raised"] /\ exception_flag' = TRUE
      /\ local_status' = local_status /\ guilty' = guilty
      /\ overlap' = (overlap \/ \E p \in Pid : phase[p] # "run")
  BY DEF Raise, Goto
<1> QED BY <1>1, <1>2 DEF EInv, StatusType, Blame

(* A halt that tests the flag alone finds it up because of its own         *)
(* exception: were it another's, that program would still be using it.     *)
LEMMA TestBlame == ASSUME EInv, Blame, HaltTest PROVE Blame'
<1>1. cpu \in Pid /\ phase[cpu] \in {"run", "raised"}
  BY DEF EInv, IInv, TypeOK, HaltTest
<1>2. /\ phase' = [phase EXCEPT ![cpu] = "tested"]
      /\ exception_flag' = exception_flag
      /\ local_status' = [local_status EXCEPT ![cpu] =
                             IF exception_flag THEN "256" ELSE "own"]
      /\ guilty' = [guilty EXCEPT ![cpu] = phase[cpu] = "raised"]
      /\ overlap' = (overlap \/ \E p \in Pid \ {cpu} : phase[p] # "run")
  BY DEF HaltTest, Goto
<1>3. guilty' \in [Pid -> BOOLEAN] /\ overlap' \in BOOLEAN
  BY <1>2 DEF Blame
<1>4. ASSUME ~overlap'
      PROVE  /\ \A p, q \in Pid : phase'[p] # "run" /\ phase'[q] # "run" => p = q
             /\ \A p \in Pid : phase'[p] = "raised" => exception_flag'
             /\ \A p \in Pid : guilty'[p] <=> local_status'[p] = "256"
  <2>1. ~overlap /\ \A p \in Pid \ {cpu} : phase[p] = "run"
    BY <1>2, <1>4
  <2>2. \A p \in Pid : phase'[p] = IF p = cpu THEN "tested" ELSE "run"
    BY <1>1, <1>2, <2>1 DEF EInv, StatusType
  <2>3. exception_flag <=> phase[cpu] = "raised"
    BY <1>1, <2>1 DEF EInv, Holder, Holds, Blame
  <2>4. ASSUME NEW p \in Pid
        PROVE  guilty'[p] <=> local_status'[p] = "256"
    BY <1>1, <1>2, <2>1, <2>3 DEF EInv, StatusType, Blame
  <2> QED BY <2>2, <2>4
<1> QED BY <1>3, <1>4 DEF Blame

(* The reset ends the use of the flag.                                     *)
LEMMA ResetBlame == ASSUME EInv, Blame, HaltReset PROVE Blame'
<1>1. cpu \in Pid /\ phase[cpu] = "tested"
  BY DEF EInv, IInv, TypeOK, HaltReset
<1>2. /\ phase' = [phase EXCEPT ![cpu] = "run"]
      /\ local_status' = local_status /\ guilty' = guilty /\ overlap' = overlap
  BY DEF HaltReset, Goto
<1>3. ~overlap => \A p \in Pid : phase'[p] = "run"
  BY <1>1, <1>2 DEF EInv, StatusType, Blame
<1> QED BY <1>2, <1>3 DEF Blame

(* The status and the blame are forgotten together.                        *)
LEMMA ReturnBlame == ASSUME EInv, Blame, HaltReturn PROVE Blame'
<1>1. /\ local_status' = [local_status EXCEPT ![cpu] = "own"]
      /\ guilty' = [guilty EXCEPT ![cpu] = FALSE]
      /\ UNCHANGED <<exception_flag, phase, overlap>>
  BY DEF HaltReturn
<1> QED BY <1>1 DEF EInv, StatusType, Blame

LEMMA StepBlame == EInv /\ Blame /\ [ExceptionNext]_allVars => Blame'
<1> SUFFICES ASSUME EInv, Blame, [ExceptionNext]_allVars PROVE Blame'
  OBVIOUS
<1>1. CASE UNCHANGED <<exception_flag, phase, local_status, guilty, overlap>>
  BY <1>1 DEF Blame
<1> QED BY <1>1, RaiseBlame, TestBlame, ResetBlame, ReturnBlame
        DEF ExceptionNext, SystemCall, Others, allVars, status

(* A stack is left by the jump of halt alone.                              *)
LEMMA OnlyReturnLeaves ==
    ASSUME EInv, ExceptionNext, at[cpu] = "leaving", at'[cpu] = "gone"
    PROVE  HaltReturn
<1>1. at \in [Pid -> Points] /\ cpu \in Pid
  BY DEF EInv, IInv, TypeOK
<1>2. CASE Raise \/ HaltTest \/ HaltReset \/ \E n \in 0 .. 11 : SystemCall(n)
  BY <1>2 DEF Raise, HaltTest, HaltReset, SystemCall, AtUser, HaltBase, HaltEnter
<1>3. CASE Others
  <2>1. CASE \/ Execute \/ Write \/ ReadBegin \/ HaltFree \/ HaltRestore
             \/ HaltMap \/ ReadLine \/ ReadReturn \/ ReadCut
    BY <2>1 DEF Execute, Write, ReadBegin, HaltFree, HaltRestore, HaltMap,
                ReadLine, ReadReturn, ReadCut, AtUser
  <2>2. CASE PIT_handler
    <3>1. PICK f, m : Resume(f, m, at)
      BY <2>2 DEF PIT_handler
    <3> QED BY <1>1, <3>1 DEF Resume
  <2>3. CASE \E t \in Terminal : SwitchTo(t)
    BY <2>3 DEF SwitchTo, threads
  <2>4. CASE \E t \in Terminal : Open(t)
    <3>1. CASE \E pid, q : StartProgram(pid, q, [stack |-> cpu, kind |-> "kbd"],
                                        at[cpu])
      BY <1>1, <3>1 DEF StartProgram
    <3>2. CASE UNCHANGED at
      BY <3>2
    <3> QED BY <2>4, <3>1, <3>2 DEF Open
  <2>5. CASE Lost
    BY <2>5 DEF Lost, vars, threads
  <2> QED BY <1>3, <2>1, <2>2, <2>3, <2>4, <2>5 DEF Others
<1> QED BY <1>2, <1>3 DEF ExceptionNext

(* As long as the flag has one user at a time, execute returns 256 just    *)
(* for a program that ended in an exception, and its own status for any    *)
(* other (system_call.c:36-42, 99-112).                                    *)
THEOREM StatusGiven == ExceptionSpec => StatusRight
<1> DEFINE Right == (hazards = {} /\ ~overlap /\ at[cpu] = "leaving"
                        /\ at'[cpu] = "gone")
                      => eax' = IF guilty[cpu] THEN "256" ELSE "own"
<1>1. EInv /\ Blame /\ [ExceptionNext]_allVars => [Right]_allVars
  <2> SUFFICES ASSUME EInv, Blame, ExceptionNext, ~overlap,
                      at[cpu] = "leaving", at'[cpu] = "gone"
               PROVE  eax' = IF guilty[cpu] THEN "256" ELSE "own"
    OBVIOUS
  <2>1. cpu \in Pid /\ local_status[cpu] \in {"own", "256"}
    BY DEF EInv, IInv, TypeOK, StatusType
  <2>2. eax' = local_status[cpu]
    BY OnlyReturnLeaves DEF HaltReturn
  <2> QED BY <2>1, <2>2 DEF Blame
<1>2. ExceptionSpec => [](EInv /\ Blame)
  BY InitEInv, InitBlame, StepEInv, StepBlame, PTL DEF ExceptionSpec
<1>3. ExceptionSpec => [][Right]_allVars
  BY <1>1, <1>2, PTL DEF ExceptionSpec
<1> QED BY <1>3 DEF StatusRight
(* A behaviour with exceptions is a behaviour of Processes, so whatever is *)
(* proved of those holds here: an exception does to processes, stacks and  *)
(* terminals nothing that halt, called by a program, does not do           *)
(* (idt.c, system_call.c:36-112).                                          *)
THEOREM StillProcesses == ExceptionSpec => Spec
<1>1. ExceptionInit => Init
  BY DEF ExceptionInit
<1>2. [ExceptionNext]_allVars => [Next]_vars
  BY ProcessStep DEF allVars
<1> QED BY <1>1, <1>2, PTL DEF ExceptionSpec, Spec
=============================================================================
